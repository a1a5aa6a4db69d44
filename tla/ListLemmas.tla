----------------------------- MODULE ListLemmas -----------------------------
(***************************************************************************)
(* What is used of lists and of finite sets: what the list operations of   *)
(* the queues do, position by position; induction over the numbers, by the *)
(* least one of a set, and over finite sets; what a sum over a finite set  *)
(* is; and what is kept of a list by the places at which it stands.        *)
(***************************************************************************)
EXTENDS Selection, Sequences, SequencesExt, FiniteSetsExt, Functions,
        SequenceTheorems, FiniteSetTheorems, WellFoundedInduction, TLAPS

\* InsertAt makes room at position k and keeps the order of the rest.
LEMMA InsertAtProperties ==
    ASSUME NEW S, NEW s \in Seq(S), NEW e \in S, NEW k \in 1..(Len(s) + 1)
    PROVE  /\ InsertAt(s, k, e) \in Seq(S)
           /\ Len(InsertAt(s, k, e)) = Len(s) + 1
           /\ \A i \in 1..(Len(s) + 1) :
                 InsertAt(s, k, e)[i] = IF i < k THEN s[i]
                                        ELSE IF i = k THEN e ELSE s[i - 1]
<1> DEFINE front == SubSeq(s, 1, k - 1)
           back == SubSeq(s, k, Len(s))
           mid == front \o <<e>>
<1>1. /\ front \in Seq(S) /\ Len(front) = k - 1
      /\ \A i \in 1..(k - 1) : front[i] = s[i]
  OBVIOUS
<1>2. /\ back \in Seq(S) /\ Len(back) = Len(s) - k + 1
      /\ \A i \in 1..(Len(s) - k + 1) : back[i] = s[k + i - 1]
  OBVIOUS
<1> HIDE DEF front, back
<1>3. /\ mid \in Seq(S) /\ Len(mid) = k
      /\ \A i \in 1..k : mid[i] = IF i < k THEN s[i] ELSE e
  BY <1>1
<1> HIDE DEF mid
<1>4. /\ mid \o back \in Seq(S)
      /\ Len(mid \o back) = Len(mid) + Len(back)
      /\ \A i \in 1..(Len(mid) + Len(back)) :
            (mid \o back)[i] = IF i <= Len(mid) THEN mid[i] ELSE back[i - Len(mid)]
  BY ONLY <1>2, <1>3, ConcatProperties, Zenon
<1>5. Len(mid) + Len(back) = Len(s) + 1
  BY <1>2, <1>3
<1>6. ASSUME NEW i \in 1..(Len(s) + 1)
      PROVE  (mid \o back)[i] = IF i < k THEN s[i] ELSE IF i = k THEN e ELSE s[i - 1]
  <2>1. (mid \o back)[i] = IF i <= k THEN mid[i] ELSE back[i - k]
    BY <1>3, <1>4, <1>5
  <2>2. CASE i <= k
    BY <1>3, <2>1, <2>2
  <2>3. CASE i > k
    <3>1. i - k \in 1..(Len(s) - k + 1) /\ k + (i - k) - 1 = i - 1
      BY <2>3
    <3>2. back[i - k] = s[i - 1]
      BY <1>2, <3>1
    <3> QED
      BY <2>1, <2>3, <3>2
  <2>4. i <= k \/ i > k
    OBVIOUS
  <2> QED
    BY <2>2, <2>3, <2>4, Zenon
<1>7. InsertAt(s, k, e) = mid \o back
  BY DEF InsertAt, mid, front, back
<1> QED
  BY <1>4, <1>5, <1>6, <1>7, Zenon

\* RemoveAt closes the gap at position k.
LEMMA RemoveAtProperties ==
    ASSUME NEW S, NEW s \in Seq(S), NEW k \in 1..Len(s)
    PROVE  /\ RemoveAt(s, k) \in Seq(S)
           /\ Len(RemoveAt(s, k)) = Len(s) - 1
           /\ \A i \in 1..(Len(s) - 1) :
                 RemoveAt(s, k)[i] = IF i < k THEN s[i] ELSE s[i + 1]
<1> DEFINE front == SubSeq(s, 1, k - 1)
           back == SubSeq(s, k + 1, Len(s))
<1>1. /\ front \in Seq(S) /\ Len(front) = k - 1
      /\ \A i \in 1..(k - 1) : front[i] = s[i]
  OBVIOUS
<1>2. /\ back \in Seq(S) /\ Len(back) = Len(s) - k
      /\ \A i \in 1..(Len(s) - k) : back[i] = s[k + i]
  OBVIOUS
<1> HIDE DEF front, back
<1>3. /\ front \o back \in Seq(S)
      /\ Len(front \o back) = Len(front) + Len(back)
      /\ \A i \in 1..(Len(front) + Len(back)) :
            (front \o back)[i] = IF i <= Len(front) THEN front[i] ELSE back[i - Len(front)]
  BY ONLY <1>1, <1>2, ConcatProperties, Zenon
<1>4. Len(front) + Len(back) = Len(s) - 1
  BY <1>1, <1>2
<1>5. ASSUME NEW i \in 1..(Len(s) - 1)
      PROVE  (front \o back)[i] = IF i < k THEN s[i] ELSE s[i + 1]
  <2>1. (front \o back)[i] = IF i <= k - 1 THEN front[i] ELSE back[i - (k - 1)]
    BY <1>1, <1>3, <1>4
  <2>2. CASE i < k
    BY <1>1, <2>1, <2>2
  <2>3. CASE i >= k
    <3>1. i - (k - 1) \in 1..(Len(s) - k) /\ k + (i - (k - 1)) = i + 1
      BY <2>3
    <3>2. back[i - (k - 1)] = s[i + 1]
      BY <1>2, <3>1
    <3> QED
      BY <2>1, <2>3, <3>2
  <2>4. i < k \/ i >= k
    OBVIOUS
  <2> QED
    BY <2>2, <2>3, <2>4, Zenon
<1>6. RemoveAt(s, k) = front \o back
  BY DEF RemoveAt, front, back
<1> QED
  BY <1>3, <1>4, <1>5, <1>6, Zenon

-----------------------------------------------------------------------------
(* The elements of a list without repetitions after each operation.        *)

Distinct(s) == \A i, k \in 1..Len(s) : s[i] = s[k] => i = k

\* An element of a list has a position in it.
LEMMA ToSetElements ==
    ASSUME NEW S, NEW s \in Seq(S)
    PROVE  /\ \A x : x \in ToSet(s) <=> \E i \in 1..Len(s) : s[i] = x
           /\ ToSet(s) \subseteq S
<1>1. DOMAIN s = 1..Len(s)
  OBVIOUS
<1> QED
  BY <1>1 DEF ToSet

\* Inserting a new element adds exactly it, and the list stays repetition-free.
LEMMA InsertAtElements ==
    ASSUME NEW S, NEW s \in Seq(S), NEW e \in S, NEW k \in 1..(Len(s) + 1),
           Distinct(s), e \notin ToSet(s)
    PROVE  /\ ToSet(InsertAt(s, k, e)) = ToSet(s) \union {e}
           /\ Distinct(InsertAt(s, k, e))
<1> DEFINE r == InsertAt(s, k, e)
<1>1. /\ r \in Seq(S) /\ Len(r) = Len(s) + 1
      /\ \A i \in 1..(Len(s) + 1) :
            r[i] = IF i < k THEN s[i] ELSE IF i = k THEN e ELSE s[i - 1]
  BY InsertAtProperties
<1>2. \A i \in 1..Len(s) : s[i] # e
  BY ToSetElements
<1> HIDE DEF r
<1>3. ASSUME NEW i \in 1..Len(s) PROVE \E m \in 1..Len(r) : r[m] = s[i]
  <2>1. CASE i < k
    BY <1>1, <2>1
  <2>2. CASE i >= k
    <3>1. i + 1 \in 1..Len(r) /\ r[i + 1] = s[i]
      BY <1>1, <2>2
    <3> QED
      BY <3>1
  <2> QED
    BY <2>1, <2>2
<1>4. k \in 1..Len(r) /\ r[k] = e
  BY <1>1
<1>5. ASSUME NEW i \in 1..Len(r), i # k
      PROVE  \E a \in 1..Len(s) : a = (IF i < k THEN i ELSE i - 1) /\ r[i] = s[a]
  BY <1>1, <1>5
<1>6. ToSet(r) = ToSet(s) \union {e}
  <2>1. /\ \A x : x \in ToSet(s) <=> \E i \in 1..Len(s) : s[i] = x
        /\ \A x : x \in ToSet(r) <=> \E i \in 1..Len(r) : r[i] = x
    BY <1>1, ToSetElements
  <2>2. ASSUME NEW x \in ToSet(r) PROVE x \in ToSet(s) \union {e}
    <3>1. PICK i \in 1..Len(r) : r[i] = x
      BY <2>1
    <3> QED
      BY <1>4, <1>5, <2>1, <3>1
  <2>3. ASSUME NEW x \in ToSet(s) PROVE x \in ToSet(r)
    <3>1. PICK i \in 1..Len(s) : s[i] = x
      BY <2>1
    <3> QED
      BY <1>3, <2>1, <3>1
  <2>4. e \in ToSet(r)
    BY <1>4, <2>1
  <2> QED
    BY <2>2, <2>3, <2>4
<1>7. Distinct(r)
  <2> SUFFICES ASSUME NEW i \in 1..Len(r), NEW m \in 1..Len(r), r[i] = r[m]
               PROVE  i = m
    BY DEF Distinct
  <2>1. CASE i = k \/ m = k
    BY <1>2, <1>4, <1>5, <2>1
  <2>2. CASE i # k /\ m # k
    <3>1. PICK a \in 1..Len(s) : a = (IF i < k THEN i ELSE i - 1) /\ r[i] = s[a]
      BY <1>5, <2>2
    <3>2. PICK b \in 1..Len(s) : b = (IF m < k THEN m ELSE m - 1) /\ r[m] = s[b]
      BY <1>5, <2>2
    <3>3. a = b
      BY <3>1, <3>2 DEF Distinct
    <3> QED
      BY <1>1, <2>2, <3>1, <3>2, <3>3
  <2> QED
    BY <2>1, <2>2
<1> QED
  BY <1>6, <1>7 DEF r

\* Taking the head removes exactly it.
LEMMA TailElements ==
    ASSUME NEW S, NEW s \in Seq(S), s # <<>>, Distinct(s)
    PROVE  /\ Head(s) \in ToSet(s)
           /\ Tail(s) \in Seq(S)
           /\ ToSet(Tail(s)) = ToSet(s) \ {Head(s)}
           /\ Distinct(Tail(s))
<1>1. /\ Tail(s) \in Seq(S) /\ Len(Tail(s)) = Len(s) - 1 /\ Len(s) >= 1
      /\ \A i \in 1..Len(Tail(s)) : Tail(s)[i] = s[i + 1]
      /\ Head(s) = s[1]
  OBVIOUS
<1>2. \A i \in 2..Len(s) : s[i] # s[1] /\ i - 1 \in 1..Len(Tail(s)) /\ Tail(s)[i - 1] = s[i]
  BY <1>1 DEF Distinct
<1>3. /\ \A x : x \in ToSet(s) <=> \E i \in 1..Len(s) : s[i] = x
      /\ \A x : x \in ToSet(Tail(s)) <=> \E i \in 1..Len(Tail(s)) : Tail(s)[i] = x
  BY <1>1, ToSetElements
<1>4. ToSet(Tail(s)) = ToSet(s) \ {Head(s)}
  <2>1. ASSUME NEW i \in 1..Len(Tail(s))
        PROVE  Tail(s)[i] \in ToSet(s) /\ Tail(s)[i] # Head(s)
    <3>1. i + 1 \in 2..Len(s) /\ Tail(s)[i] = s[i + 1]
      BY <1>1
    <3> QED
      BY <1>1, <1>2, <1>3, <3>1
  <2>2. ASSUME NEW i \in 1..Len(s), s[i] # Head(s)
        PROVE  s[i] \in ToSet(Tail(s))
    <3>1. i \in 2..Len(s)
      BY <1>1, <2>2
    <3> QED
      BY <1>2, <1>3, <3>1
  <2> QED
    BY <1>3, <2>1, <2>2
<1>5. Distinct(Tail(s))
  BY <1>1 DEF Distinct
<1> QED
  BY <1>1, <1>3, <1>4, <1>5

\* Removing a position removes exactly the element there.
LEMMA RemoveAtElements ==
    ASSUME NEW S, NEW s \in Seq(S), NEW k \in 1..Len(s), Distinct(s)
    PROVE  /\ ToSet(RemoveAt(s, k)) = ToSet(s) \ {s[k]}
           /\ Distinct(RemoveAt(s, k))
<1> DEFINE r == RemoveAt(s, k)
<1>1. /\ r \in Seq(S) /\ Len(r) = Len(s) - 1
      /\ \A i \in 1..(Len(s) - 1) : r[i] = IF i < k THEN s[i] ELSE s[i + 1]
  BY RemoveAtProperties
<1> HIDE DEF r
<1>2. ASSUME NEW i \in 1..Len(s), i # k PROVE \E m \in 1..Len(r) : r[m] = s[i]
  <2>1. CASE i < k
    BY <1>1, <2>1
  <2>2. CASE i > k
    <3>1. i - 1 \in 1..Len(r) /\ r[i - 1] = s[i]
      BY <1>1, <2>2
    <3> QED
      BY <3>1
  <2> QED
    BY <1>2, <2>1, <2>2
<1>3. ASSUME NEW i \in 1..Len(r) PROVE \E m \in 1..Len(s) : m # k /\ r[i] = s[m]
  BY <1>1
<1>4. ToSet(r) = ToSet(s) \ {s[k]}
  <2>1. /\ \A x : x \in ToSet(s) <=> \E i \in 1..Len(s) : s[i] = x
        /\ \A x : x \in ToSet(r) <=> \E i \in 1..Len(r) : r[i] = x
    BY <1>1, ToSetElements
  <2>2. \A m \in 1..Len(s) : m # k => s[m] # s[k]
    BY DEF Distinct
  <2>3. ASSUME NEW x \in ToSet(r) PROVE x \in ToSet(s) \ {s[k]}
    <3>1. PICK i \in 1..Len(r) : r[i] = x
      BY <2>1
    <3>2. PICK m \in 1..Len(s) : m # k /\ r[i] = s[m]
      BY <1>3, <3>1
    <3> QED
      BY <2>1, <2>2, <3>1, <3>2
  <2>4. ASSUME NEW x \in ToSet(s) \ {s[k]} PROVE x \in ToSet(r)
    <3>1. PICK i \in 1..Len(s) : s[i] = x
      BY <2>1
    <3> QED
      BY <1>2, <2>1, <3>1
  <2> QED
    BY <2>3, <2>4
<1>5. Distinct(r)
  <2> SUFFICES ASSUME NEW i \in 1..Len(r), NEW m \in 1..Len(r), r[i] = r[m]
               PROVE  i = m
    BY DEF Distinct
  <2>1. PICK a \in 1..Len(s) : a = (IF i < k THEN i ELSE i + 1) /\ r[i] = s[a]
    BY <1>1
  <2>2. PICK b \in 1..Len(s) : b = (IF m < k THEN m ELSE m + 1) /\ r[m] = s[b]
    BY <1>1
  <2>3. a = b
    BY <2>1, <2>2 DEF Distinct
  <2> QED
    BY <1>1, <2>1, <2>2, <2>3
<1> QED
  BY <1>4, <1>5 DEF r

-----------------------------------------------------------------------------
\* A set of numbers that is not empty has a least one.
LEMMA LeastNumber ==
    ASSUME NEW S, S \subseteq Nat, S # {}
    PROVE  \E m \in S : \A n \in S : m <= n
<1> DEFINE R == OpToRel(<, Nat)
<1>1. IsWellFoundedOn(R, Nat)
      BY NatLessThanWellFounded
<1>2. \A m, n \in Nat : m < n => <<m, n>> \in R
      BY DEF OpToRel
<1> HIDE DEF R
<1>3. PICK m \in S : \A n \in S : <<n, m>> \notin R
      BY <1>1, WFMin
<1>4. ASSUME NEW n \in S  PROVE m <= n
      <2>1. ~(n < m)
            BY <1>2, <1>3
      <2> QED BY <2>1
<1> QED BY <1>4

\* Induction: a set that has 0 and with every number the next one has them all.
LEMMA Inductive ==
    ASSUME NEW S, 0 \in S, \A n \in Nat : n \in S => n + 1 \in S
    PROVE  \A n \in Nat : n \in S
<1> SUFFICES ASSUME Nat \ S # {}  PROVE FALSE
    OBVIOUS
<1>1. PICK m \in Nat \ S : \A n \in Nat \ S : m <= n
      BY LeastNumber
<1>2. m # 0 /\ m - 1 \in Nat
      OBVIOUS
<1>3. m - 1 \in S
      BY <1>1, <1>2
<1> QED BY <1>2, <1>3, <1>1

\* Parts of a finite set are finite, and one element more or less is one in size.
LEMMA Sizes ==
    ASSUME NEW S, IsFiniteSet(S), NEW s, s \subseteq S
    PROVE  /\ IsFiniteSet(s)
           /\ Cardinality(s) \in Nat
           /\ Cardinality(s) <= Cardinality(S)
           /\ Cardinality(s) = 0 <=> s = {}
           /\ \A x \in s : /\ Cardinality(s \ {x}) = Cardinality(s) - 1
                           /\ Cardinality(s) >= 1
           /\ \A x : x \notin s => Cardinality(s \union {x}) = Cardinality(s) + 1
<1>1. IsFiniteSet(s) /\ Cardinality(s) <= Cardinality(S)
      BY FS_Subset
<1>2. Cardinality(s) \in Nat
      BY <1>1, FS_CardinalityType
<1>3. Cardinality(s) = 0 <=> s = {}
      BY <1>1, FS_EmptySet
<1>4. \A x \in s : Cardinality(s \ {x}) = Cardinality(s) - 1
      BY <1>1, FS_RemoveElement
<1>5. \A x : x \notin s => Cardinality(s \union {x}) = Cardinality(s) + 1
      BY <1>1, FS_AddElement
<1>6. \A x \in s : Cardinality(s) >= 1
      BY <1>2, <1>3
<1> QED BY <1>1, <1>2, <1>3, <1>4, <1>5, <1>6

\* Induction over a finite set, one element at a time.
LEMMA FiniteInductive ==
    ASSUME NEW S, IsFiniteSet(S), NEW T, {} \in T,
           \A s \in SUBSET S : \A x \in S \ s : s \in T => s \union {x} \in T
    PROVE  \A s \in SUBSET S : s \in T
<1> DEFINE N == {n \in Nat : \A s \in SUBSET S : Cardinality(s) = n => s \in T}
<1>1. 0 \in N
      <2>1. ASSUME NEW s \in SUBSET S, Cardinality(s) = 0  PROVE s \in T
            <3> QED BY <2>1, Sizes
      <2> QED BY <2>1
<1>2. ASSUME NEW n \in Nat, n \in N
      PROVE  n + 1 \in N
      <2>1. ASSUME NEW s \in SUBSET S, Cardinality(s) = n + 1  PROVE s \in T
            <3>2. s # {}
                  BY <2>1, Sizes
            <3>3. PICK x \in s : TRUE
                  BY <3>2
            <3>4. Cardinality(s \ {x}) = n
                  BY <2>1, Sizes
            <3>5. s \ {x} \in T
                  BY <1>2, <3>4
            <3>6. x \in S \ (s \ {x}) /\ s \ {x} \in SUBSET S /\ (s \ {x}) \union {x} = s
                  OBVIOUS
            <3> QED BY <3>5, <3>6
      <2> QED BY <2>1
<1> HIDE DEF N
<1>3. \A n \in Nat : n \in N
      BY <1>1, <1>2, Inductive
<1>4. ASSUME NEW s \in SUBSET S  PROVE s \in T
      <2>2. Cardinality(s) \in N
            BY <1>3, Sizes
      <2> QED BY <2>2 DEF N
<1> QED BY <1>4

\* A sum, as a function of the parts of a set that takes the chosen element away.
Chosen(s) == CHOOSE x \in s : TRUE
IsSum(g, f, S) == g = [s \in SUBSET S |-> IF s = {} THEN 0 ELSE f[Chosen(s)] + g[s \ {Chosen(s)}]]

\* The same for the parts that have at most n elements.
PartSum(g, f, S, n) ==
    /\ DOMAIN g = SUBSET S
    /\ \A s \in SUBSET S : g[s] = IF s = {} THEN 0
                                  ELSE IF Cardinality(s) <= n THEN f[Chosen(s)] + g[s \ {Chosen(s)}] ELSE 0

\* Taking the chosen element away leaves a part with one element less.
LEMMA ChosenIsOne ==
    ASSUME NEW S, IsFiniteSet(S), NEW s \in SUBSET S, s # {}
    PROVE  /\ Chosen(s) \in s /\ s \ {Chosen(s)} \in SUBSET S
           /\ Cardinality(s) \in Nat /\ Cardinality(s) >= 1 /\ Cardinality(s) <= Cardinality(S)
           /\ Cardinality(s \ {Chosen(s)}) = Cardinality(s) - 1
<1>1. Chosen(s) \in s
      BY DEF Chosen
<1> QED BY <1>1, Sizes

\* Sums of the parts up to a size give those of the parts one larger.
LEMMA PartSumStep ==
    ASSUME NEW S, IsFiniteSet(S), NEW f, NEW n \in Nat, NEW g, PartSum(g, f, S, n)
    PROVE  \E h : PartSum(h, f, S, n + 1)
<1> DEFINE Value(s) == IF s = {} THEN 0
                       ELSE IF Cardinality(s) <= n + 1 THEN f[Chosen(s)] + g[s \ {Chosen(s)}] ELSE 0
           h == [s \in SUBSET S |-> Value(s)]
<1>1. DOMAIN h = SUBSET S /\ \A s \in SUBSET S : h[s] = Value(s)
      OBVIOUS
<1> HIDE DEF h
<1>2. ASSUME NEW s \in SUBSET S, s # {}, Cardinality(s) <= n
      PROVE  h[s] = g[s]
      <2>1. g[s] = f[Chosen(s)] + g[s \ {Chosen(s)}]
            BY <1>2 DEF PartSum
      <2>0. Cardinality(s) \in Nat
            BY Sizes
      <2>2. Cardinality(s) <= n + 1
            BY <1>2, <2>0
      <2>3. h[s] = f[Chosen(s)] + g[s \ {Chosen(s)}]
            BY <1>1, <1>2, <2>2
      <2> QED BY <2>1, <2>3
<1>3. h[{}] = g[{}]
      BY <1>1 DEF PartSum
<1>4. ASSUME NEW s \in SUBSET S, s # {}, Cardinality(s) <= n + 1
      PROVE  h[s \ {Chosen(s)}] = g[s \ {Chosen(s)}]
      <2>1. Cardinality(s \ {Chosen(s)}) <= n /\ s \ {Chosen(s)} \in SUBSET S
            BY <1>4, ChosenIsOne
      <2> QED BY <2>1, <1>2, <1>3
<1>5. PartSum(h, f, S, n + 1)
      BY <1>1, <1>4 DEF PartSum
<1> QED BY <1>5

\* There is a function that gives the sum of every part.
LEMMA SumExists ==
    ASSUME NEW S, IsFiniteSet(S), NEW f
    PROVE  \E g : IsSum(g, f, S)
<1> DEFINE N == {n \in Nat : \E g : PartSum(g, f, S, n)}
<1>1. 0 \in N
      <2> DEFINE h == [s \in SUBSET S |-> 0]
      <2>1. DOMAIN h = SUBSET S /\ \A s \in SUBSET S : h[s] = 0
            OBVIOUS
      <2> HIDE DEF h
      <2>2. \A s \in SUBSET S : s # {} => ~(Cardinality(s) <= 0)
            <3> SUFFICES ASSUME NEW s \in SUBSET S, s # {}  PROVE ~(Cardinality(s) <= 0)
                OBVIOUS
            <3>1. Cardinality(s) \in Nat /\ Cardinality(s) >= 1
                  BY ChosenIsOne
            <3> QED BY <3>1
      <2>3. PartSum(h, f, S, 0)
            BY <2>1, <2>2 DEF PartSum
      <2> QED BY <2>3
<1>2. \A n \in Nat : n \in N => n + 1 \in N
      BY PartSumStep
<1> HIDE DEF N
<1>3. Cardinality(S) \in N
      BY <1>1, <1>2, Inductive, FS_CardinalityType
<1>4. PICK g : PartSum(g, f, S, Cardinality(S))
      BY <1>3 DEF N
<1> DEFINE h == [s \in SUBSET S |-> g[s]]
<1>5. \A s \in SUBSET S : h[s] = g[s]
      OBVIOUS
<1>6. ASSUME NEW s \in SUBSET S
      PROVE  g[s] = IF s = {} THEN 0 ELSE f[Chosen(s)] + h[s \ {Chosen(s)}]
      <2>1. CASE s = {}
            BY <1>4, <2>1 DEF PartSum
      <2>2. CASE s # {}
            <3>1. Cardinality(s) <= Cardinality(S) /\ s \ {Chosen(s)} \in SUBSET S
                  BY <2>2, ChosenIsOne
            <3>2. g[s] = f[Chosen(s)] + g[s \ {Chosen(s)}]
                  BY <1>4, <2>2, <3>1 DEF PartSum
            <3> QED BY <3>1, <3>2, <2>2
      <2> QED BY <2>1, <2>2
<1>7. IsSum(h, f, S)
      BY <1>6 DEF IsSum
<1> QED BY <1>7

\* The sum of a part does not depend on the whole it is a part of.
LEMMA SumUnique ==
    ASSUME NEW S, IsFiniteSet(S), NEW f, NEW g, IsSum(g, f, S), NEW s \in SUBSET S, NEW h, IsSum(h, f, s)
    PROVE  \A t \in SUBSET s : h[t] = g[t]
<1> DEFINE N == {n \in Nat : \A t \in SUBSET s : Cardinality(t) = n => h[t] = g[t]}
<1>0. ASSUME NEW t \in SUBSET s
      PROVE  /\ IsFiniteSet(t) /\ Cardinality(t) \in Nat /\ t \in SUBSET S
             /\ t # {} => /\ Chosen(t) \in t /\ t \ {Chosen(t)} \in SUBSET s
                          /\ Cardinality(t \ {Chosen(t)}) = Cardinality(t) - 1
             /\ t = {} <=> Cardinality(t) = 0
      <2>1. t \subseteq S /\ (t # {} => Chosen(t) \in t)
            BY DEF Chosen
      <2> QED BY <2>1, Sizes
<1>1. 0 \in N
      BY <1>0 DEF IsSum
<1>2. ASSUME NEW n \in Nat, n \in N
      PROVE  n + 1 \in N
      <2>1. ASSUME NEW t \in SUBSET s, Cardinality(t) = n + 1
            PROVE  h[t] = g[t]
            <3>1. t # {} /\ t \ {Chosen(t)} \in SUBSET s /\ Cardinality(t \ {Chosen(t)}) = n
                  BY <2>1, <1>0
            <3>2. h[t \ {Chosen(t)}] = g[t \ {Chosen(t)}]
                  BY <3>1, <1>2
            <3>3. h[t] = f[Chosen(t)] + h[t \ {Chosen(t)}]
                  BY <3>1 DEF IsSum
            <3>4. g[t] = f[Chosen(t)] + g[t \ {Chosen(t)}]
                  BY <3>1, <1>0 DEF IsSum
            <3> QED BY <3>2, <3>3, <3>4
      <2> QED BY <2>1
<1> HIDE DEF N
<1>3. \A n \in Nat : n \in N
      BY <1>1, <1>2, Inductive
<1>4. ASSUME NEW t \in SUBSET s  PROVE h[t] = g[t]
      BY <1>0, <1>3 DEF N
<1> QED BY <1>4

\* What the fold of the library computes is that sum.
LEMMA SumIs ==
    ASSUME NEW S, IsFiniteSet(S), NEW f, NEW g, IsSum(g, f, S), NEW s \in SUBSET S
    PROVE  SumFunctionOnSet(f, s) = g[s]
<1> DEFINE iter == CHOOSE h : IsSum(h, f, s)
<1>1. SumFunctionOnSet(f, s) = iter[s]
      BY Zenon DEF SumFunctionOnSet, FoldFunctionOnSet, MapThenFoldSet, IsSum, Chosen
<1>2. IsSum(iter, f, s)
      BY SumExists, FS_Subset
<1> QED BY <1>1, <1>2, SumUnique

\* A sum is computed element by element, in whatever order.
LEMMA SumLaws ==
    ASSUME NEW S, IsFiniteSet(S), NEW f, \A x \in S : f[x] \in Int
    PROVE  /\ SumFunctionOnSet(f, {}) = 0
           /\ \A s \in SUBSET S : SumFunctionOnSet(f, s) \in Int
           /\ \A s \in SUBSET S : \A x \in S \ s :
                SumFunctionOnSet(f, s \union {x}) = f[x] + SumFunctionOnSet(f, s)
<1>1. PICK g : IsSum(g, f, S)
      BY SumExists
<1>2. \A s \in SUBSET S : SumFunctionOnSet(f, s) = g[s]
      BY <1>1, SumIs
<1>3. /\ g[{}] = 0
      /\ \A s \in SUBSET S : s # {} => /\ g[s] = f[Chosen(s)] + g[s \ {Chosen(s)}]
                                       /\ Chosen(s) \in s /\ s \ {Chosen(s)} \in SUBSET S
      BY <1>1 DEF IsSum, Chosen
<1>4. \A s \in SUBSET S : IsFiniteSet(s) /\ Cardinality(s) \in Nat
      BY Sizes
<1>5. \A s \in SUBSET S : \A x \in s : Cardinality(s \ {x}) = Cardinality(s) - 1
      BY Sizes
<1>6. \A s \in SUBSET S : s = {} <=> Cardinality(s) = 0
      BY Sizes
<1> DEFINE Q(s) == g[s] \in Int /\ \A x \in s : g[s] = f[x] + g[s \ {x}]
           N == {n \in Nat : \A s \in SUBSET S : Cardinality(s) = n => Q(s)}
<1> HIDE DEF Q
<1>7. 0 \in N
      <2>1. Q({})
            BY <1>3 DEF Q
      <2>2. \A s \in SUBSET S : Cardinality(s) = 0 => s = {}
            BY <1>6
      <2> QED BY <2>1, <2>2
<1>8. ASSUME NEW n \in Nat, \A m \in 0 .. n : m \in N
      PROVE  n + 1 \in N
      <2>1. ASSUME NEW s \in SUBSET S, Cardinality(s) = n + 1
            PROVE  Q(s)
            <3>0. s # {}
                  BY <2>1, <1>6
            <3>1. PICK c \in s : c = Chosen(s)
                  BY <3>0, <1>3
            <3>2. Cardinality(s \ {c}) = n /\ s \ {c} \in SUBSET S
                  BY <2>1, <3>1, <1>5
            <3>3. Q(s \ {c})
                  BY <3>2, <1>8
            <3>4. g[s] = f[c] + g[s \ {c}]
                  BY <1>3, <3>0, <3>1
            <3>5. g[s] \in Int
                  BY <3>3, <3>4, <3>1 DEF Q
            <3>6. ASSUME NEW x \in s, x # c
                  PROVE  g[s] = f[x] + g[s \ {x}]
                  <4>1. /\ Cardinality(s \ {x}) = n /\ s \ {x} \in SUBSET S /\ c \in s \ {x}
                        /\ x \in s \ {c} /\ (s \ {x}) \ {c} = (s \ {c}) \ {x}
                        BY <2>1, <3>1, <3>6, <1>5
                  <4>2. Q(s \ {x})
                        BY <4>1, <1>8
                  <4>3. g[s \ {x}] = f[c] + g[(s \ {x}) \ {c}]
                        BY <4>1, <4>2 DEF Q
                  <4>4. g[s \ {c}] = f[x] + g[(s \ {c}) \ {x}]
                        BY <4>1, <3>3 DEF Q
                  <4>5. g[(s \ {c}) \ {x}] \in Int
                        <5>1. (s \ {c}) \ {x} \in SUBSET S /\ Cardinality((s \ {c}) \ {x}) = n - 1
                              BY <3>2, <4>1, <1>5
                        <5>2. n - 1 \in 0 .. n
                              BY <5>1, <1>4
                        <5>3. Q((s \ {c}) \ {x})
                              BY <5>1, <5>2, <1>8
                        <5> QED BY <5>3 DEF Q
                  <4>6. f[c] \in Int /\ f[x] \in Int
                        BY <3>1, <3>6
                  <4>7. PICK w \in Int : w = g[(s \ {c}) \ {x}] /\ w = g[(s \ {x}) \ {c}]
                        BY <4>1, <4>5
                  <4>8. g[s \ {x}] = f[c] + w /\ g[s \ {c}] = f[x] + w
                        BY <4>3, <4>4, <4>7
                  <4>9. g[s] = f[c] + (f[x] + w)
                        BY <3>4, <4>8, <3>1
                  <4> HIDE DEF N
                  <4>10. f[c] + (f[x] + w) = f[x] + (f[c] + w)
                        BY <4>6
                  <4> QED BY <4>8, <4>9, <4>10
            <3> QED BY <3>1, <3>4, <3>5, <3>6 DEF Q
      <2> QED BY <2>1
<1> DEFINE M == {n \in Nat : \A m \in 0 .. n : m \in N}
<1> HIDE DEF N
<1>9. 0 \in M /\ \A n \in Nat : n \in M => n + 1 \in M
      BY <1>7, <1>8
<1> HIDE DEF M
<1>10. \A n \in Nat : n \in M
      BY <1>9, Inductive
<1>11. \A n \in Nat : n \in N
      BY <1>10 DEF M
<1>12. \A s \in SUBSET S : Q(s)
      BY <1>4, <1>11 DEF N
<1>13. ASSUME NEW s \in SUBSET S, NEW x \in S \ s
       PROVE  g[s \union {x}] = f[x] + g[s]
      <2>1. s \union {x} \in SUBSET S /\ x \in s \union {x} /\ (s \union {x}) \ {x} = s
            OBVIOUS
      <2> QED BY <2>1, <1>12 DEF Q
<1>14. \A s \in SUBSET S : \A x \in S \ s : s \union {x} \in SUBSET S
      OBVIOUS
<1>15. \A s \in SUBSET S : g[s] \in Int
       BY <1>12 DEF Q
<1> QED BY <1>2, <1>3, <1>15, <1>13, <1>14

\* A function that is one to one keeps the size of a finite set.
LEMMA ImageSize ==
    ASSUME NEW S, IsFiniteSet(S), NEW f, \A x, y \in S : f[x] = f[y] => x = y
    PROVE  LET T == {f[x] : x \in S} IN IsFiniteSet(T) /\ Cardinality(T) = Cardinality(S)
<1> DEFINE T == {f[x] : x \in S}
           g == [x \in S |-> f[x]]
<1>1. g \in [S -> T] /\ \A x \in S : g[x] = f[x]
      OBVIOUS
<1>2. \A t \in T : \E x \in S : g[x] = t
      OBVIOUS
<1> HIDE DEF g, T
<1>3. g \in Bijection(S, T)
      BY <1>1, <1>2 DEF Bijection, Injection, Surjection, IsInjective
<1>4. ExistsBijection(S, T)
      BY <1>3 DEF ExistsBijection
<1>5. IsFiniteSet(T) /\ Cardinality(T) = Cardinality(S)
      BY <1>4, FS_Bijection
<1> QED BY <1>5 DEF T

\* A non-empty finite set of numbers has a least and a greatest.
LEMMA MinMax ==
    ASSUME NEW S, IsFiniteSet(S), S \subseteq Int, S # {}
    PROVE  /\ Max(S) \in S /\ \A i \in S : i <= Max(S)
           /\ Min(S) \in S /\ \A i \in S : Min(S) <= i
<1> DEFINE T == {s \in SUBSET S : s # {} => /\ \E m \in s : \A i \in s : i <= m
                                            /\ \E m \in s : \A i \in s : m <= i}
<1>1. {} \in T
      OBVIOUS
<1>2. ASSUME NEW s \in SUBSET S, NEW x \in S \ s, s \in T
      PROVE  s \union {x} \in T
      <2>1. CASE s = {}
            <3>1. x \in Int /\ s \union {x} = {x}
                  BY <2>1
            <3>2. x <= x
                  BY <3>1
            <3> QED BY <3>1, <3>2
      <2>2. CASE s # {}
            <3>1. PICK m \in s : \A i \in s : i <= m
                  BY <1>2, <2>2
            <3>2. PICK l \in s : \A i \in s : l <= i
                  BY <1>2, <2>2
            <3>3. x \in Int /\ s \subseteq Int /\ m \in Int /\ l \in Int
                  OBVIOUS
            <3>4. \E k \in s \union {x} : \A i \in s \union {x} : i <= k
                  <4>1. CASE x <= m  BY <4>1, <3>1, <3>3
                  <4>2. CASE m <= x  BY <4>2, <3>1, <3>3
                  <4> QED BY <4>1, <4>2, <3>3
            <3>5. \E k \in s \union {x} : \A i \in s \union {x} : k <= i
                  <4>1. CASE x <= l  BY <4>1, <3>2, <3>3
                  <4>2. CASE l <= x  BY <4>2, <3>2, <3>3
                  <4> QED BY <4>1, <4>2, <3>3
            <3> QED BY <3>4, <3>5
      <2> QED BY <2>1, <2>2
<1>3. S \in T
      <2> HIDE DEF T
      <2> QED BY <1>1, <1>2, FiniteInductive
<1>4. PICK m \in S : \A i \in S : i <= m
      BY <1>3
<1>5. PICK l \in S : \A i \in S : l <= i
      BY <1>3
<1>6. Max(S) \in S /\ \A i \in S : Max(S) >= i
      <2>1. m \in S /\ \A i \in S : m >= i
            BY <1>4
      <2> QED BY <2>1 DEF Max
<1>7. Min(S) \in S /\ \A i \in S : Min(S) <= i
      BY <1>5 DEF Min
<1>8. \A i \in S : i <= Max(S)
      <2> SUFFICES ASSUME NEW i \in S  PROVE i <= Max(S)
          OBVIOUS
      <2>1. i \in Int /\ Max(S) \in Int /\ Max(S) >= i
            BY <1>6
      <2> QED BY <2>1
<1> QED BY <1>6, <1>7, <1>8

\* The numbers of a set below one.
Below(S, i) == {j \in S : j < i}

\* How many are below an element says which one it is.
LEMMA BelowLaws ==
    ASSUME NEW S, IsFiniteSet(S), S \subseteq Int
    PROVE  /\ \A i \in S : Cardinality(Below(S, i)) \in 0 .. Cardinality(S) - 1
           /\ \A i, j \in S : i < j => Cardinality(Below(S, i)) < Cardinality(Below(S, j))
           /\ \A k \in 1 .. Cardinality(S) : \E i \in S : Cardinality(Below(S, i)) = k - 1
<1>1. ASSUME NEW i \in S
      PROVE  /\ Below(S, i) \subseteq S /\ i \notin Below(S, i)
             /\ Cardinality(Below(S, i)) \in 0 .. Cardinality(S) - 1
      <2>1. Below(S, i) \subseteq S \ {i} /\ i \notin Below(S, i) /\ i \in Int
            BY DEF Below
      <2>2. /\ IsFiniteSet(Below(S, i)) /\ Cardinality(Below(S, i)) \in Nat
            /\ Cardinality(Below(S, i) \union {i}) = Cardinality(Below(S, i)) + 1
            /\ Cardinality(Below(S, i) \union {i}) <= Cardinality(S)
            /\ Cardinality(S) \in Nat
            <3>1. Below(S, i) \union {i} \subseteq S /\ Below(S, i) \subseteq S
                  BY <2>1
            <3> QED BY <2>1, <3>1, Sizes
      <2> QED BY <2>1, <2>2
<1>2. ASSUME NEW i \in S, NEW j \in S, i < j
      PROVE  Cardinality(Below(S, i)) < Cardinality(Below(S, j))
      <2>1. Below(S, i) \union {i} \subseteq Below(S, j) /\ i \notin Below(S, i)
            <3>1. ASSUME NEW x \in S, x < i  PROVE x < j
                  <4>1. x \in Int /\ i \in Int /\ j \in Int
                        OBVIOUS
                  <4> QED BY <3>1, <1>2, <4>1
            <3> QED BY <1>1, <1>2, <3>1 DEF Below
      <2>2. Below(S, j) \subseteq S /\ Below(S, i) \subseteq S
            BY <1>1
      <2>3. /\ Cardinality(Below(S, i) \union {i}) = Cardinality(Below(S, i)) + 1
            /\ Cardinality(Below(S, i)) \in Nat
            BY <2>1, <2>2, Sizes
      <2>4. IsFiniteSet(Below(S, j)) /\ Cardinality(Below(S, j)) \in Nat
            BY <2>2, Sizes
      <2>5. Cardinality(Below(S, i) \union {i}) <= Cardinality(Below(S, j))
            BY <2>1, <2>4, Sizes
      <2> QED BY <2>3, <2>4, <2>5
<1> DEFINE n == Cardinality(S)
           rank == [i \in S |-> Cardinality(Below(S, i))]
           R == {rank[i] : i \in S}
<1>3. \A i \in S : rank[i] = Cardinality(Below(S, i)) /\ rank[i] \in 0 .. n - 1
      BY <1>1
<1>4. \A i, j \in S : rank[i] = rank[j] => i = j
      <2> SUFFICES ASSUME NEW i \in S, NEW j \in S, rank[i] = rank[j], i # j  PROVE FALSE
          OBVIOUS
      <2>1. i \in Int /\ j \in Int /\ rank[i] \in Int
            BY <1>3
      <2>2. CASE i < j  BY <2>1, <2>2, <1>2, <1>3
      <2>3. CASE j < i  BY <2>1, <2>3, <1>2, <1>3
      <2> QED BY <2>1, <2>2, <2>3
<1>5. n \in Nat
      BY FS_CardinalityType
<1> HIDE DEF rank
<1>6. IsFiniteSet(R) /\ Cardinality(R) = n
      BY <1>4, ImageSize
<1>7. R \subseteq 0 .. n - 1
      BY <1>3
<1>8. IsFiniteSet(0 .. n - 1) /\ Cardinality(0 .. n - 1) = n
      <2>1. n - 1 \in Int /\ 0 \in Int
            BY <1>5
      <2>2. IsFiniteSet(0 .. n - 1) /\ Cardinality(0 .. n - 1) = IF 0 > n - 1 THEN 0 ELSE n - 1 - 0 + 1
            BY <2>1, FS_Interval
      <2> QED BY <2>2, <1>5
<1>9. R = 0 .. n - 1
      BY <1>6, <1>7, <1>8, FS_Subset
<1>10. ASSUME NEW k \in 1 .. n
       PROVE  \E i \in S : Cardinality(Below(S, i)) = k - 1
       <2>1. k - 1 \in R
             BY <1>9, <1>5
       <2> QED BY <2>1, <1>3
<1> QED BY <1>1, <1>2, <1>10

\* The ascending list of a set holds each of its numbers once, at the place its rank says.
LEMMA AscendingLaws ==
    ASSUME NEW S, IsFiniteSet(S), S \subseteq Int
    PROVE  /\ DOMAIN Ascending(S) = 1 .. Cardinality(S) /\ Cardinality(S) \in Nat
           /\ Ascending(S) \in Seq(S) /\ Len(Ascending(S)) = Cardinality(S)
           /\ \A k \in 1 .. Cardinality(S) : /\ Ascending(S)[k] \in S
                                             /\ Cardinality(Below(S, Ascending(S)[k])) = k - 1
           /\ \A k, m \in 1 .. Cardinality(S) : Ascending(S)[k] = Ascending(S)[m] => k = m
           /\ \A i \in S : \E k \in 1 .. Cardinality(S) : Ascending(S)[k] = i
<1> DEFINE n == Cardinality(S)
           a == Ascending(S)
<1>1. n \in Nat
      BY FS_CardinalityType
<1>2. DOMAIN a = 1 .. n /\ \A k \in 1 .. n : a[k] = CHOOSE i \in S : Cardinality(Below(S, i)) = k - 1
      BY DEF Ascending, Below
<1>3. \A k \in 1 .. n : \E i \in S : Cardinality(Below(S, i)) = k - 1
      BY BelowLaws
<1> HIDE DEF a
<1>4. \A k \in 1 .. n : a[k] \in S /\ Cardinality(Below(S, a[k])) = k - 1
      <2> SUFFICES ASSUME NEW k \in 1 .. n  PROVE a[k] \in S /\ Cardinality(Below(S, a[k])) = k - 1
          OBVIOUS
      <2> QED BY <1>2, <1>3
<1>5. \A k, m \in 1 .. n : a[k] = a[m] => k = m
      <2> SUFFICES ASSUME NEW k \in 1 .. n, NEW m \in 1 .. n, a[k] = a[m]  PROVE k = m
          OBVIOUS
      <2>1. k - 1 = m - 1
            BY <1>4
      <2> QED BY <2>1
<1>6. ASSUME NEW i \in S
      PROVE  \E k \in 1 .. n : a[k] = i
      <2>0. PICK c \in 0 .. n - 1 : c = Cardinality(Below(S, i))
            BY BelowLaws
      <2> DEFINE k == c + 1
      <2>1. k \in 1 .. n /\ k - 1 = Cardinality(Below(S, i)) /\ Cardinality(Below(S, i)) \in Int
            BY <2>0, <1>1
      <2>2. a[k] \in S /\ Cardinality(Below(S, a[k])) = k - 1
            BY <1>4, <2>1
      <2> HIDE DEF k
      <2>3. a[k] \in Int /\ i \in Int
            BY <2>2
      <2>4. ~(a[k] < i) /\ ~(i < a[k])
            <3>1. Cardinality(Below(S, a[k])) = Cardinality(Below(S, i)) /\ Cardinality(Below(S, i)) \in Int
                  BY <2>1, <2>2
            <3>2. CASE a[k] < i
                  <4>1. Cardinality(Below(S, a[k])) < Cardinality(Below(S, i))
                        BY <3>2, <2>2, BelowLaws
                  <4> QED BY <4>1, <3>1
            <3>3. CASE i < a[k]
                  <4>1. Cardinality(Below(S, i)) < Cardinality(Below(S, a[k]))
                        BY <3>3, <2>2, BelowLaws
                  <4> QED BY <4>1, <3>1
            <3> QED BY <3>2, <3>3
      <2> QED BY <2>1, <2>3, <2>4
<1>7. a \in Seq(S) /\ Len(a) = n
      <2>1. a \in [1 .. n -> S]
            <3>1. a = [k \in 1 .. n |-> CHOOSE i \in S : Cardinality({j \in S : j < i}) = k - 1]
                  BY DEF Ascending, a
            <3>2. \A k \in 1 .. n : (CHOOSE i \in S : Cardinality({j \in S : j < i}) = k - 1) \in S
                  BY <3>1, <1>4
            <3> QED BY <3>1, <3>2
      <2> QED BY <2>1, <1>1
<1> QED BY <1>1, <1>2, <1>4, <1>5, <1>6, <1>7 DEF a


\* The parts of a set, by a value of their elements, add up to the whole.
PartSizes(g, C, of, T) ==
    /\ \A x \in T : of[x] \in C
    /\ \A c \in C : g[c] = Cardinality({x \in T : of[x] = c})

\* The sizes of the parts into which a set falls add up to its size.
LEMMA SumOfParts ==
    ASSUME NEW T, IsFiniteSet(T), NEW C, IsFiniteSet(C), NEW of, NEW g, PartSizes(g, C, of, T)
    PROVE  SumFunctionOnSet(g, C) = Cardinality(T)
<1> DEFINE Part(c) == {x \in T : of[x] = c}
           Parts(D) == {x \in T : of[x] \in D}
           N == {D \in SUBSET C : SumFunctionOnSet(g, D) = Cardinality(Parts(D))}
<1>0. (\A x \in T : of[x] \in C) /\ \A c \in C : g[c] = Cardinality(Part(c))
      BY DEF PartSizes
<1>1. \A c \in C : g[c] \in Int
      <2> SUFFICES ASSUME NEW c \in C  PROVE g[c] \in Int
          OBVIOUS
      <2>1. Part(c) \subseteq T
            OBVIOUS
      <2>2. Cardinality(Part(c)) \in Nat
            BY <2>1, Sizes
      <2> QED BY <2>2, <1>0
<1>2. /\ SumFunctionOnSet(g, {}) = 0
      /\ \A D \in SUBSET C : \A c \in C \ D :
            SumFunctionOnSet(g, D \union {c}) = g[c] + SumFunctionOnSet(g, D)
      BY <1>1, SumLaws
<1>3. {} \in N
      <2>1. Parts({}) = {}
            OBVIOUS
      <2>2. Cardinality(Parts({})) = 0
            BY <2>1, FS_EmptySet
      <2> QED BY <2>2, <1>2
<1>4. ASSUME NEW D \in SUBSET C, NEW c \in C \ D, D \in N
      PROVE  D \union {c} \in N
      <2>1. /\ Parts(D \union {c}) = Parts(D) \union Part(c)
            /\ Parts(D) \intersect Part(c) = {}
            /\ Parts(D) \subseteq T /\ Part(c) \subseteq T
            OBVIOUS
      <2> HIDE DEF Parts, Part
      <2>2. /\ IsFiniteSet(Parts(D)) /\ Cardinality(Parts(D)) \in Nat
            /\ IsFiniteSet(Part(c)) /\ Cardinality(Part(c)) \in Nat
            BY <2>1, Sizes
      <2>3. Cardinality(Parts(D) \intersect Part(c)) = 0
            BY <2>1, FS_EmptySet
      <2>4. Cardinality(Parts(D \union {c})) = Cardinality(Parts(D)) + Cardinality(Part(c))
            <3>1. Cardinality(Parts(D) \union Part(c))
                    = Cardinality(Parts(D)) + Cardinality(Part(c)) - Cardinality(Parts(D) \intersect Part(c))
                  BY <2>2, FS_Union
            <3>2. PICK a \in Nat, b \in Nat : a = Cardinality(Parts(D)) /\ b = Cardinality(Part(c))
                  BY <2>2
            <3>3. Cardinality(Parts(D) \union Part(c)) = a + b
                  BY <3>1, <3>2, <2>3
            <3> QED BY <3>2, <3>3, <2>1
      <2>5. g[c] = Cardinality(Part(c))
            BY <1>0
      <2>6. SumFunctionOnSet(g, D \union {c}) = g[c] + SumFunctionOnSet(g, D)
            BY <1>2
      <2>7. SumFunctionOnSet(g, D) = Cardinality(Parts(D))
            BY <1>4
      <2>8. SumFunctionOnSet(g, D \union {c}) = Cardinality(Parts(D \union {c}))
            BY <2>2, <2>4, <2>5, <2>6, <2>7
      <2> QED BY <2>8
<1>5. C \in N
      <2> HIDE DEF N
      <2> QED BY <1>3, <1>4, FiniteInductive
<1>6. Parts(C) = T
      BY <1>0
<1> QED BY <1>5, <1>6

\* Counting one up for every element of one set and down for every one of another.
LEMMA SumOfDifferences ==
    ASSUME NEW S, IsFiniteSet(S), NEW A \in SUBSET S, NEW B \in SUBSET S,
           NEW g, \A x \in S : g[x] = (IF x \in A THEN 1 ELSE 0) - (IF x \in B THEN 1 ELSE 0)
    PROVE  SumFunctionOnSet(g, S) = Cardinality(A) - Cardinality(B)
<1> DEFINE N == {D \in SUBSET S :
                   SumFunctionOnSet(g, D) = Cardinality(A \intersect D) - Cardinality(B \intersect D)}
<1>1. /\ SumFunctionOnSet(g, {}) = 0
      /\ \A D \in SUBSET S : \A x \in S \ D :
            SumFunctionOnSet(g, D \union {x}) = g[x] + SumFunctionOnSet(g, D)
      <2>1. \A x \in S : g[x] \in Int
            OBVIOUS
      <2> QED BY <2>1, SumLaws
<1>2. {} \in N
      <2>1. A \intersect {} = {} /\ B \intersect {} = {} /\ Cardinality({}) = 0
            BY FS_EmptySet
      <2> QED BY <2>1, <1>1
<1>3. ASSUME NEW X \in SUBSET S, NEW D \in SUBSET S, NEW x \in S \ D
      PROVE  /\ Cardinality(X \intersect D) \in Nat
             /\ Cardinality(X \intersect (D \union {x})) = Cardinality(X \intersect D) + (IF x \in X THEN 1 ELSE 0)
      <2>1. X \intersect D \subseteq S /\ x \notin X \intersect D
            OBVIOUS
      <2>2. /\ Cardinality(X \intersect D) \in Nat
            /\ Cardinality((X \intersect D) \union {x}) = Cardinality(X \intersect D) + 1
            BY <2>1, Sizes
      <2>3. CASE x \in X
            <3>1. X \intersect (D \union {x}) = (X \intersect D) \union {x}
                  BY <2>3
            <3> QED BY <3>1, <2>2, <2>3
      <2>4. CASE x \notin X
            <3>1. X \intersect (D \union {x}) = X \intersect D
                  BY <2>4
            <3>2. PICK n \in Nat : n = Cardinality(X \intersect D)
                  BY <2>2
            <3>3. Cardinality(X \intersect (D \union {x})) = n
                  BY <3>1, <3>2, Zenon
            <3>4. (IF x \in X THEN 1 ELSE 0) = 0 /\ n = n + 0
                  BY <2>4
            <3> QED BY <3>2, <3>3, <3>4, Zenon
      <2> QED BY <2>3, <2>4
<1>4. ASSUME NEW D \in SUBSET S, NEW x \in S \ D, D \in N
      PROVE  D \union {x} \in N
      <2>1. SumFunctionOnSet(g, D \union {x}) = g[x] + SumFunctionOnSet(g, D)
            BY <1>1
      <2>2. SumFunctionOnSet(g, D) = Cardinality(A \intersect D) - Cardinality(B \intersect D)
            BY <1>4
      <2>3. PICK a \in Nat, b \in Nat : a = Cardinality(A \intersect D) /\ b = Cardinality(B \intersect D)
            BY <1>3
      <2>4. /\ Cardinality(A \intersect (D \union {x})) = a + (IF x \in A THEN 1 ELSE 0)
            /\ Cardinality(B \intersect (D \union {x})) = b + (IF x \in B THEN 1 ELSE 0)
            BY <1>3, <2>3
      <2>5. g[x] = (IF x \in A THEN 1 ELSE 0) - (IF x \in B THEN 1 ELSE 0)
            OBVIOUS
      <2>6. SumFunctionOnSet(g, D \union {x})
              = Cardinality(A \intersect (D \union {x})) - Cardinality(B \intersect (D \union {x}))
            BY <2>1, <2>2, <2>3, <2>4, <2>5
      <2> QED BY <2>6
<1>5. S \in N
      <2> HIDE DEF N
      <2> QED BY <1>2, <1>4, FiniteInductive
<1>6. A \intersect S = A /\ B \intersect S = B
      OBVIOUS
<1> QED BY <1>5, <1>6

\* A sum lies between as many times the least and as many times the greatest.
LEMMA SumBounds ==
    ASSUME NEW S, IsFiniteSet(S), NEW g, NEW l \in Int, NEW h \in Int,
           \A x \in S : g[x] \in Int /\ l <= g[x] /\ g[x] <= h
    PROVE  SumFunctionOnSet(g, S) \in l * Cardinality(S) .. h * Cardinality(S)
<1> DEFINE N == {D \in SUBSET S : SumFunctionOnSet(g, D) \in l * Cardinality(D) .. h * Cardinality(D)}
<1>1. /\ SumFunctionOnSet(g, {}) = 0
      /\ \A D \in SUBSET S : SumFunctionOnSet(g, D) \in Int
      /\ \A D \in SUBSET S : \A x \in S \ D :
            SumFunctionOnSet(g, D \union {x}) = g[x] + SumFunctionOnSet(g, D)
      BY SumLaws
<1>2. {} \in N
      <2>1. Cardinality({}) = 0
            BY FS_EmptySet
      <2> QED BY <2>1, <1>1
<1>3. ASSUME NEW D \in SUBSET S, NEW x \in S \ D, D \in N
      PROVE  D \union {x} \in N
      <2>1. PICK n \in Nat : n = Cardinality(D) /\ Cardinality(D \union {x}) = n + 1
            BY Sizes
      <2>2. PICK t \in Int : t = SumFunctionOnSet(g, D)
            BY <1>1
      <2>3. l * n <= t /\ t <= h * n
            BY <1>3, <2>1, <2>2
      <2>4. PICK v \in Int : v = g[x] /\ l <= v /\ v <= h
            OBVIOUS
      <2>5. SumFunctionOnSet(g, D \union {x}) = v + t
            BY <1>1, <2>2, <2>4
      <2>6. l * (n + 1) = l * n + l /\ h * (n + 1) = h * n + h /\ l * n \in Int /\ h * n \in Int
            OBVIOUS
      <2>7. v + t \in l * (n + 1) .. h * (n + 1)
            BY <2>3, <2>4, <2>6
      <2>8. SumFunctionOnSet(g, D \union {x}) \in l * Cardinality(D \union {x}) .. h * Cardinality(D \union {x})
            BY <2>1, <2>5, <2>7
      <2> QED BY <2>8
<1>4. S \in N
      <2> HIDE DEF N
      <2> QED BY <1>2, <1>3, FiniteInductive
<1> QED BY <1>4

\* The lengths of the sequences that are put end to end add up.
LEMMA FlatLength ==
    ASSUME NEW T, NEW s \in Seq(Seq(T)), NEW g, \A k \in DOMAIN s : g[k] = Len(s[k])
    PROVE  FlattenSeq(s) \in Seq(T) /\ Len(FlattenSeq(s)) = SumFunctionOnSet(g, DOMAIN s)
<1> DEFINE n == Len(s)
           P == 1 .. n
           Next(f, i) == IF i = 1 THEN s[i] ELSE f[i - 1] \o s[i]
           IsFlat(f) == f = [i \in P |-> Next(f, i)]
           flat == CHOOSE f : IsFlat(f)
<1>1. n \in Nat /\ DOMAIN s = P /\ \A k \in P : s[k] \in Seq(T) /\ g[k] = Len(s[k]) /\ g[k] \in Nat
      OBVIOUS
<1>2. IsFiniteSet(P)
      BY <1>1, FS_Interval
<1>3. /\ SumFunctionOnSet(g, {}) = 0
      /\ \A D \in SUBSET P : \A x \in P \ D :
            SumFunctionOnSet(g, D \union {x}) = g[x] + SumFunctionOnSet(g, D)
      <2>1. \A k \in P : g[k] \in Int
            BY <1>1
      <2> HIDE DEF P
      <2> QED BY <1>2, <2>1, SumLaws
<1>4. CASE n = 0
      <2>1. P = {} /\ s = <<>>
            BY <1>1, <1>4
      <2>2. FlattenSeq(s) = s
            BY <1>4, Zenon DEF FlattenSeq
      <2>3. s \in Seq(T) /\ Len(s) = 0
            BY <2>1
      <2>4. SumFunctionOnSet(g, DOMAIN s) = 0
            BY <2>1, <1>1, <1>3
      <2> QED BY <2>2, <2>3, <2>4
<1>5. CASE n # 0
      <2>1. FlattenSeq(s) = flat[n]
            BY <1>5, Zenon DEF FlattenSeq
      <2> DEFINE Upto(f, m) == f = [i \in 1 .. m |-> f[i]] /\ \A i \in 1 .. m : f[i] = Next(f, i)
                 Reached == {m \in Nat : \E f : Upto(f, m)}
      <2>2. 0 \in Reached
            <3> DEFINE e == [i \in 1 .. 0 |-> 0]
            <3>1. Upto(e, 0)
                  OBVIOUS
            <3> QED BY <3>1
      <2>3. ASSUME NEW m \in Nat, m \in Reached  PROVE m + 1 \in Reached
            <3>1. PICK f : Upto(f, m)
                  BY <2>3
            <3> DEFINE h == [i \in 1 .. m + 1 |-> IF i <= m THEN f[i] ELSE Next(f, i)]
            <3>2. \A i \in 1 .. m + 1 : h[i] = Next(h, i)
                  <4> SUFFICES ASSUME NEW i \in 1 .. m + 1  PROVE h[i] = Next(h, i)
                      OBVIOUS
                  <4>1. Next(h, i) = Next(f, i)
                        <5>1. CASE i = 1
                              BY <5>1
                        <5>2. CASE i # 1
                              <6>1. i - 1 \in 1 .. m /\ i - 1 \in 1 .. m + 1 /\ i - 1 <= m
                                    BY <5>2
                              <6>2. h[i - 1] = f[i - 1]
                                    BY <6>1
                              <6> HIDE DEF h
                              <6> QED BY <6>2, <5>2, Zenon
                        <5> QED BY <5>1, <5>2
                  <4>2. CASE i <= m
                        <5>1. i \in 1 .. m
                              BY <4>2
                        <5>2. f[i] = Next(f, i)
                              BY <5>1, <3>1
                        <5>3. h[i] = f[i]
                              BY <4>2
                        <5> QED BY <4>1, <5>2, <5>3
                  <4>3. CASE ~(i <= m)
                        <5>1. h[i] = Next(f, i)
                              BY <4>3
                        <5> QED BY <4>1, <5>1
                  <4> QED BY <4>2, <4>3
            <3>3. h = [i \in 1 .. m + 1 |-> h[i]]
                  OBVIOUS
            <3> HIDE DEF h, Next
            <3>4. Upto(h, m + 1)
                  BY <3>2, <3>3
            <3> QED BY <3>4
      <2>4. n \in Reached
            <3> HIDE DEF Reached
            <3> QED BY <2>2, <2>3, <1>1, Inductive
      <2>5. PICK w : Upto(w, n)
            BY <2>4
      <2>6. IsFlat(w)
            <3> HIDE DEF Next
            <3> QED BY <2>5
      <2>7. IsFlat(flat)
            <3> HIDE DEF IsFlat
            <3> QED BY <2>6
      <2>8. \A i \in P : flat[i] = Next(flat, i)
            <3> HIDE DEF flat, Next
            <3> QED BY <2>7
      <2> HIDE DEF flat
      <2> DEFINE M == {m \in Nat : m + 1 \in 1 .. n =>
                          flat[m + 1] \in Seq(T) /\ Len(flat[m + 1]) = SumFunctionOnSet(g, 1 .. m + 1)}
      <2>9. 0 \in M
            <3>1. 1 .. 1 = {} \union {1} /\ 1 \in (1 .. n) \ {} /\ {} \in SUBSET (1 .. n)
                  BY <1>1, <1>5
            <3>2. SumFunctionOnSet(g, {} \union {1}) = g[1] + SumFunctionOnSet(g, {})
                  BY <3>1, <1>3
            <3>3. flat[1] = s[1] /\ g[1] \in Nat
                  BY <3>1, <2>8, <1>1
            <3>4. SumFunctionOnSet(g, 1 .. 1) = g[1]
                  BY <3>1, <3>2, <3>3, <1>3
            <3> QED BY <3>1, <3>3, <3>4, <1>1
      <2>10. ASSUME NEW m \in Nat, m \in M  PROVE m + 1 \in M
            <3>1. SUFFICES ASSUME m + 2 \in 1 .. n
                           PROVE  /\ flat[m + 2] \in Seq(T)
                                  /\ Len(flat[m + 2]) = SumFunctionOnSet(g, 1 .. m + 2)
                  <4>1. m + 1 + 1 = m + 2
                        OBVIOUS
                  <4> QED BY <4>1
            <3>2. m + 1 \in 1 .. n /\ m + 2 # 1 /\ m + 2 - 1 = m + 1
                  BY <3>1, <1>1
            <3>3. flat[m + 1] \in Seq(T) /\ Len(flat[m + 1]) = SumFunctionOnSet(g, 1 .. m + 1)
                  BY <2>10, <3>2
            <3>4. flat[m + 2] = flat[m + 1] \o s[m + 2]
                  <4>1. PICK i \in P : i = m + 2 /\ i # 1 /\ i - 1 = m + 1
                        BY <3>1
                  <4> HIDE DEF flat, P
                  <4>2. flat[i] = flat[i - 1] \o s[i]
                        BY <2>8, <4>1
                  <4> QED BY <4>1, <4>2
            <3>5. /\ 1 .. m + 2 = (1 .. m + 1) \union {m + 2}
                  /\ 1 .. m + 1 \in SUBSET (1 .. n) /\ m + 2 \in (1 .. n) \ (1 .. m + 1)
                  BY <3>1, <1>1
            <3>6. SumFunctionOnSet(g, 1 .. m + 2) = g[m + 2] + SumFunctionOnSet(g, 1 .. m + 1)
                  BY <3>5, <1>3
            <3>7. s[m + 2] \in Seq(T) /\ g[m + 2] = Len(s[m + 2])
                  BY <3>1, <1>1
            <3>8. PICK u \in Seq(T), v \in Seq(T) : u = flat[m + 1] /\ v = s[m + 2]
                  BY <3>3, <3>7
            <3>9. u \o v \in Seq(T) /\ Len(u \o v) = Len(u) + Len(v) /\ Len(u) \in Nat /\ Len(v) \in Nat
                  OBVIOUS
            <3> QED BY <3>3, <3>4, <3>6, <3>7, <3>8, <3>9
      <2>11. n - 1 \in M
            <3> HIDE DEF M
            <3>1. n - 1 \in Nat
                  BY <1>1, <1>5
            <3> QED BY <3>1, <2>9, <2>10, Inductive
      <2>12. n - 1 + 1 = n /\ n \in 1 .. n
             BY <1>1, <1>5
      <2> QED BY <2>1, <2>11, <2>12, <1>1
<1> QED BY <1>4, <1>5

\* f matches the elements of S with those of T.
Matches(f, S, T) ==
    /\ \A x \in S : f[x] \in T
    /\ \A x, y \in S : f[x] = f[y] => x = y
    /\ \A t \in T : \E x \in S : f[x] = t

\* Two sets that match element by element are of one size.
LEMMA SameSize ==
    ASSUME NEW S, IsFiniteSet(S), NEW f, NEW T, Matches(f, S, T)
    PROVE  IsFiniteSet(T) /\ Cardinality(S) = Cardinality(T)
<1>1. T = {f[x] : x \in S} /\ \A x, y \in S : f[x] = f[y] => x = y
      BY DEF Matches
<1> QED BY <1>1, ImageSize

\* The places of a list.
LEMMA Places ==
    ASSUME NEW T, NEW s \in Seq(T)
    PROVE  /\ Len(s) \in Nat /\ DOMAIN s = 1 .. Len(s) /\ IsFiniteSet(DOMAIN s)
           /\ Cardinality(DOMAIN s) = Len(s) /\ DOMAIN s \subseteq Int
           /\ \A k \in DOMAIN s : s[k] \in T /\ s[k] \in Range(s)
<1>1. Len(s) \in Nat /\ DOMAIN s = 1 .. Len(s)
      OBVIOUS
<1>2. /\ IsFiniteSet(1 .. Len(s))
      /\ Cardinality(1 .. Len(s)) = IF 1 > Len(s) THEN 0 ELSE Len(s) - 1 + 1
      BY <1>1, FS_Interval
<1>3. Cardinality(1 .. Len(s)) = Len(s)
      BY <1>1, <1>2
<1>4. \A k \in DOMAIN s : s[k] \in T /\ s[k] \in Range(s)
      BY DEF Range
<1> QED BY <1>1, <1>2, <1>3, <1>4

\* What is picked, place by place.
LEMMA PickedPlaces ==
    ASSUME NEW K, IsFiniteSet(K), K \in SUBSET Int, NEW s
    PROVE  /\ Len(Picked(s, K)) = Cardinality(K) /\ DOMAIN Picked(s, K) = 1 .. Cardinality(K)
           /\ Cardinality(K) \in Nat
           /\ \A n \in 1 .. Cardinality(K) : Picked(s, K)[n] = s[Ascending(K)[n]] /\ Ascending(K)[n] \in K
<1>1. Cardinality(K) \in Nat /\ \A k \in 1 .. Cardinality(K) : Ascending(K)[k] \in K
      BY AscendingLaws
<1> DEFINE c == Cardinality(K)
           a == Ascending(K)
<1>2. Picked(s, K) = [n \in 1 .. c |-> s[a[n]]]
      BY DEF Picked
<1> HIDE DEF a, c
<1>3. DOMAIN Picked(s, K) = 1 .. c /\ \A n \in 1 .. c : Picked(s, K)[n] = s[a[n]]
      BY <1>2
<1>4. Len(Picked(s, K)) = c
      BY <1>1, <1>2 DEF c
<1> QED BY <1>1, <1>3, <1>4 DEF a, c

\* What is picked is a list of what stood there.
LEMMA PickedType ==
    ASSUME NEW K, IsFiniteSet(K), K \in SUBSET Int, NEW T, NEW s, \A k \in K : s[k] \in T
    PROVE  Picked(s, K) \in Seq(T)
<1> DEFINE c == Cardinality(K)
           a == Ascending(K)
<1>1. Picked(s, K) = [n \in 1 .. c |-> s[a[n]]]
      BY DEF Picked
<1>2. c \in Nat /\ \A n \in 1 .. c : s[a[n]] \in T
      BY AscendingLaws
<1> HIDE DEF a, c
<1>3. Picked(s, K) \in [1 .. c -> T]
      BY <1>1, <1>2
<1> QED BY <1>2, <1>3

\* x stands in s at one of the places K.
At(s, K, x) == \E k \in K : s[k] = x

\* What is picked is exactly what stood at the places.
LEMMA PickedRange ==
    ASSUME NEW K, IsFiniteSet(K), K \in SUBSET Int, NEW s, NEW x
    PROVE  x \in Range(Picked(s, K)) <=> At(s, K, x)
<1> DEFINE c == Cardinality(K)
           a == Ascending(K)
           p == Picked(s, K)
<1>1. DOMAIN p = 1 .. c /\ \A n \in 1 .. c : p[n] = s[a[n]] /\ a[n] \in K
      BY PickedPlaces
<1>2. \A i \in K : \E k \in 1 .. c : a[k] = i
      BY AscendingLaws
<1> HIDE DEF a, p, c
<1>3. ASSUME NEW k \in K, s[k] = x  PROVE x \in Range(p)
      <2>1. PICK n \in 1 .. c : a[n] = k
            BY <1>2
      <2>2. p[n] = s[k] /\ n \in DOMAIN p
            BY <2>1, <1>1
      <2> QED BY <2>2, <1>3 DEF Range
<1>4. ASSUME x \in Range(p)  PROVE \E k \in K : s[k] = x
      <2>1. PICK n \in 1 .. c : p[n] = x
            BY <1>1, <1>4 DEF Range
      <2> QED BY <2>1, <1>1
<1> QED BY <1>3, <1>4 DEF p, At
=============================================================================
