---------------------------- MODULE RedisProofs ----------------------------
(***************************************************************************)
(* Proofs about RedisQueue for every number of jobs, workers and clients.  *)
(***************************************************************************)
EXTENDS RedisQueue, ListLemmas

-----------------------------------------------------------------------------
(* The inductive invariant.                                                *)

\* Nothing is known of a job before its submission.
OnlySubmitted ==
    /\ \A i \in 1..Len(queue) : queue[i] \in submitted
    /\ \A p \in Procs : job[p] # None => job[p] \in submitted
    /\ \A j \in Jobs \ submitted : data[j] = None /\ results[j] = None

\* What a process is about to write back is a record, and a finished one except in
\* a fetch.
CopiesSound ==
    /\ \A w \in Workers : pc[w] = "mark" => copy[w] # None
    /\ \A w \in Workers : pc[w] = "store" => copy[w] # None /\ "completed" \in copy[w]
    /\ \A c \in Clients : pc[c] = "cancel_store" => copy[c] # None /\ "completed" \in copy[c]

\* A worker that stored its job as finished is the last to write its record.
FinishedByWorker == \A w \in Workers : pc[w] = "answer" => ~Unfinished(job[w])

\* What a client cancelled is finished, or a worker still has it.
FinishedByCancel ==
    \A c \in Clients :
        pc[c] \in {"cancel_answer", "remove"} =>
            ~Unfinished(job[c]) \/ Held(job[c]) \/ job[c] \in broken

IInv ==
    /\ TypeOK
    /\ OneHolder
    /\ NoJobLost
    /\ ContradictionIsTransient
    /\ OnlySubmitted
    /\ CopiesSound
    /\ FinishedByWorker
    /\ FinishedByCancel

\* A record is never mistaken for its absence.
LEMMA NoneIsNoRecord == None \notin (SUBSET Marks)
BY NamesAssumption DEF Marks

LEMMA InitIInv == Init => IInv
<1> SUFFICES ASSUME Init PROVE IInv
  OBVIOUS
<1> USE NamesAssumption DEF Init
<1>1. TypeOK
  <2>1. /\ pc \in [Procs -> WorkerPlaces \union ClientPlaces]
        /\ \A w \in Workers : pc[w] \in WorkerPlaces
        /\ \A c \in Clients : pc[c] \in ClientPlaces
        /\ \A p \in Procs : pc[p] \in {"idle", "check"}
    BY DEF Procs, WorkerPlaces, ClientPlaces
  <2>2. \A p \in Procs : job[p] = None
    OBVIOUS
  <2>3. /\ data \in [Jobs -> {None} \union (SUBSET Marks)]
        /\ copy \in [Procs -> {None} \union (SUBSET Marks)]
        /\ results \in [Jobs -> {"worker", "cancel", None}]
        /\ running \in [Workers -> BOOLEAN] /\ job \in [Procs -> Jobs \union {None}]
    OBVIOUS
  <2>4. queue = <<>> /\ submitted \subseteq Jobs /\ broken \subseteq Jobs /\ cleared \in BOOLEAN
    BY Zenon
  <2>5. \A p \in Procs : job[p] = None <=> pc[p] \in {"idle", "check", "pop", "dead"}
    BY <2>1, <2>2
  <2>6. queue \in Seq(Jobs)
    BY <2>4, EmptySeq, Zenon
  <2> QED
    BY ONLY <2>1, <2>3, <2>4, <2>5, <2>6, Zenon DEF TypeOK
<1>2. OneHolder /\ NoJobLost /\ ContradictionIsTransient
  BY DEF OneHolder, NoJobLost, ContradictionIsTransient, Unfinished, Carries, Queued, Procs
<1>3. OnlySubmitted /\ CopiesSound /\ FinishedByWorker /\ FinishedByCancel
  BY DEF OnlySubmitted, CopiesSound, FinishedByWorker, FinishedByCancel, Procs
<1> QED
  BY <1>1, <1>2, <1>3 DEF IInv

-----------------------------------------------------------------------------
(* The queue after each operation on it, and what a process reads.          *)

\* Queued speaks of the elements of the list.
LEMMA QueuedElements ==
    ASSUME queue \in Seq(Jobs)
    PROVE  /\ \A j : Queued(j) <=> j \in ToSet(queue)
           /\ (\A i, k \in 1..Len(queue) : queue[i] = queue[k] => i = k) <=> Distinct(queue)
BY ToSetElements DEF Queued, Distinct

\* Pushing adds one element, at the end.
LEMMA PushQueue ==
    ASSUME TypeOK, NEW c \in Clients, SubmitPush(c)
    PROVE  /\ job[c] \in Jobs
           /\ queue' \in Seq(Jobs)
           /\ Len(queue') = Len(queue) + 1 /\ Len(queue) \in Nat
           /\ \A i \in 1..Len(queue) : queue'[i] = queue[i]
           /\ queue'[Len(queue) + 1] = job[c]
           /\ \A j : Queued(j)' <=> Queued(j) \/ j = job[c]
<1>1. queue \in Seq(Jobs) /\ job[c] \in Jobs /\ queue' = Append(queue, job[c])
  BY DEF TypeOK, SubmitPush, Procs
<1>2. /\ queue' \in Seq(Jobs)
      /\ Len(queue') = Len(queue) + 1 /\ Len(queue) \in Nat
      /\ \A i \in 1..Len(queue) : queue'[i] = queue[i]
      /\ queue'[Len(queue) + 1] = job[c]
  BY <1>1
<1>3. \A j : Queued(j)' <=> Queued(j) \/ j = job[c]
  BY <1>2 DEF Queued
<1> QED
  BY <1>1, <1>2, <1>3

\* Popping takes the head.
LEMMA PopQueue ==
    ASSUME TypeOK, OneHolder, NEW w \in Workers, Pop(w)
    PROVE  /\ job'[w] \in Jobs /\ Queued(job'[w])
           /\ \A j : Queued(j)' <=> Queued(j) /\ j # job'[w]
<1>1. /\ queue \in Seq(Jobs) /\ queue # <<>> /\ Distinct(queue)
      /\ queue' = Tail(queue) /\ job'[w] = Head(queue)
  BY QueuedElements DEF TypeOK, OneHolder, Pop, Procs
<1>2. /\ Head(queue) \in ToSet(queue) /\ queue' \in Seq(Jobs)
      /\ ToSet(queue') = ToSet(queue) \ {Head(queue)}
  BY <1>1, TailElements
<1>3. \A j : Queued(j)' <=> j \in ToSet(queue')
  BY <1>2, ToSetElements DEF Queued
<1> QED
  BY <1>1, <1>2, <1>3, QueuedElements, ToSetElements

\* Removing a cancelled job removes it and nothing else.
LEMMA RemoveQueue ==
    ASSUME TypeOK, OneHolder, NEW c \in Clients, CancelRemove(c)
    PROVE  /\ queue' \in Seq(Jobs)
           /\ \A i, k \in 1..Len(queue') : queue'[i] = queue'[k] => i = k
           /\ \A i \in 1..Len(queue') : \E k \in 1..Len(queue) : queue'[i] = queue[k]
           /\ \A j : Queued(j)' <=> Queued(j) /\ j # job[c]
<1>1. queue \in Seq(Jobs) /\ Distinct(queue)
  BY QueuedElements DEF TypeOK, OneHolder
<1>2. CASE Queued(job[c])
  <2> DEFINE pos == CHOOSE i \in 1..Len(queue) : queue[i] = job[c]
  <2>1. pos \in 1..Len(queue) /\ queue[pos] = job[c]
    BY <1>2 DEF Queued
  <2>2. queue' = RemoveAt(queue, pos)
    BY <1>2 DEF CancelRemove
  <2> HIDE DEF pos
  <2>3. /\ queue' \in Seq(Jobs) /\ Distinct(queue')
        /\ ToSet(queue') = ToSet(queue) \ {job[c]}
    BY <1>1, <2>1, <2>2, RemoveAtProperties, RemoveAtElements
  <2>4. \A j : Queued(j)' <=> j \in ToSet(queue')
    BY <2>3, ToSetElements DEF Queued
  <2>5. \A i \in 1..Len(queue') : queue'[i] \in ToSet(queue)
    BY <2>3, ToSetElements
  <2>6. \A i \in 1..Len(queue') : \E k \in 1..Len(queue) : queue'[i] = queue[k]
    BY <1>1, <2>5, ToSetElements
  <2> QED
    BY <1>1, <2>3, <2>4, <2>6, QueuedElements DEF Distinct
<1>3. CASE ~Queued(job[c])
  <2>1. queue' = queue
    BY <1>3 DEF CancelRemove
  <2> QED
    BY <1>1, <1>3, <2>1 DEF Distinct, Queued
<1> QED
  BY <1>2, <1>3

\* A marked copy of a record is a record.
LEMMA MarkedCopy ==
    ASSUME TypeOK, NEW j \in Jobs, data[j] # None, NEW m \in Marks
    PROVE  data[j] \union {m} # None
BY NamesAssumption DEF TypeOK, Marks

-----------------------------------------------------------------------------
(* Every action preserves the invariant.                                    *)

LEMMA SubmitStoreIInv ==
    ASSUME IInv, NEW c \in Clients, NEW j \in Jobs, SubmitStore(c, j) PROVE IInv'
<1> USE NamesAssumption, NoneIsNoRecord DEF IInv, SubmitStore, GoTo, Procs, shared, local, history
<1>1. TypeOK'
  BY DEF TypeOK, WorkerPlaces, ClientPlaces, Marks
<1>2. OneHolder'
  BY DEF TypeOK, OneHolder, OnlySubmitted, Carries, Queued, ClientPlaces, WorkerPlaces
<1>3. NoJobLost'
  <2> SUFFICES ASSUME NEW k \in Jobs, Unfinished(k)'
               PROVE  Queued(k)' \/ k \in broken' \/ \E p \in Procs : Carries(p)' /\ job'[p] = k
    BY DEF NoJobLost
  <2>1. queue' = queue /\ broken' = broken /\ Carries(c)' /\ job'[c] = j
    BY DEF TypeOK, Carries
  <2>2. CASE k = j
    BY <2>1, <2>2
  <2>3. CASE k # j
    <3>1. Unfinished(k)
      BY <2>3 DEF TypeOK, Unfinished
    <3>2. \A p \in Procs : Carries(p) /\ job[p] = k => Carries(p)' /\ job'[p] = k
      BY DEF TypeOK, Carries
    <3> QED
      BY <2>1, <3>1, <3>2 DEF NoJobLost, Queued
  <2> QED
    BY <2>2, <2>3
<1>4. ContradictionIsTransient'
  BY DEF TypeOK, OneHolder, ContradictionIsTransient, CopiesSound, FinishedByCancel,
       FinishedByWorker, OnlySubmitted, Carries, Unfinished, Held, ClientPlaces, WorkerPlaces
<1>5. OnlySubmitted'
  BY DEF TypeOK, OnlySubmitted, Queued
<1>6. CopiesSound'
  BY DEF TypeOK, CopiesSound, ClientPlaces, WorkerPlaces
<1>7. FinishedByWorker'
  BY DEF TypeOK, OneHolder, CopiesSound, FinishedByWorker, OnlySubmitted, Carries, Unfinished,
       ClientPlaces, WorkerPlaces
<1>8. FinishedByCancel'
  BY DEF TypeOK, CopiesSound, FinishedByWorker, FinishedByCancel, OnlySubmitted, Unfinished,
       Held, ClientPlaces, WorkerPlaces
<1> QED
  BY <1>1, <1>2, <1>3, <1>4, <1>5, <1>6, <1>7, <1>8

LEMMA SubmitPushIInv ==
    ASSUME IInv, NEW c \in Clients, SubmitPush(c) PROVE IInv'
<1> USE NamesAssumption, NoneIsNoRecord DEF IInv, SubmitPush, Return, GoTo, Procs, shared,
        local, history
<1>1. TypeOK'
  BY PushQueue DEF TypeOK, WorkerPlaces, ClientPlaces, Marks
<1>2. OneHolder'
  BY PushQueue DEF TypeOK, OneHolder, OnlySubmitted, Carries, Queued, ClientPlaces, WorkerPlaces
<1>3. NoJobLost'
  <2> SUFFICES ASSUME NEW j \in Jobs, Unfinished(j)'
               PROVE  Queued(j)' \/ j \in broken' \/ \E p \in Procs : Carries(p)' /\ job'[p] = j
    BY DEF NoJobLost
  <2>1. Unfinished(j) /\ broken' = broken
    BY DEF Unfinished
  <2>2. Queued(j) \/ j \in broken \/ \E p \in Procs : Carries(p) /\ job[p] = j
    BY <2>1 DEF NoJobLost
  <2>3. ASSUME NEW p \in Procs, Carries(p), job[p] = j
        PROVE  Queued(j)' \/ (Carries(p)' /\ job'[p] = j)
    <3>1. CASE p = c
      <4>1. j = job[c]
        BY <2>3, <3>1
      <4>2. \A k : Queued(k)' <=> Queued(k) \/ k = job[c]
        BY PushQueue
      <4> QED
        BY <4>1, <4>2
    <3>2. CASE p # c
      BY <2>3, <3>2 DEF Carries, TypeOK
    <3> QED
      BY <3>1, <3>2
  <2> QED
    BY <2>1, <2>2, <2>3, PushQueue
<1>4. ContradictionIsTransient'
  BY DEF TypeOK, OneHolder, ContradictionIsTransient, CopiesSound, FinishedByCancel,
       FinishedByWorker, OnlySubmitted, Carries, Unfinished, Held, ClientPlaces, WorkerPlaces
<1>5. OnlySubmitted'
  BY SMTT(30) DEF TypeOK, OnlySubmitted, Queued
<1>6. CopiesSound'
  BY DEF TypeOK, CopiesSound, ClientPlaces, WorkerPlaces
<1>7. FinishedByWorker'
  BY DEF TypeOK, OneHolder, CopiesSound, FinishedByWorker, OnlySubmitted, Carries, Unfinished,
       ClientPlaces, WorkerPlaces
<1>8. FinishedByCancel'
  BY DEF TypeOK, CopiesSound, FinishedByWorker, FinishedByCancel, OnlySubmitted, Unfinished,
       Held, ClientPlaces, WorkerPlaces
<1> QED
  BY <1>1, <1>2, <1>3, <1>4, <1>5, <1>6, <1>7, <1>8

LEMMA CancelLoadIInv ==
    ASSUME IInv, NEW c \in Clients, NEW j \in Jobs, CancelLoad(c, j) PROVE IInv'
<1> USE NamesAssumption, NoneIsNoRecord DEF IInv, CancelLoad, Load, GoTo, Procs, shared, local,
        history
<1>1. TypeOK'
  BY DEF TypeOK, WorkerPlaces, ClientPlaces, Marks
<1>2. OneHolder'
  BY DEF TypeOK, OneHolder, OnlySubmitted, Carries, Queued, ClientPlaces, WorkerPlaces
<1>3. NoJobLost'
  BY DEF TypeOK, OneHolder, NoJobLost, CopiesSound, FinishedByCancel, FinishedByWorker,
       OnlySubmitted, Unfinished, Carries, Held, Queued, ClientPlaces, WorkerPlaces
<1>4. ContradictionIsTransient'
  BY DEF TypeOK, OneHolder, ContradictionIsTransient, CopiesSound, FinishedByCancel,
       FinishedByWorker, OnlySubmitted, Carries, Unfinished, Held, ClientPlaces, WorkerPlaces
<1>5. OnlySubmitted'
  BY DEF TypeOK, OnlySubmitted, Queued
<1>6. CopiesSound'
  BY MarkedCopy DEF Marks, TypeOK, CopiesSound, ClientPlaces, WorkerPlaces
<1>7. FinishedByWorker'
  BY DEF TypeOK, OneHolder, CopiesSound, FinishedByWorker, OnlySubmitted, Carries, Unfinished,
       ClientPlaces, WorkerPlaces
<1>8. FinishedByCancel'
  BY DEF TypeOK, CopiesSound, FinishedByWorker, FinishedByCancel, OnlySubmitted, Unfinished,
       Held, ClientPlaces, WorkerPlaces
<1> QED
  BY <1>1, <1>2, <1>3, <1>4, <1>5, <1>6, <1>7, <1>8

LEMMA CancelStoreIInv ==
    ASSUME IInv, NEW c \in Clients, CancelStore(c) PROVE IInv'
<1> USE NamesAssumption, NoneIsNoRecord DEF IInv, CancelStore, Store, GoTo, Procs, shared,
        local, history
<1>1. TypeOK'
  BY DEF TypeOK, WorkerPlaces, ClientPlaces, Marks
<1>2. OneHolder'
  BY DEF TypeOK, OneHolder, OnlySubmitted, Carries, Queued, ClientPlaces, WorkerPlaces
<1>3. NoJobLost'
  BY DEF TypeOK, OneHolder, NoJobLost, CopiesSound, FinishedByCancel, FinishedByWorker,
       OnlySubmitted, Unfinished, Carries, Held, Queued, ClientPlaces, WorkerPlaces
<1>4. ContradictionIsTransient'
  BY DEF TypeOK, OneHolder, ContradictionIsTransient, CopiesSound, FinishedByCancel,
       FinishedByWorker, OnlySubmitted, Carries, Unfinished, Held, ClientPlaces, WorkerPlaces
<1>5. OnlySubmitted'
  BY DEF TypeOK, OnlySubmitted, Queued
<1>6. CopiesSound'
  BY DEF TypeOK, CopiesSound, ClientPlaces, WorkerPlaces
<1>7. FinishedByWorker'
  BY DEF TypeOK, OneHolder, CopiesSound, FinishedByWorker, OnlySubmitted, Carries, Unfinished,
       ClientPlaces, WorkerPlaces
<1>8. FinishedByCancel'
  BY DEF TypeOK, CopiesSound, FinishedByWorker, FinishedByCancel, OnlySubmitted, Unfinished,
       Held, ClientPlaces, WorkerPlaces
<1> QED
  BY <1>1, <1>2, <1>3, <1>4, <1>5, <1>6, <1>7, <1>8

LEMMA CancelAnswerIInv ==
    ASSUME IInv, NEW c \in Clients, CancelAnswer(c) PROVE IInv'
<1> USE NamesAssumption, NoneIsNoRecord DEF IInv, CancelAnswer, Answer, GoTo, Procs, shared,
        local, history
<1>1. TypeOK'
  BY DEF TypeOK, WorkerPlaces, ClientPlaces, Marks
<1>2. OneHolder'
  BY DEF TypeOK, OneHolder, OnlySubmitted, Carries, Queued, ClientPlaces, WorkerPlaces
<1>3. NoJobLost'
  BY DEF TypeOK, OneHolder, NoJobLost, CopiesSound, FinishedByCancel, FinishedByWorker,
       OnlySubmitted, Unfinished, Carries, Held, Queued, ClientPlaces, WorkerPlaces
<1>4. ContradictionIsTransient'
  BY DEF TypeOK, OneHolder, ContradictionIsTransient, CopiesSound, FinishedByCancel,
       FinishedByWorker, OnlySubmitted, Carries, Unfinished, Held, ClientPlaces, WorkerPlaces
<1>5. OnlySubmitted'
  BY DEF TypeOK, OnlySubmitted, Queued
<1>6. CopiesSound'
  BY DEF TypeOK, CopiesSound, ClientPlaces, WorkerPlaces
<1>7. FinishedByWorker'
  BY DEF TypeOK, OneHolder, CopiesSound, FinishedByWorker, OnlySubmitted, Carries, Unfinished,
       ClientPlaces, WorkerPlaces
<1>8. FinishedByCancel'
  BY DEF TypeOK, CopiesSound, FinishedByWorker, FinishedByCancel, OnlySubmitted, Unfinished,
       Held, ClientPlaces, WorkerPlaces
<1> QED
  BY <1>1, <1>2, <1>3, <1>4, <1>5, <1>6, <1>7, <1>8

LEMMA CancelRemoveIInv ==
    ASSUME IInv, NEW c \in Clients, CancelRemove(c) PROVE IInv'
<1> USE NamesAssumption, NoneIsNoRecord DEF IInv, CancelRemove, Return, GoTo, Procs, shared,
        local, history
<1>1. TypeOK'
  BY RemoveQueue DEF TypeOK, WorkerPlaces, ClientPlaces, Marks
<1>2. OneHolder'
  BY RemoveQueue, ZenonT(60) DEF TypeOK, OneHolder, Carries, ClientPlaces
<1>3. NoJobLost'
  <2> SUFFICES ASSUME NEW j \in Jobs, Unfinished(j)'
               PROVE  Queued(j)' \/ j \in broken' \/ \E p \in Procs : Carries(p)' /\ job'[p] = j
    BY DEF NoJobLost
  <2>1. Unfinished(j) /\ broken' = broken
    BY DEF Unfinished
  <2>2. Queued(j) \/ j \in broken \/ \E p \in Procs : Carries(p) /\ job[p] = j
    BY <2>1 DEF NoJobLost
  <2>3. ASSUME NEW p \in Procs, Carries(p), job[p] = j
        PROVE  Carries(p)' /\ job'[p] = j
    BY <2>3 DEF Carries, TypeOK
  <2>4. CASE Queued(j) /\ j # job[c]
    BY <2>4, RemoveQueue
  <2>5. CASE j = job[c]
    <3>1. Held(j) \/ j \in broken
      BY <2>1, <2>5 DEF FinishedByCancel
    <3>2. ASSUME NEW w \in Workers, job[w] = j PROVE Carries(w)
      BY <3>2 DEF Carries
    <3> QED
      BY <2>1, <2>3, <3>1, <3>2 DEF Held
  <2> QED
    BY <2>1, <2>2, <2>3, <2>4, <2>5
<1>4. ContradictionIsTransient'
  BY DEF TypeOK, OneHolder, ContradictionIsTransient, CopiesSound, FinishedByCancel,
       FinishedByWorker, OnlySubmitted, Carries, Unfinished, Held, ClientPlaces, WorkerPlaces
<1>5. OnlySubmitted'
  <2>1. \A i \in 1..Len(queue') : queue'[i] \in submitted'
    <3>1. \A i \in 1..Len(queue') : \E k \in 1..Len(queue) : queue'[i] = queue[k]
      BY RemoveQueue
    <3>2. \A k \in 1..Len(queue) : queue[k] \in submitted'
      BY DEF OnlySubmitted
    <3> QED
      BY <3>1, <3>2, Zenon
  <2>2. /\ \A p \in Procs : job'[p] # None => job'[p] \in submitted'
        /\ \A j \in Jobs \ submitted' : data'[j] = None /\ results'[j] = None
    BY DEF TypeOK, OnlySubmitted
  <2> QED
    BY <2>1, <2>2 DEF OnlySubmitted
<1>6. CopiesSound'
  BY DEF TypeOK, CopiesSound, ClientPlaces, WorkerPlaces
<1>7. FinishedByWorker'
  BY DEF TypeOK, OneHolder, CopiesSound, FinishedByWorker, OnlySubmitted, Carries, Unfinished,
       ClientPlaces, WorkerPlaces
<1>8. FinishedByCancel'
  BY DEF TypeOK, CopiesSound, FinishedByWorker, FinishedByCancel, OnlySubmitted, Unfinished,
       Held, ClientPlaces, WorkerPlaces
<1> QED
  BY <1>1, <1>2, <1>3, <1>4, <1>5, <1>6, <1>7, <1>8

LEMMA ClearIInv ==
    ASSUME IInv, Clear PROVE IInv'
<1> USE NamesAssumption, NoneIsNoRecord DEF IInv, Clear, Procs, shared, local, history
<1>1. TypeOK'
  BY DEF TypeOK, WorkerPlaces, ClientPlaces, Marks
<1>2. OneHolder'
  BY DEF TypeOK, OneHolder, OnlySubmitted, Carries, Queued, ClientPlaces, WorkerPlaces
<1>3. NoJobLost'
  BY DEF TypeOK, OneHolder, NoJobLost, CopiesSound, FinishedByCancel, FinishedByWorker,
       OnlySubmitted, Unfinished, Carries, Held, Queued, ClientPlaces, WorkerPlaces
<1>4. ContradictionIsTransient'
  BY DEF TypeOK, OneHolder, ContradictionIsTransient, CopiesSound, FinishedByCancel,
       FinishedByWorker, OnlySubmitted, Carries, Unfinished, Held, ClientPlaces, WorkerPlaces
<1>5. OnlySubmitted'
  BY DEF TypeOK, OnlySubmitted, Queued
<1>6. CopiesSound'
  BY DEF TypeOK, CopiesSound, ClientPlaces, WorkerPlaces
<1>7. FinishedByWorker'
  BY DEF TypeOK, OneHolder, CopiesSound, FinishedByWorker, OnlySubmitted, Carries, Unfinished,
       ClientPlaces, WorkerPlaces
<1>8. FinishedByCancel'
  BY DEF TypeOK, CopiesSound, FinishedByWorker, FinishedByCancel, OnlySubmitted, Unfinished,
       Held, ClientPlaces, WorkerPlaces
<1> QED
  BY <1>1, <1>2, <1>3, <1>4, <1>5, <1>6, <1>7, <1>8

LEMMA StopIInv ==
    ASSUME IInv, NEW w \in Workers, Stop(w) PROVE IInv'
<1> USE NamesAssumption, NoneIsNoRecord DEF IInv, Stop, Procs, shared, local, history
<1>1. TypeOK'
  BY DEF TypeOK, WorkerPlaces, ClientPlaces, Marks
<1>2. OneHolder'
  BY DEF TypeOK, OneHolder, OnlySubmitted, Carries, Queued, ClientPlaces, WorkerPlaces
<1>3. NoJobLost'
  BY DEF TypeOK, OneHolder, NoJobLost, CopiesSound, FinishedByCancel, FinishedByWorker,
       OnlySubmitted, Unfinished, Carries, Held, Queued, ClientPlaces, WorkerPlaces
<1>4. ContradictionIsTransient'
  BY DEF TypeOK, OneHolder, ContradictionIsTransient, CopiesSound, FinishedByCancel,
       FinishedByWorker, OnlySubmitted, Carries, Unfinished, Held, ClientPlaces, WorkerPlaces
<1>5. OnlySubmitted'
  BY DEF TypeOK, OnlySubmitted, Queued
<1>6. CopiesSound'
  BY DEF TypeOK, CopiesSound, ClientPlaces, WorkerPlaces
<1>7. FinishedByWorker'
  BY DEF TypeOK, OneHolder, CopiesSound, FinishedByWorker, OnlySubmitted, Carries, Unfinished,
       ClientPlaces, WorkerPlaces
<1>8. FinishedByCancel'
  BY DEF TypeOK, CopiesSound, FinishedByWorker, FinishedByCancel, OnlySubmitted, Unfinished,
       Held, ClientPlaces, WorkerPlaces
<1> QED
  BY <1>1, <1>2, <1>3, <1>4, <1>5, <1>6, <1>7, <1>8

LEMMA CheckLoopIInv ==
    ASSUME IInv, NEW w \in Workers, CheckLoop(w) PROVE IInv'
<1> USE NamesAssumption, NoneIsNoRecord DEF IInv, CheckLoop, GoTo, Procs, shared, local, history
<1>1. TypeOK'
  BY DEF TypeOK, WorkerPlaces, ClientPlaces, Marks
<1>2. OneHolder'
  BY DEF TypeOK, OneHolder, OnlySubmitted, Carries, Queued, ClientPlaces, WorkerPlaces
<1>3. NoJobLost'
  BY DEF TypeOK, OneHolder, NoJobLost, CopiesSound, FinishedByCancel, FinishedByWorker,
       OnlySubmitted, Unfinished, Carries, Held, Queued, ClientPlaces, WorkerPlaces
<1>4. ContradictionIsTransient'
  BY DEF TypeOK, OneHolder, ContradictionIsTransient, CopiesSound, FinishedByCancel,
       FinishedByWorker, OnlySubmitted, Carries, Unfinished, Held, ClientPlaces, WorkerPlaces
<1>5. OnlySubmitted'
  BY DEF TypeOK, OnlySubmitted, Queued
<1>6. CopiesSound'
  BY DEF TypeOK, CopiesSound, ClientPlaces, WorkerPlaces
<1>7. FinishedByWorker'
  BY DEF TypeOK, OneHolder, CopiesSound, FinishedByWorker, OnlySubmitted, Carries, Unfinished,
       ClientPlaces, WorkerPlaces
<1>8. FinishedByCancel'
  BY DEF TypeOK, CopiesSound, FinishedByWorker, FinishedByCancel, OnlySubmitted, Unfinished,
       Held, ClientPlaces, WorkerPlaces
<1> QED
  BY <1>1, <1>2, <1>3, <1>4, <1>5, <1>6, <1>7, <1>8

LEMMA PopIInv ==
    ASSUME IInv, NEW w \in Workers, Pop(w) PROVE IInv'
<1> USE NamesAssumption, NoneIsNoRecord DEF IInv, Pop, GoTo, Procs, shared, local, history
<1>1. TypeOK'
  BY DEF TypeOK, WorkerPlaces, ClientPlaces, Marks
<1>2. OneHolder'
  BY DEF TypeOK, OneHolder, OnlySubmitted, Carries, Queued, ClientPlaces, WorkerPlaces
<1>3. NoJobLost'
  <2> SUFFICES ASSUME NEW j \in Jobs, Unfinished(j)'
               PROVE  Queued(j)' \/ j \in broken' \/ \E p \in Procs : Carries(p)' /\ job'[p] = j
    BY DEF NoJobLost
  <2>1. Unfinished(j) /\ broken' = broken
    BY DEF Unfinished
  <2>2. Queued(j) \/ j \in broken \/ \E p \in Procs : Carries(p) /\ job[p] = j
    BY <2>1 DEF NoJobLost
  <2>3. job[w] = None /\ Carries(w)'
    BY PopQueue DEF TypeOK, Carries
  <2>4. CASE Queued(j)
    BY <2>3, <2>4, PopQueue
  <2>5. ASSUME NEW p \in Procs, Carries(p), job[p] = j
        PROVE  Carries(p)' /\ job'[p] = j
    BY <2>3, <2>5 DEF Carries, TypeOK
  <2> QED
    BY <2>1, <2>2, <2>4, <2>5
<1>4. ContradictionIsTransient'
  BY DEF TypeOK, OneHolder, ContradictionIsTransient, CopiesSound, FinishedByCancel,
       FinishedByWorker, OnlySubmitted, Carries, Unfinished, Held, ClientPlaces, WorkerPlaces
<1>5. OnlySubmitted'
  BY DEF TypeOK, OnlySubmitted, Queued
<1>6. CopiesSound'
  BY DEF TypeOK, CopiesSound, ClientPlaces, WorkerPlaces
<1>7. FinishedByWorker'
  BY DEF TypeOK, OneHolder, CopiesSound, FinishedByWorker, OnlySubmitted, Carries, Unfinished,
       ClientPlaces, WorkerPlaces
<1>8. FinishedByCancel'
  <2> SUFFICES ASSUME NEW c \in Clients, pc'[c] \in {"cancel_answer", "remove"}
               PROVE  ~Unfinished(job[c])' \/ Held(job[c])' \/ job'[c] \in broken'
    BY DEF FinishedByCancel
  <2>1. pc[c] = pc'[c] /\ job[c] = job'[c] /\ data' = data /\ broken' = broken
    BY DEF TypeOK
  <2>2. job[w] = None /\ job[c] # None
    BY <2>1 DEF TypeOK
  <2>3. \A v \in Workers : job[v] = job[c] => job'[v] = job[c]
    BY <2>2 DEF TypeOK
  <2> QED
    BY <2>1, <2>3 DEF FinishedByCancel, Unfinished, Held
<1> QED
  BY <1>1, <1>2, <1>3, <1>4, <1>5, <1>6, <1>7, <1>8

LEMMA FetchReadIInv ==
    ASSUME IInv, NEW w \in Workers, FetchRead(w) PROVE IInv'
<1> USE NamesAssumption, NoneIsNoRecord DEF IInv, FetchRead, Read, Return, Load, GoTo, Procs,
        shared, local, history
<1>1. TypeOK'
  BY DEF TypeOK, WorkerPlaces, ClientPlaces, Marks
<1>2. OneHolder'
  <2>1. CASE data[job[w]] = None
    BY <2>1 DEF TypeOK, OneHolder, Carries, Queued, ClientPlaces, WorkerPlaces
  <2>2. CASE data[job[w]] # None
    BY <2>2 DEF TypeOK, OneHolder, Carries, Queued, ClientPlaces, WorkerPlaces
  <2> QED
    BY <2>1, <2>2
<1>3. NoJobLost'
  BY DEF TypeOK, OneHolder, NoJobLost, CopiesSound, FinishedByCancel, FinishedByWorker,
       OnlySubmitted, Unfinished, Carries, Held, Queued, ClientPlaces, WorkerPlaces
<1>4. ContradictionIsTransient'
  BY DEF TypeOK, OneHolder, ContradictionIsTransient, CopiesSound, FinishedByCancel,
       FinishedByWorker, OnlySubmitted, Carries, Unfinished, Held, ClientPlaces, WorkerPlaces
<1>5. OnlySubmitted'
  BY DEF TypeOK, OnlySubmitted, Queued
<1>6. CopiesSound'
  BY MarkedCopy, SMTT(30) DEF Marks, TypeOK, CopiesSound, ClientPlaces, WorkerPlaces
<1>7. FinishedByWorker'
  <2>1. CASE data[job[w]] = None
    BY <2>1 DEF TypeOK, FinishedByWorker, Unfinished, WorkerPlaces
  <2>2. CASE data[job[w]] # None
    BY <2>2 DEF TypeOK, FinishedByWorker, Unfinished, WorkerPlaces
  <2> QED
    BY <2>1, <2>2
<1>8. FinishedByCancel'
  BY DEF TypeOK, CopiesSound, FinishedByWorker, FinishedByCancel, OnlySubmitted, Unfinished,
       Held, ClientPlaces, WorkerPlaces
<1> QED
  BY <1>1, <1>2, <1>3, <1>4, <1>5, <1>6, <1>7, <1>8

LEMMA FetchStoreIInv ==
    ASSUME IInv, NEW w \in Workers, FetchStore(w) PROVE IInv'
<1> USE NamesAssumption, NoneIsNoRecord DEF IInv, FetchStore, Store, GoTo, Procs, shared, local,
        history
<1>1. TypeOK'
  BY DEF TypeOK, WorkerPlaces, ClientPlaces, Marks
<1>2. OneHolder'
  BY DEF TypeOK, OneHolder, OnlySubmitted, Carries, Queued, ClientPlaces, WorkerPlaces
<1>3. NoJobLost'
  BY DEF TypeOK, OneHolder, NoJobLost, CopiesSound, FinishedByCancel, FinishedByWorker,
       OnlySubmitted, Unfinished, Carries, Held, Queued, ClientPlaces, WorkerPlaces
<1>4. ContradictionIsTransient'
  BY DEF TypeOK, OneHolder, ContradictionIsTransient, CopiesSound, FinishedByCancel,
       FinishedByWorker, OnlySubmitted, Carries, Unfinished, Held, ClientPlaces, WorkerPlaces
<1>5. OnlySubmitted'
  BY DEF TypeOK, OnlySubmitted, Queued
<1>6. CopiesSound'
  BY DEF TypeOK, CopiesSound, ClientPlaces, WorkerPlaces
<1>7. FinishedByWorker'
  BY DEF TypeOK, OneHolder, CopiesSound, FinishedByWorker, OnlySubmitted, Carries, Unfinished,
       ClientPlaces, WorkerPlaces
<1>8. FinishedByCancel'
  BY DEF TypeOK, CopiesSound, FinishedByWorker, FinishedByCancel, OnlySubmitted, Unfinished,
       Held, ClientPlaces, WorkerPlaces
<1> QED
  BY <1>1, <1>2, <1>3, <1>4, <1>5, <1>6, <1>7, <1>8

LEMMA ExecuteIInv ==
    ASSUME IInv, NEW w \in Workers, Execute(w) PROVE IInv'
<1> USE NamesAssumption, NoneIsNoRecord DEF IInv, Execute, GoTo, Procs, shared, local, history
<1>1. TypeOK'
  BY DEF TypeOK, WorkerPlaces, ClientPlaces, Marks
<1>2. OneHolder'
  BY DEF TypeOK, OneHolder, OnlySubmitted, Carries, Queued, ClientPlaces, WorkerPlaces
<1>3. NoJobLost'
  BY DEF TypeOK, OneHolder, NoJobLost, CopiesSound, FinishedByCancel, FinishedByWorker,
       OnlySubmitted, Unfinished, Carries, Held, Queued, ClientPlaces, WorkerPlaces
<1>4. ContradictionIsTransient'
  BY DEF TypeOK, OneHolder, ContradictionIsTransient, CopiesSound, FinishedByCancel,
       FinishedByWorker, OnlySubmitted, Carries, Unfinished, Held, ClientPlaces, WorkerPlaces
<1>5. OnlySubmitted'
  BY DEF TypeOK, OnlySubmitted, Queued
<1>6. CopiesSound'
  BY DEF TypeOK, CopiesSound, ClientPlaces, WorkerPlaces
<1>7. FinishedByWorker'
  BY DEF TypeOK, OneHolder, CopiesSound, FinishedByWorker, OnlySubmitted, Carries, Unfinished,
       ClientPlaces, WorkerPlaces
<1>8. FinishedByCancel'
  BY DEF TypeOK, CopiesSound, FinishedByWorker, FinishedByCancel, OnlySubmitted, Unfinished,
       Held, ClientPlaces, WorkerPlaces
<1> QED
  BY <1>1, <1>2, <1>3, <1>4, <1>5, <1>6, <1>7, <1>8

LEMMA CompleteReadIInv ==
    ASSUME IInv, NEW w \in Workers, CompleteRead(w) PROVE IInv'
<1> USE NamesAssumption, NoneIsNoRecord DEF IInv, CompleteRead, Read, Return, Load, GoTo, Procs,
        shared, local, history
<1>1. TypeOK'
  BY DEF TypeOK, WorkerPlaces, ClientPlaces, Marks
<1>2. OneHolder'
  BY DEF TypeOK, OneHolder, OnlySubmitted, Carries, Queued, ClientPlaces, WorkerPlaces
<1>3. NoJobLost'
  BY DEF TypeOK, OneHolder, NoJobLost, CopiesSound, FinishedByCancel, FinishedByWorker,
       OnlySubmitted, Unfinished, Carries, Held, Queued, ClientPlaces, WorkerPlaces
<1>4. ContradictionIsTransient'
  BY DEF TypeOK, OneHolder, ContradictionIsTransient, CopiesSound, FinishedByCancel,
       FinishedByWorker, OnlySubmitted, Carries, Unfinished, Held, ClientPlaces, WorkerPlaces
<1>5. OnlySubmitted'
  BY DEF TypeOK, OnlySubmitted, Queued
<1>6. CopiesSound'
  BY MarkedCopy, SMTT(30) DEF Marks, TypeOK, CopiesSound, ClientPlaces, WorkerPlaces
<1>7. FinishedByWorker'
  <2>1. CASE data[job[w]] = None
    BY <2>1 DEF TypeOK, FinishedByWorker, Unfinished, WorkerPlaces
  <2>2. CASE data[job[w]] # None
    BY <2>2 DEF TypeOK, FinishedByWorker, Unfinished, WorkerPlaces
  <2> QED
    BY <2>1, <2>2
<1>8. FinishedByCancel'
  BY DEF TypeOK, CopiesSound, FinishedByWorker, FinishedByCancel, OnlySubmitted, Unfinished,
       Held, ClientPlaces, WorkerPlaces
<1> QED
  BY <1>1, <1>2, <1>3, <1>4, <1>5, <1>6, <1>7, <1>8

LEMMA CompleteStoreIInv ==
    ASSUME IInv, NEW w \in Workers, CompleteStore(w) PROVE IInv'
<1> USE NamesAssumption, NoneIsNoRecord DEF IInv, CompleteStore, Store, GoTo, Procs, shared,
        local, history
<1>1. TypeOK'
  BY DEF TypeOK, WorkerPlaces, ClientPlaces, Marks
<1>2. OneHolder'
  BY DEF TypeOK, OneHolder, OnlySubmitted, Carries, Queued, ClientPlaces, WorkerPlaces
<1>3. NoJobLost'
  BY DEF TypeOK, OneHolder, NoJobLost, CopiesSound, FinishedByCancel, FinishedByWorker,
       OnlySubmitted, Unfinished, Carries, Held, Queued, ClientPlaces, WorkerPlaces
<1>4. ContradictionIsTransient'
  BY DEF TypeOK, OneHolder, ContradictionIsTransient, CopiesSound, FinishedByCancel,
       FinishedByWorker, OnlySubmitted, Carries, Unfinished, Held, ClientPlaces, WorkerPlaces
<1>5. OnlySubmitted'
  BY DEF TypeOK, OnlySubmitted, Queued
<1>6. CopiesSound'
  BY DEF TypeOK, CopiesSound, ClientPlaces, WorkerPlaces
<1>7. FinishedByWorker'
  BY DEF TypeOK, OneHolder, CopiesSound, FinishedByWorker, OnlySubmitted, Carries, Unfinished,
       ClientPlaces, WorkerPlaces
<1>8. FinishedByCancel'
  BY DEF TypeOK, CopiesSound, FinishedByWorker, FinishedByCancel, OnlySubmitted, Unfinished,
       Held, ClientPlaces, WorkerPlaces
<1> QED
  BY <1>1, <1>2, <1>3, <1>4, <1>5, <1>6, <1>7, <1>8

LEMMA CompleteAnswerIInv ==
    ASSUME IInv, NEW w \in Workers, CompleteAnswer(w) PROVE IInv'
<1> USE NamesAssumption, NoneIsNoRecord DEF IInv, CompleteAnswer, Answer, Return, GoTo, Procs,
        shared, local, history
<1>1. TypeOK'
  BY DEF TypeOK, WorkerPlaces, ClientPlaces, Marks
<1>2. OneHolder'
  BY DEF TypeOK, OneHolder, OnlySubmitted, Carries, Queued, ClientPlaces, WorkerPlaces
<1>3. NoJobLost'
  BY DEF TypeOK, OneHolder, NoJobLost, CopiesSound, FinishedByCancel, FinishedByWorker,
       OnlySubmitted, Unfinished, Carries, Held, Queued, ClientPlaces, WorkerPlaces
<1>4. ContradictionIsTransient'
  BY DEF TypeOK, OneHolder, ContradictionIsTransient, CopiesSound, FinishedByCancel,
       FinishedByWorker, OnlySubmitted, Carries, Unfinished, Held, ClientPlaces, WorkerPlaces
<1>5. OnlySubmitted'
  BY DEF TypeOK, OnlySubmitted, Queued
<1>6. CopiesSound'
  BY DEF TypeOK, CopiesSound, ClientPlaces, WorkerPlaces
<1>7. FinishedByWorker'
  BY DEF TypeOK, OneHolder, CopiesSound, FinishedByWorker, OnlySubmitted, Carries, Unfinished,
       ClientPlaces, WorkerPlaces
<1>8. FinishedByCancel'
  BY DEF TypeOK, CopiesSound, FinishedByWorker, FinishedByCancel, OnlySubmitted, Unfinished,
       Held, ClientPlaces, WorkerPlaces
<1> QED
  BY <1>1, <1>2, <1>3, <1>4, <1>5, <1>6, <1>7, <1>8

LEMMA CompleteUnavailableIInv ==
    ASSUME IInv, NEW w \in Workers, CompleteUnavailable(w) PROVE IInv'
<1> USE NamesAssumption, NoneIsNoRecord DEF IInv, CompleteUnavailable, Return, GoTo, Procs,
        shared, local, history
<1>1. TypeOK'
  BY DEF TypeOK, WorkerPlaces, ClientPlaces, Marks
<1>2. OneHolder'
  BY DEF TypeOK, OneHolder, OnlySubmitted, Carries, Queued, ClientPlaces, WorkerPlaces
<1>3. NoJobLost'
  BY DEF TypeOK, OneHolder, NoJobLost, CopiesSound, FinishedByCancel, FinishedByWorker,
       OnlySubmitted, Unfinished, Carries, Held, Queued, ClientPlaces, WorkerPlaces
<1>4. ContradictionIsTransient'
  BY DEF TypeOK, OneHolder, ContradictionIsTransient, CopiesSound, FinishedByCancel,
       FinishedByWorker, OnlySubmitted, Carries, Unfinished, Held, ClientPlaces, WorkerPlaces
<1>5. OnlySubmitted'
  BY DEF TypeOK, OnlySubmitted, Queued
<1>6. CopiesSound'
  BY DEF TypeOK, CopiesSound, ClientPlaces, WorkerPlaces
<1>7. FinishedByWorker'
  BY DEF TypeOK, OneHolder, CopiesSound, FinishedByWorker, OnlySubmitted, Carries, Unfinished,
       ClientPlaces, WorkerPlaces
<1>8. FinishedByCancel'
  BY DEF TypeOK, CopiesSound, FinishedByWorker, FinishedByCancel, OnlySubmitted, Unfinished,
       Held, ClientPlaces, WorkerPlaces
<1> QED
  BY <1>1, <1>2, <1>3, <1>4, <1>5, <1>6, <1>7, <1>8

LEMMA FailIInv ==
    ASSUME IInv, NEW p \in Procs, Fail(p) PROVE IInv'
<1> USE NamesAssumption, NoneIsNoRecord DEF IInv, Fail, GoTo, Procs, shared, local, history
<1>1. TypeOK'
  BY DEF TypeOK, WorkerPlaces, ClientPlaces, Marks
<1>2. OneHolder'
  BY DEF TypeOK, OneHolder, OnlySubmitted, Carries, Queued, ClientPlaces, WorkerPlaces
<1>3. NoJobLost'
  BY DEF TypeOK, OneHolder, NoJobLost, CopiesSound, FinishedByCancel, FinishedByWorker,
       OnlySubmitted, Unfinished, Carries, Held, Queued, ClientPlaces, WorkerPlaces
<1>4. ContradictionIsTransient'
  BY DEF TypeOK, OneHolder, ContradictionIsTransient, CopiesSound, FinishedByCancel,
       FinishedByWorker, OnlySubmitted, Carries, Unfinished, Held, ClientPlaces, WorkerPlaces
<1>5. OnlySubmitted'
  BY DEF TypeOK, OnlySubmitted, Queued
<1>6. CopiesSound'
  BY DEF TypeOK, CopiesSound, ClientPlaces, WorkerPlaces
<1>7. FinishedByWorker'
  BY DEF TypeOK, OneHolder, CopiesSound, FinishedByWorker, OnlySubmitted, Carries, Unfinished,
       ClientPlaces, WorkerPlaces
<1>8. FinishedByCancel'
  BY DEF TypeOK, CopiesSound, FinishedByWorker, FinishedByCancel, OnlySubmitted, Unfinished,
       Held, ClientPlaces, WorkerPlaces
<1> QED
  BY <1>1, <1>2, <1>3, <1>4, <1>5, <1>6, <1>7, <1>8

-----------------------------------------------------------------------------
(* The theorems.                                                            *)

LEMMA NextIInv == IInv /\ [Next]_vars => IInv'
<1> SUFFICES ASSUME IInv, [Next]_vars PROVE IInv'
  OBVIOUS
<1>1. CASE \E c \in Clients : ClientStep(c)
  BY <1>1, SubmitPushIInv, CancelStoreIInv, CancelAnswerIInv, CancelRemoveIInv DEF ClientStep
<1>2. CASE \E c \in Clients, j \in Jobs : SubmitStore(c, j) \/ CancelLoad(c, j)
  BY <1>2, SubmitStoreIInv, CancelLoadIInv
<1>3. CASE Clear
  BY <1>3, ClearIInv
<1>4. CASE \E w \in Workers : WorkerStep(w)
  BY <1>4, CheckLoopIInv, PopIInv, FetchReadIInv, FetchStoreIInv, ExecuteIInv,
     CompleteReadIInv, CompleteStoreIInv, CompleteAnswerIInv DEF WorkerStep
<1>5. CASE \E w \in Workers : Stop(w) \/ CompleteUnavailable(w)
  BY <1>5, StopIInv, CompleteUnavailableIInv
<1>6. CASE \E p \in Procs : Fail(p)
  BY <1>6, FailIInv
<1>7. CASE UNCHANGED vars
  <2> USE <1>7 DEF vars, shared, local, history, IInv
  <2>1. TypeOK'
    BY DEF TypeOK
  <2>2. OneHolder' /\ NoJobLost' /\ ContradictionIsTransient'
    BY DEF OneHolder, NoJobLost, ContradictionIsTransient, Carries, Queued, Unfinished, Held
  <2>3. OnlySubmitted' /\ CopiesSound' /\ FinishedByWorker' /\ FinishedByCancel'
    BY DEF OnlySubmitted, CopiesSound, FinishedByWorker, FinishedByCancel, Unfinished, Held
  <2> QED
    BY <2>1, <2>2, <2>3
<1> QED
  BY <1>1, <1>2, <1>3, <1>4, <1>5, <1>6, <1>7 DEF Next

\* The invariant the theorems rest on holds in every behaviour of RedisQueue.
THEOREM Invariance == Spec => []IInv
BY InitIInv, NextIInv, PTL DEF Spec

\* The variables keep their types (redis_queue.py, worker.py).
THEOREM TypeCorrect == Spec => []TypeOK
BY Invariance, PTL DEF IInv

\* Whatever the interleaving of Redis commands, no job is given to two workers or
\* queued again while one has it (fetch, cancel and submit of RedisQueue).
THEOREM JobsHaveOneHolder == Spec => []OneHolder
BY Invariance, PTL DEF IInv

\* No interleaving of the methods of RedisQueue drops a job: only a failure in the
\* middle of a method does.
THEOREM JobsAreNotLost == Spec => []NoJobLost
BY Invariance, PTL DEF IInv

\* A record that contradicts its answer belongs to a job a worker is about to
\* complete again (the race of fetch and cancel).
THEOREM ContradictionsAreTransient == Spec => []ContradictionIsTransient
BY Invariance, PTL DEF IInv

=============================================================================
