---------------------------- MODULE StoreProofs -----------------------------
(***************************************************************************)
(* StoredRunsComplete of RunStore holds for any number of requests,        *)
(* deletions and findings; TrainingRecordsTrue of FineTuning for any       *)
(* number of threads, jobs, managers, names and datasets; QueriesExact of  *)
(* Provenance for any nodes, edges, depths and number of rows.             *)
(*                                                                         *)
(* The argument for the store: what each run has saved is a beginning of   *)
(* its script (Course), but for the graph once it has failed; the tables   *)
(* hold what those writes left (Holds).  A row with a result is left by    *)
(* the last write of a script, so all the others have been made (Full).    *)
(*                                                                         *)
(* The argument for the queries: every walk along rows there were at the   *)
(* beginning is ahead of the queue or behind it (Covered: its end has been *)
(* visited, or waits, no deeper than the walk is long), by induction on    *)
(* its length (Nearest); the queue is sorted by depth and spans two of     *)
(* them (InOrder), so a node is visited at its distance.                   *)
(***************************************************************************)
EXTENDS RunStore, FineTuning, Provenance, ListLemmas

-----------------------------------------------------------------------------
(***************************************************************************)
(* The store: lists of edges.                                              *)
(***************************************************************************)
IsList(s) == \E S : s \in Seq(S)

LEMMA Concatenated ==
    ASSUME NEW s, NEW t, IsList(s), IsList(t)
    PROVE  /\ IsList(s \o t)
           /\ Len(s \o t) = Len(s) + Len(t)
           /\ \A e : e \in Range(s \o t) <=> e \in Range(s) \/ e \in Range(t)
<1>1. PICK S : s \in Seq(S) /\ t \in Seq(S)
  <2>1. PICK A, B : s \in Seq(A) /\ t \in Seq(B)
    BY DEF IsList
  <2>2. s \in Seq(A \union B) /\ t \in Seq(A \union B)
    <3>1. A \subseteq A \union B /\ B \subseteq A \union B
      OBVIOUS
    <3> QED
      BY <2>1, <3>1, SeqMonotonic
  <2> QED
    BY <2>2
<1>2. /\ Len(s \o t) = Len(s) + Len(t) /\ s \o t \in Seq(S)
      /\ Len(s) \in Nat /\ Len(t) \in Nat
      /\ DOMAIN s = 1..Len(s) /\ DOMAIN t = 1..Len(t) /\ DOMAIN (s \o t) = 1..Len(s \o t)
      /\ \A k \in 1..Len(s \o t) : (s \o t)[k] = IF k <= Len(s) THEN s[k] ELSE t[k - Len(s)]
  BY <1>1, ConcatProperties
<1> DEFINE u == s \o t
<1>3. IsList(u)
  BY <1>2 DEF IsList
<1>4. ASSUME NEW e, e \in Range(s)
      PROVE  e \in Range(u)
  <2>1. PICK k \in 1..Len(s) : e = s[k]
    BY <1>2, <1>4 DEF Range
  <2>2. k \in 1..Len(u) /\ u[k] = e
    BY <1>2, <2>1
  <2> QED
    BY <1>2, <2>2 DEF Range
<1>5. ASSUME NEW e, e \in Range(t)
      PROVE  e \in Range(u)
  <2>1. PICK k \in 1..Len(t) : e = t[k]
    BY <1>2, <1>5 DEF Range
  <2>2. Len(s) + k \in 1..Len(u) /\ u[Len(s) + k] = e
    BY <1>2, <2>1
  <2> QED
    BY <1>2, <2>2 DEF Range
<1>6. ASSUME NEW e, e \in Range(u)
      PROVE  e \in Range(s) \/ e \in Range(t)
  <2>1. PICK k \in 1..Len(u) : e = u[k]
    BY <1>2, <1>6 DEF Range
  <2>2. CASE k <= Len(s)
    BY <1>2, <2>1, <2>2 DEF Range
  <2>3. CASE ~(k <= Len(s))
    <3>1. k - Len(s) \in 1..Len(t) /\ e = t[k - Len(s)]
      BY <1>2, <2>1, <2>3
    <3> QED
      BY <1>2, <3>1 DEF Range
  <2> QED
    BY <2>2, <2>3
<1>7. Len(u) = Len(s) + Len(t)
  BY <1>2
<1> QED
  BY <1>3, <1>4, <1>5, <1>6, <1>7

LEMMA Singleton ==
    ASSUME NEW e
    PROVE  IsList(<<e>>) /\ Range(<<e>>) = {e}
<1>1. Range(<<e>>) = {e}
  BY DEF Range
<1>2. <<e>> \in Seq({e})
  OBVIOUS
<1> QED
  BY <1>1, <1>2 DEF IsList

LEMMA EmptyList == IsList(<<>>) /\ Range(<<>>) = {}
<1>1. Range(<<>>) = {}
  BY DEF Range
<1>2. <<>> \in Seq({})
  OBVIOUS
<1> QED
  BY <1>1, <1>2 DEF IsList

LEMMA Ordered ==
    ASSUME NEW S, IsFiniteSet(S)
    PROVE  /\ SetToSeq(S) \in [1..Cardinality(S) -> S]
           /\ Cardinality(S) \in Nat
<1>1. Cardinality(S) \in Nat
  BY FS_CardinalityType
<1>2. \E f \in [1..Cardinality(S) -> S] : IsInjective(f)
  <2>1. ExistsBijection(1..Cardinality(S), S)
    BY FS_CardinalityType
  <2>2. PICK f \in Bijection(1..Cardinality(S), S) : TRUE
    BY <2>1, Zenon DEF ExistsBijection
  <2>3. f \in [1..Cardinality(S) -> S] /\ IsInjective(f)
    BY <2>2 DEF Bijection, Injection
  <2> QED
    BY <2>3
<1> QED
  BY <1>1, <1>2 DEF SetToSeq

Links(s, from, relation, type) == \A e \in Range(s) : \E i : e = Edge(from, relation, <<type, i>>)

LEMMA Linked ==
    ASSUME NEW from, NEW relation, NEW type, NEW ids, IsFiniteSet(ids)
    PROVE  /\ IsList(LinkAll(from, relation, type, ids))
           /\ Links(LinkAll(from, relation, type, ids), from, relation, type)
<1> DEFINE order == SetToSeq(ids)
           links == [k \in DOMAIN order |-> Edge(from, relation, <<type, order[k]>>)]
<1>1. order \in [1..Cardinality(ids) -> ids] /\ Cardinality(ids) \in Nat
  BY Ordered
<1>2. PICK n \in Nat : DOMAIN order = 1..n
  BY <1>1
<1> HIDE DEF order
<1>3. links = LinkAll(from, relation, type, ids)
  BY DEF LinkAll, order
<1>4. links \in Seq({Edge(from, relation, <<type, order[k]>>) : k \in 1..n})
  <2>1. links \in [1..n -> {Edge(from, relation, <<type, order[k]>>) : k \in 1..n}]
    BY <1>2
  <2> QED
    BY <2>1
<1>5. \A e \in Range(links) : \E i : e = Edge(from, relation, <<type, i>>)
  BY DEF Range
<1> QED
  BY <1>3, <1>4, <1>5 DEF IsList, Links

LEMMA Optional ==
    ASSUME NEW condition \in BOOLEAN, NEW s, IsList(s)
    PROVE  /\ IsList(When(condition, s))
           /\ \A e : e \in Range(When(condition, s)) <=> condition /\ e \in Range(s)
<1>1. CASE condition
  BY <1>1 DEF When
<1>2. CASE ~condition
  BY <1>2, EmptyList DEF When
<1> QED
  BY <1>1, <1>2

\* Edges that neither leave a run nor lead to a decision.
Elsewhere(e) == e.from[1] # "run" /\ e.to[1] # "decision"
AllElsewhere(s) == IsList(s) /\ \A e \in Range(s) : Elsewhere(e)

LEMMA ElsewhereLinks ==
    ASSUME NEW from, from[1] # "run", NEW relation, NEW type, type # "decision", NEW ids, IsFiniteSet(ids)
    PROVE  AllElsewhere(LinkAll(from, relation, type, ids))
<1>1. \A i : <<type, i>>[1] # "decision"
  OBVIOUS
<1>2. \A i : Elsewhere(Edge(from, relation, <<type, i>>))
  BY <1>1 DEF Elsewhere, Edge
<1>3. PICK s : s = LinkAll(from, relation, type, ids)
  OBVIOUS
<1>4. IsList(s) /\ Links(s, from, relation, type)
  BY <1>3, Linked
<1>5. ASSUME NEW e \in Range(s)
      PROVE  Elsewhere(e)
  <2>1. PICK i : e = Edge(from, relation, <<type, i>>)
    BY <1>4 DEF Links
  <2> QED
    BY <1>2, <2>1
<1> QED
  BY <1>3, <1>4, <1>5 DEF AllElsewhere

LEMMA ElsewhereOne ==
    ASSUME NEW e, Elsewhere(e)
    PROVE  AllElsewhere(<<e>>)
  BY Singleton DEF AllElsewhere

LEMMA ElsewhereBoth ==
    ASSUME NEW s, NEW t, AllElsewhere(s), AllElsewhere(t)
    PROVE  AllElsewhere(s \o t)
  BY Concatenated DEF AllElsewhere

LEMMA ElsewhereWhen ==
    ASSUME NEW condition \in BOOLEAN, NEW s, AllElsewhere(s)
    PROVE  AllElsewhere(When(condition, s))
  BY Optional DEF AllElsewhere

\* The edges that leave a run.
Executes(r) == Edge(<<"run", r>>, "executes", <<"task", r>>)
Produced(r, p) == Edge(<<"run", r>>, "produced", <<"patch", ReviewedPatch(r, p)>>)
Decides(r) == Edge(<<"run", r>>, "decided", <<"decision", r>>)
Leaving(r, p) == {Executes(r), Produced(r, p)} \union Only(p.decision # NoRow, {Decides(r)})

LEMMA RunGraph ==
    ASSUME NEW r, NEW p, IsFiniteSet(p.findings)
    PROVE  /\ IsList(GraphOf(r, p))
           /\ \A e \in Range(GraphOf(r, p)) : e \in Leaving(r, p) \/ Elsewhere(e)
           /\ \A e \in Leaving(r, p) : e \in Range(GraphOf(r, p))
<1>1. PICK q : q = [run |-> r, task |-> r, locators |-> {}, hypothesis |-> <<"fix">>,
                    patch |-> <<ReviewedPatch(r, p)>>, files |-> {}, verified |-> TRUE, checks |-> {},
                    findings |-> p.findings,
                    decision |-> IF p.decision = NoRow THEN <<>> ELSE <<p.decision>>]
  OBVIOUS
<1>2. /\ q.run = r /\ q.task = r /\ q.locators = {} /\ q.hypothesis = <<"fix">>
      /\ q.patch = <<ReviewedPatch(r, p)>> /\ q.files = {} /\ q.verified = TRUE /\ q.checks = {}
      /\ q.findings = p.findings
      /\ q.decision = IF p.decision = NoRow THEN <<>> ELSE <<p.decision>>
  BY <1>1
<1>3. GraphOf(r, p) = BuildFromPipeline(q)
  BY <1>1 DEF GraphOf
<1> DEFINE run == <<"run", q.run>>
           task == <<"task", q.task>>
           reasoned == q.hypothesis # <<>>
           hypothesis == <<"hypothesis", q.hypothesis[1]>>
           patched == q.patch # <<>>
           patch == <<"patch", q.patch[1]>>
           decided == q.decision # <<>>
           verification == <<"verification", q.patch[1]>>
           Supports(l) == Edge(<<"evidence", l>>, "supports", hypothesis)
           locators == SetToSeq(q.locators)
           supports == [k \in DOMAIN locators |-> Supports(locators[k])]
           hypothesized == Edge(task, "hypothesized", hypothesis)
           produces == Edge(hypothesis, "produces", patch)
           checked == Edge(patch, "checked_by", verification)
           results == Edge(patch, "results_in", <<"result", q.decision[1]>>)
           retrieved == LinkAll(task, "retrieved", "evidence", q.locators)
           modifies == LinkAll(patch, "modifies", "file", q.files)
           includes == LinkAll(verification, "includes", "check", q.checks)
           criticized == LinkAll(patch, "criticized_by", "finding", q.findings)
           a1 == << Edge(run, "executes", task) >>
           a3 == When(reasoned, << hypothesized >> \o supports)
           a4 == When(reasoned /\ patched, << produces >>)
           a5 == When(patched, << Edge(run, "produced", patch) >> \o modifies)
           a6 == When(patched /\ q.verified, << checked >> \o includes)
           a7 == When(patched, criticized)
           a8 == When(patched /\ decided, << results >>)
           a9 == When(decided, << Edge(run, "decided", <<"decision", q.task>>) >>)
<1>4. BuildFromPipeline(q) = a1 \o retrieved \o a3 \o a4 \o a5 \o a6 \o a7 \o a8 \o a9
  BY DEF BuildFromPipeline
<1>5. /\ reasoned \in BOOLEAN /\ patched \in BOOLEAN /\ decided \in BOOLEAN
      /\ (reasoned /\ patched) \in BOOLEAN /\ (patched /\ decided) \in BOOLEAN
      /\ (patched /\ q.verified) \in BOOLEAN
  OBVIOUS
<1>6. patched /\ (decided <=> p.decision # NoRow)
  <2>1. \A x : <<x>> # <<>>
    OBVIOUS
  <2> QED
    BY <1>2, <2>1
<1>7. /\ Edge(run, "executes", task) = Executes(r)
      /\ Edge(run, "produced", patch) = Produced(r, p)
      /\ Edge(run, "decided", <<"decision", q.task>>) = Decides(r)
  BY <1>2 DEF Executes, Produced, Decides
<1>8. IsFiniteSet(q.locators) /\ IsFiniteSet(q.files) /\ IsFiniteSet(q.checks) /\ IsFiniteSet(q.findings)
  BY <1>2, FS_EmptySet
<1>9. Elsewhere(hypothesized) /\ Elsewhere(produces) /\ Elsewhere(checked) /\ Elsewhere(results)
  BY DEF Elsewhere, Edge
<1>10. task[1] # "run" /\ patch[1] # "run" /\ verification[1] # "run"
  OBVIOUS
<1>11. /\ AllElsewhere(retrieved) /\ AllElsewhere(modifies)
       /\ AllElsewhere(includes) /\ AllElsewhere(criticized)
  <2> HIDE DEF task, patch, verification
  <2>1. "evidence" # "decision" /\ "file" # "decision" /\ "check" # "decision" /\ "finding" # "decision"
    OBVIOUS
  <2> QED
    BY <1>8, <1>10, <2>1, ElsewhereLinks
<1>12. AllElsewhere(supports)
  <2>1. locators \in [1..Cardinality(q.locators) -> q.locators] /\ Cardinality(q.locators) \in Nat
    BY <1>8, Ordered
  <2>2. PICK n \in Nat : DOMAIN locators = 1..n
    BY <2>1
  <2>3. \A l : Elsewhere(Supports(l))
    BY DEF Elsewhere, Edge
  <2> HIDE DEF locators, Supports
  <2>4. DOMAIN supports = 1..n /\ \A k \in 1..n : supports[k] = Supports(locators[k])
    BY <2>2
  <2>5. supports \in Seq({Supports(locators[k]) : k \in 1..n})
    <3>1. supports \in [1..n -> {Supports(locators[k]) : k \in 1..n}]
      BY <2>2
    <3> QED
      BY <3>1
  <2>6. \A e \in Range(supports) : \E k \in 1..n : e = Supports(locators[k])
    BY <2>4 DEF Range
  <2> QED
    BY <2>3, <2>5, <2>6 DEF AllElsewhere, IsList
<1> HIDE DEF run, task, reasoned, hypothesis, patched, patch, decided, verification, supports, hypothesized,
             produces, checked, results, retrieved, modifies, includes, criticized
<1>13. AllElsewhere(a3) /\ AllElsewhere(a4)
  BY <1>5, <1>9, <1>12, ElsewhereOne, ElsewhereBoth, ElsewhereWhen
<1>14. AllElsewhere(a6)
  BY <1>5, <1>9, <1>11, ElsewhereOne, ElsewhereBoth, ElsewhereWhen
<1>15. AllElsewhere(a7) /\ AllElsewhere(a8)
  BY <1>5, <1>9, <1>11, ElsewhereOne, ElsewhereWhen
<1>16. IsList(a1) /\ \A e : e \in Range(a1) <=> e = Executes(r)
  BY <1>7, Singleton
<1>17. /\ IsList(a5) /\ Produced(r, p) \in Range(a5)
       /\ \A e \in Range(a5) : e = Produced(r, p) \/ Elsewhere(e)
  <2>1. IsList(<< Produced(r, p) >>) /\ Range(<< Produced(r, p) >>) = {Produced(r, p)}
    BY Singleton
  <2>2. a5 = << Produced(r, p) >> \o modifies
    BY <1>6, <1>7 DEF When
  <2> QED
    BY <1>11, <2>1, <2>2, Concatenated, ZenonT(60) DEF AllElsewhere
<1>18. /\ IsList(a9)
       /\ \A e : e \in Range(a9) <=> p.decision # NoRow /\ e = Decides(r)
  <2>1. IsList(<< Decides(r) >>) /\ Range(<< Decides(r) >>) = {Decides(r)}
    BY Singleton
  <2>2. a9 = When(decided, << Decides(r) >>)
    BY <1>7
  <2>3. IsList(a9) /\ \A e : e \in Range(a9) <=> decided /\ e \in Range(<< Decides(r) >>)
    BY <1>5, <2>1, <2>2, Optional
  <2> QED
    BY <1>6, <2>1, <2>3
<1> HIDE DEF a1, a3, a4, a5, a6, a7, a8, a9
<1> DEFINE b2 == a1 \o retrieved
           b4 == b2 \o a3 \o a4
           b5 == b4 \o a5
           b8 == b5 \o a6 \o a7 \o a8
           b9 == b8 \o a9
<1>19. /\ IsList(b2) /\ Executes(r) \in Range(b2)
       /\ \A e \in Range(b2) : e = Executes(r) \/ Elsewhere(e)
  BY <1>11, <1>16, Concatenated DEF AllElsewhere
<1> HIDE DEF b2
<1>20. /\ IsList(b4) /\ Executes(r) \in Range(b4)
       /\ \A e \in Range(b4) : e = Executes(r) \/ Elsewhere(e)
  BY <1>13, <1>19, Concatenated DEF AllElsewhere
<1> HIDE DEF b4
<1>21. /\ IsList(b5) /\ Executes(r) \in Range(b5) /\ Produced(r, p) \in Range(b5)
       /\ \A e \in Range(b5) : e \in {Executes(r), Produced(r, p)} \/ Elsewhere(e)
  BY <1>17, <1>20, Concatenated
<1> HIDE DEF b5
<1>22. /\ IsList(b8) /\ Executes(r) \in Range(b8) /\ Produced(r, p) \in Range(b8)
       /\ \A e \in Range(b8) : e \in {Executes(r), Produced(r, p)} \/ Elsewhere(e)
  BY <1>14, <1>15, <1>21, Concatenated DEF AllElsewhere
<1> HIDE DEF b8
<1>23. /\ IsList(b9)
       /\ \A e : e \in Range(b9) <=> e \in Range(b8) \/ e \in Range(a9)
  BY <1>18, <1>22, Concatenated
<1>24. GraphOf(r, p) = b9
  BY <1>3, <1>4 DEF b2, b4, b5, b8
<1> HIDE DEF b9
<1>25. \A e : e \in Leaving(r, p) <=> \/ e \in {Executes(r), Produced(r, p)}
                                      \/ e \in Range(a9)
  BY <1>18 DEF Leaving, Only
<1> QED
  BY <1>22, <1>23, <1>24, <1>25

-----------------------------------------------------------------------------
(***************************************************************************)
(* The writes of a run, step by step.                                      *)
(***************************************************************************)
Length(r, p) == Len(GraphOf(r, p))
EdgeWrite(r, p, k) == Write(16 + k, "provenance_edges", [id |-> <<r, k>>, edge |-> GraphOf(r, p)[k]])
Report(r, p) == Write(12, "verification_reports",
                      [id |-> <<PatchOf(r), 12>>, patch |-> PatchOf(r), passed |-> p.passed])
Candidate(r) == Write(10, "patch_candidates", [id |-> PatchOf(r), task |-> r, attempt |-> 1])
FindingWrite(r, p, f) == Write(14, "review_findings", [id |-> <<r, f>>, patch |-> ReviewedPatch(r, p)])
Decision(r, p) == Write(15, "final_decisions", [id |-> r, status |-> p.decision])
Opened(r) == Write(3, "task_runs", RunRow(r, "intake", NoRow))
Reviewed(r, p, s) == Write(16, "task_runs", RunRow(r, s, p.decision))
Closed(r, p) == Write(18 + Length(r, p), "task_runs", RunRow(r, ResultState(p), p.decision))

\* A write before the patch is verified.
Early(w, r, p) ==
    \/ w = Write(1, "repositories", [id |-> r])
    \/ w = Write(2, "tasks", [id |-> r, repo |-> r])
    \/ w = Opened(r)
    \/ w = Emit(r, 5, "state_change")
    \/ p.ends # "intake" /\ w = Emit(r, 6, "state_change")
    \/ /\ p.ends \notin {"intake", "retrieve"}
       /\ \/ w = Write(7, "evidence_items", [id |-> r, task |-> r])
          \/ w = Emit(r, 8, "state_change")
    \/ (p.ends \in {"verify", "all"} \/ p.invalid) /\ w = Emit(r, 9, "patch_generated")
    \/ p.ends \in {"verify", "all"} /\ w = Candidate(r)

\* A write after it.
Late(w, r, p) ==
    /\ p.ends = "all"
    /\ \/ w = Emit(r, 11, "verification_result")
       \/ w = Report(r, p)
       \/ p.decision # NoRow /\ w = Emit(r, 13, "review_complete")
       \/ \E f \in p.findings : w = FindingWrite(r, p, f)
       \/ p.decision # NoRow /\ w = Decision(r, p)
       \/ w = Reviewed(r, p, IF p.repair = "raised" \/ ~(p.decision # NoRow) THEN "failed" ELSE "reviewing")
       \/ \E k \in 1..Length(r, p) : w = EdgeWrite(r, p, k)
       \/ w = Emit(r, 17 + Length(r, p), "run_complete")

LEMMA ListLength ==
    ASSUME NEW s, IsList(s)
    PROVE  Len(s) \in Nat /\ DOMAIN s = 1..Len(s)
  BY DEF IsList

LEMMA ScriptTells ==
    ASSUME NEW r, NEW p, IsFiniteSet(p.findings), NEW w
    PROVE  w \in Script(r, p) <=> Early(w, r, p) \/ Late(w, r, p) \/ w = Closed(r, p)
<1>1. Length(r, p) \in Nat /\ DOMAIN GraphOf(r, p) = 1..Length(r, p)
  BY RunGraph, ListLength DEF Length
<1>2. w \in Opening(r) <=> \/ w = Write(1, "repositories", [id |-> r])
                           \/ w = Write(2, "tasks", [id |-> r, repo |-> r])
                           \/ w = Opened(r)
  BY DEF Opening, Opened
<1>3. w \in Closing(r, p, 18 + Len(GraphOf(r, p))) <=> w = Closed(r, p)
  BY DEF Closing, Closed, Length
<1>4. w \in Recording(r, p) <=> \/ \E k \in 1..Length(r, p) : w = EdgeWrite(r, p, k)
                                \/ w = Emit(r, 17 + Length(r, p), "run_complete")
  BY <1>1 DEF Recording, EdgeWrite, Length
<1>5. w \in Reviewing(r, p) <=>
         \/ w = Emit(r, 11, "verification_result")
         \/ w = Report(r, p)
         \/ p.decision # NoRow /\ w = Emit(r, 13, "review_complete")
         \/ \E f \in p.findings : w = FindingWrite(r, p, f)
         \/ p.decision # NoRow /\ w = Decision(r, p)
         \/ w = Reviewed(r, p, IF p.repair = "raised" \/ ~(p.decision # NoRow) THEN "failed" ELSE "reviewing")
  BY DEF Reviewing, Report, FindingWrite, Decision, Reviewed, Only
<1>6. w \in PipelineWrites(r, p) <=>
         \/ w = Emit(r, 5, "state_change")
         \/ p.ends # "intake" /\ w = Emit(r, 6, "state_change")
         \/ /\ p.ends \notin {"intake", "retrieve"}
            /\ \/ w = Write(7, "evidence_items", [id |-> r, task |-> r])
               \/ w = Emit(r, 8, "state_change")
         \/ (p.ends \in {"verify", "all"} \/ p.invalid) /\ w = Emit(r, 9, "patch_generated")
         \/ p.ends \in {"verify", "all"} /\ w = Candidate(r)
         \/ p.ends = "all" /\ (w \in Reviewing(r, p) \/ w \in Recording(r, p))
  BY DEF PipelineWrites, Candidate, Only
<1>7. w \in Script(r, p) <=> \/ w \in Opening(r) \/ w \in PipelineWrites(r, p)
                             \/ w \in Closing(r, p, 18 + Len(GraphOf(r, p)))
  BY DEF Script
<1> QED
  BY <1>2, <1>3, <1>4, <1>5, <1>6, <1>7, Zenon DEF Early, Late

Tables == {"repositories", "tasks", "task_runs", "evidence_items", "patch_candidates",
           "verification_reports", "review_findings", "provenance_edges", "run_events", "final_decisions"}

\* The table of a write tells its step and its row.
Placed(w, r, p) ==
    /\ w = Write(w.step, w.table, w.row) /\ w.step \in Nat /\ w.table \in Tables
    /\ w.table = "repositories" => w.step = 1 /\ w.row = [id |-> r]
    /\ w.table = "tasks" => w.step = 2 /\ w.row = [id |-> r, repo |-> r]
    /\ w.table = "task_runs" =>
          \/ w = Opened(r)
          \/ w.step = 16 /\ \E s \in {"failed", "reviewing"} : w.row = RunRow(r, s, p.decision)
          \/ w = Closed(r, p)
    /\ w.table = "evidence_items" => w.step = 7 /\ w.row = [id |-> r, task |-> r]
    /\ w.table = "patch_candidates" => w = Candidate(r)
    /\ w.table = "verification_reports" => w = Report(r, p)
    /\ w.table = "review_findings" => \E f \in p.findings : w = FindingWrite(r, p, f)
    /\ w.table = "provenance_edges" => \E k \in 1..Length(r, p) : w = EdgeWrite(r, p, k)
    /\ w.table = "run_events" => /\ w.row.id = <<r, w.step>> /\ w.row.run = r
                                 /\ w.step >= 5 /\ w.step <= 17 + Length(r, p)
    /\ w.table = "final_decisions" => w = Decision(r, p)

LEMMA GraphLength ==
    ASSUME NEW r, NEW p, IsFiniteSet(p.findings)
    PROVE  /\ Length(r, p) \in Nat /\ DOMAIN GraphOf(r, p) = 1..Length(r, p)
  BY RunGraph, ListLength DEF Length

LEMMA Placement ==
    ASSUME NEW r, NEW p, IsFiniteSet(p.findings), NEW w \in Script(r, p)
    PROVE  Placed(w, r, p)
<1>1. Length(r, p) \in Nat
  BY GraphLength
<1>2. CASE Early(w, r, p)
  BY <1>1, <1>2 DEF Early, Placed, Write, Emit, Candidate, Opened, Tables
<1>3. CASE Late(w, r, p)
  <2>1. CASE \E f \in p.findings : w = FindingWrite(r, p, f)
    BY <2>1 DEF Placed, FindingWrite, Write, Tables
  <2>2. CASE \E k \in 1..Length(r, p) : w = EdgeWrite(r, p, k)
    BY <1>1, <2>2 DEF Placed, EdgeWrite, Write, Tables
  <2>3. CASE w = Emit(r, 11, "verification_result") \/ w = Emit(r, 13, "review_complete")
             \/ w = Emit(r, 17 + Length(r, p), "run_complete")
    BY <1>1, <2>3 DEF Placed, Emit, Write, Tables
  <2>4. CASE w = Report(r, p) \/ w = Decision(r, p)
    BY <2>4 DEF Placed, Report, Decision, Write, Tables
  <2>5. CASE \E s \in {"failed", "reviewing"} : w = Reviewed(r, p, s)
    BY <2>5 DEF Placed, Reviewed, Write, Tables
  <2> QED
    BY <1>3, <2>1, <2>2, <2>3, <2>4, <2>5 DEF Late
<1>4. CASE w = Closed(r, p)
  BY <1>1, <1>4 DEF Placed, Closed, Write, Tables
<1> QED
  BY <1>2, <1>3, <1>4, ScriptTells

\* Only findings share a step.
LEMMA StepsTell ==
    ASSUME NEW r, NEW p, IsFiniteSet(p.findings), NEW w \in Script(r, p), NEW v \in Script(r, p),
           w.step = v.step
    PROVE  w = v \/ (w.table = "review_findings" /\ v.table = "review_findings")
<1>1. Length(r, p) \in Nat
  BY GraphLength
<1>2. /\ Early(w, r, p) \/ Late(w, r, p) \/ w = Closed(r, p)
      /\ Early(v, r, p) \/ Late(v, r, p) \/ v = Closed(r, p)
  BY ScriptTells
<1>3. /\ Early(w, r, p) => w.step \in Nat /\ w.step <= 10
      /\ Early(v, r, p) => v.step \in Nat /\ v.step <= 10
  BY DEF Early, Write, Emit, Candidate, Opened
<1>4. /\ Late(w, r, p) => w.step \in Nat /\ w.step > 10 /\ w.step < 18 + Length(r, p)
      /\ Late(v, r, p) => v.step \in Nat /\ v.step > 10 /\ v.step < 18 + Length(r, p)
  BY <1>1 DEF Late, Write, Emit, Report, FindingWrite, Decision, Reviewed, EdgeWrite
<1>5. Closed(r, p).step = 18 + Length(r, p)
  BY DEF Closed, Write
<1>6. CASE Early(w, r, p) /\ Early(v, r, p)
  BY <1>6 DEF Early, Write, Emit, Candidate, Opened
<1>7. CASE Late(w, r, p) /\ Late(v, r, p)
  BY <1>1, <1>7 DEF Late, Write, Emit, Report, FindingWrite, Decision, Reviewed, EdgeWrite
<1> QED
  BY <1>1, <1>2, <1>3, <1>4, <1>5, <1>6, <1>7

\* Two writes to a table have different keys, but for those of one run's row.
LEMMA KeysTell ==
    ASSUME NEW r, NEW p, IsFiniteSet(p.findings), NEW w \in Script(r, p),
           NEW q, NEW o, IsFiniteSet(o.findings), NEW v \in Script(q, o),
           w.table = v.table, w.row.id = v.row.id
    PROVE  q = r /\ (p = o /\ w.table # "task_runs" => w = v)
<1>1. Placed(w, r, p) /\ Placed(v, q, o)
  BY Placement
<1>2. CASE w.table \in {"repositories", "tasks", "evidence_items"}
  BY <1>1, <1>2 DEF Placed
<1>3. CASE w.table = "task_runs"
  BY <1>1, <1>3 DEF Placed, Opened, Closed, Write, RunRow
<1>4. CASE w.table \in {"patch_candidates", "verification_reports", "final_decisions"}
  BY <1>1, <1>4 DEF Placed, Candidate, Report, Decision, Write, PatchOf
<1>5. CASE w.table = "review_findings"
  BY <1>1, <1>5 DEF Placed, FindingWrite, Write
<1>6. CASE w.table = "provenance_edges"
  BY <1>1, <1>6 DEF Placed, EdgeWrite, Write
<1>7. CASE w.table = "run_events"
  <2>1. q = r /\ w.step = v.step
    BY <1>1, <1>7 DEF Placed
  <2>2. p = o => w = v
    BY <1>7, <2>1, StepsTell
  <2> QED
    BY <2>1, <2>2
<1> QED
  BY <1>1, <1>2, <1>3, <1>4, <1>5, <1>6, <1>7 DEF Placed, Tables

-----------------------------------------------------------------------------
(***************************************************************************)
(* A save.                                                                 *)
(***************************************************************************)
IsDatabase(d) == d = [t \in Tables |-> d[t]]

\* What a write makes of a table.
After(rows, t, w) ==
    IF t # w.table THEN rows
    ELSE IF t = "provenance_edges" THEN rows \union {w.row} ELSE Upsert(rows, w.row)

Saves(e, d, w) == IsDatabase(e) /\ \A t \in Tables : e[t] = After(d[t], t, w)

LEMMA SaveTells ==
    ASSUME NEW d, IsDatabase(d), NEW w, w.table \in Tables
    PROVE  Saves(Save(d, w), d, w)
<1>1. DOMAIN d = Tables
  BY DEF IsDatabase
<1> DEFINE e == [d EXCEPT ![w.table] = IF w.table = "provenance_edges" THEN @ \union {w.row}
                                       ELSE Upsert(@, w.row)]
<1>2. Save(d, w) = e
  BY DEF Tables, Save, SaveRepository, SaveTask, SaveRun, SaveEvidence, SavePatch, SaveVerificationReport,
         SaveFinding, SaveProvenanceEdge, SaveEvent, SaveFinalDecision
<1> HIDE DEF Tables
<1>3. IsDatabase(e)
  BY <1>1 DEF IsDatabase
<1>4. \A t \in Tables : e[t] = After(d[t], t, w)
  BY <1>1 DEF After
<1> QED
  BY <1>2, <1>3, <1>4 DEF Saves

LEMMA EmptyTells == IsDatabase(EmptyDatabase) /\ \A t \in Tables : EmptyDatabase[t] = {}
  BY DEF IsDatabase, EmptyDatabase, Tables

\* Of the writes a run has made, those that no later one has replaced.
Current(done) ==
    {w \in done : w.table = "task_runs" => \A v \in done : v.table = "task_runs" => v.step <= w.step}

\* The database holds the rows of the current writes, and no other rows.
Holds(d, D) ==
    /\ IsDatabase(d)
    /\ \A t \in Tables : \A x :
          x \in d[t] <=> \E r \in TaskRuns : \E w \in Current(D[r]) : w.table = t /\ w.row = x

Scripted(D, P) ==
    \A q \in TaskRuns : D[q] # {} => IsFiniteSet(P[q].findings) /\ D[q] \subseteq Script(q, P[q])

\* A write to be made after those done.
Newest(w, done) ==
    /\ w \notin done
    /\ w.table = "task_runs" => \A v \in done : v.table = "task_runs" => v.step < w.step

LEMMA Saved ==
    ASSUME NEW d, NEW D, NEW P, NEW r \in TaskRuns, NEW w,
           DOMAIN D = TaskRuns, Holds(d, D), Scripted(D, P),
           IsFiniteSet(P[r].findings), w \in Script(r, P[r]), Newest(w, D[r])
    PROVE  Holds(Save(d, w), [D EXCEPT ![r] = @ \union {w}])
<1>1. PICK E : E = [D EXCEPT ![r] = @ \union {w}]
  OBVIOUS
<1>2. E[r] = D[r] \union {w} /\ \A q \in TaskRuns \ {r} : E[q] = D[q]
  BY <1>1
<1>3. Placed(w, r, P[r])
  BY Placement
<1>4. w.table \in Tables /\ w.step \in Nat
  BY <1>3 DEF Placed
<1>5. PICK e : e = Save(d, w)
  OBVIOUS
<1>11. IsDatabase(e) /\ \A t \in Tables : e[t] = After(d[t], t, w)
  BY <1>4, <1>5, SaveTells DEF Holds, Saves
<1>6. ASSUME NEW q \in TaskRuns, NEW v \in Current(D[q])
      PROVE  v \in D[q] /\ Placed(v, q, P[q]) /\ v.step \in Nat
  BY <1>6, Placement DEF Current, Scripted, Placed
<1>7. ASSUME NEW t \in Tables, t # w.table, NEW x
      PROVE  x \in e[t] <=> \E q \in TaskRuns : \E v \in Current(E[q]) : v.table = t /\ v.row = x
  <2>1. x \in e[t] <=> \E q \in TaskRuns : \E v \in Current(D[q]) : v.table = t /\ v.row = x
    BY <1>7, <1>11 DEF Holds, After
  <2>2. \A v : v.table = t => (v \in Current(E[r]) <=> v \in Current(D[r]))
    BY <1>2, <1>7 DEF Current
  <2> QED
    BY <1>2, <2>1, <2>2
<1>8. ASSUME w.table # "task_runs", NEW x
      PROVE  x \in e[w.table] <=>
                \E q \in TaskRuns : \E v \in Current(E[q]) : v.table = w.table /\ v.row = x
  <2>1. \A y \in d[w.table] : y.id # w.row.id
    <3> SUFFICES ASSUME NEW y \in d[w.table], y.id = w.row.id
                 PROVE  FALSE
      OBVIOUS
    <3>1. PICK q \in TaskRuns : \E v \in Current(D[q]) : v.table = w.table /\ v.row = y
      BY <1>4 DEF Holds
    <3>2. PICK v \in Current(D[q]) : v.table = w.table /\ v.row = y
      BY <3>1
    <3>3. v \in D[q] /\ IsFiniteSet(P[q].findings) /\ v \in Script(q, P[q])
      BY DEF Current, Scripted
    <3>4. q = r
      BY <3>2, <3>3, KeysTell
    <3>5. w = v
      BY <1>8, <3>2, <3>3, <3>4, KeysTell
    <3> QED
      BY <3>3, <3>4, <3>5 DEF Newest
  <2>2. x \in e[w.table] <=> x \in d[w.table] \/ x = w.row
    BY <1>4, <1>8, <1>11, <2>1, ZenonT(60) DEF After, Upsert
  <2>3. x \in d[w.table] <=> \E q \in TaskRuns : \E v \in Current(D[q]) : v.table = w.table /\ v.row = x
    BY <1>4 DEF Holds
  <2>4. \A v : v.table = w.table => (v \in Current(E[r]) <=> v \in Current(D[r]) \/ v = w)
    BY <1>2, <1>8 DEF Current
  <2> QED
    BY <1>2, <2>2, <2>3, <2>4
<1>9. ASSUME w.table = "task_runs", NEW x
      PROVE  x \in e[w.table] <=>
                \E q \in TaskRuns : \E v \in Current(E[q]) : v.table = w.table /\ v.row = x
  <2>1. x \in e[w.table] <=> (x \in d[w.table] /\ x.id # w.row.id) \/ x = w.row
    <3>1. e[w.table] = Upsert(d[w.table], w.row)
      BY <1>4, <1>9, <1>11 DEF After
    <3> QED
      BY <3>1 DEF Upsert
  <2>2. x \in d[w.table] <=> \E q \in TaskRuns : \E v \in Current(D[q]) : v.table = w.table /\ v.row = x
    BY <1>4 DEF Holds
  <2>3. \A v : v.table = w.table => (v \in Current(E[r]) <=> v = w)
    <3>1. \A v \in D[r] : v.table = "task_runs" => v.step < w.step /\ v.step \in Nat
      <4>1. \A v \in D[r] : v.step \in Nat
        BY Placement DEF Scripted, Placed
      <4> QED
        BY <1>9, <4>1 DEF Newest
    <3> QED
      BY <1>2, <1>4, <1>9, <3>1 DEF Current
  <2>4. ASSUME NEW q \in TaskRuns, NEW v \in Current(D[q]), v.table = w.table
        PROVE  v.row.id = q
    <3>1. Placed(v, q, P[q])
      BY <1>6
    <3> QED
      BY <1>9, <2>4, <3>1 DEF Placed, Opened, Closed, Write, RunRow
  <2>5. w.row.id = r
    BY <1>3, <1>9 DEF Placed, Opened, Closed, Write, RunRow
  <2> QED
    <3>1. CASE x = w.row
      <4>1. w \in Current(E[r])
        BY <2>3
      <4> QED
        BY <2>1, <3>1, <4>1
    <3>2. CASE x # w.row
      <4>1. ASSUME NEW q \in TaskRuns, NEW v \in Current(E[q]), v.table = w.table, v.row = x
            PROVE  x \in e[w.table]
        <5>1. q # r
          BY <2>3, <3>2, <4>1
        <5>2. v \in Current(D[q])
          BY <1>2, <4>1, <5>1
        <5>3. x.id # w.row.id
          BY <2>4, <2>5, <4>1, <5>1, <5>2
        <5> QED
          BY <2>1, <2>2, <4>1, <5>2, <5>3
      <4>2. ASSUME x \in e[w.table]
            PROVE  \E q \in TaskRuns : \E v \in Current(E[q]) : v.table = w.table /\ v.row = x
        <5>1. x \in d[w.table] /\ x.id # r
          BY <2>1, <2>5, <3>2, <4>2
        <5>2. PICK q \in TaskRuns : \E v \in Current(D[q]) : v.table = w.table /\ v.row = x
          BY <2>2, <5>1
        <5>3. q # r
          BY <2>4, <5>1, <5>2
        <5> QED
          BY <1>2, <5>2, <5>3
      <4> QED
        BY <4>1, <4>2
    <3> QED
      BY <3>1, <3>2
<1>10. \A t \in Tables : \A x :
          x \in e[t] <=> \E q \in TaskRuns : \E v \in Current(E[q]) : v.table = t /\ v.row = x
  BY <1>7, <1>8, <1>9
<1> QED
  BY <1>1, <1>5, <1>10, <1>11 DEF Holds

-----------------------------------------------------------------------------
(***************************************************************************)
(* How far a run is.                                                       *)
(***************************************************************************)
LEMMA PlanFacts ==
    ASSUME NEW p \in Plans
    PROVE  /\ IsFiniteSet(p.findings) /\ p.ends \in Stages /\ p.graph \in BOOLEAN
           /\ p.ends # "all" => p.decision = NoRow
           /\ p.decision = NoRow => p.findings = {}
           /\ p.decision # NoRow => p.decision \in {"verified_candidate", "rejected", "needs_review"}
           /\ p # NoRow
<1>1. p.findings \subseteq Findings
  BY DEF Plans
<1> QED
  BY <1>1, FindingsAssumption, NoRowAssumption, FS_Subset DEF Plans

LEMMA GraphlessPlan ==
    ASSUME NEW p \in Plans
    PROVE  /\ [p EXCEPT !.graph = FALSE] \in Plans
           /\ \A r : Script(r, [p EXCEPT !.graph = FALSE]) = Script(r, p)
<1>1. PICK o : o = [p EXCEPT !.graph = FALSE]
  OBVIOUS
<1>2. o \in Plans
  BY <1>1 DEF Plans
<1>3. /\ o.ends = p.ends /\ o.invalid = p.invalid /\ o.passed = p.passed /\ o.repair = p.repair
      /\ o.findings = p.findings /\ o.decision = p.decision
  BY <1>1 DEF Plans
<1>4. ASSUME NEW r
      PROVE  Script(r, o) = Script(r, p)
  <2>1. ReviewedPatch(r, o) = ReviewedPatch(r, p) /\ ResultState(o) = ResultState(p)
    BY <1>3 DEF ReviewedPatch, ResultState
  <2>2. GraphOf(r, o) = GraphOf(r, p)
    BY <1>3, <2>1 DEF GraphOf
  <2>3. Reviewing(r, o) = Reviewing(r, p)
    BY <1>3, <2>1 DEF Reviewing
  <2>4. PipelineWrites(r, o) = PipelineWrites(r, p)
    BY <1>3, <2>2, <2>3 DEF PipelineWrites, Recording
  <2> QED
    BY <1>3, <2>1, <2>2, <2>4 DEF Script, Closing
<1> QED
  BY <1>1, <1>2, <1>4

\* A write that a run whose graph was not stored may leave out.
Skipped(w, p) == w.table = "provenance_edges" /\ ~p.graph

\* What a run has done reaches back to its first write, and what it has still to do, unless it
\* was abandoned, is the rest.
Course(done, todo, r, p) ==
    /\ done \subseteq Script(r, p) /\ todo \subseteq Script(r, p) /\ done \cap todo = {}
    /\ \A w \in done, v \in Script(r, p) : v.step < w.step => v \in done \/ Skipped(v, p)
    /\ todo # {} => \A v \in Script(r, p) : v \in done \/ v \in todo \/ Skipped(v, p)

LEMMA CourseStarts ==
    ASSUME NEW r, NEW p
    PROVE  Course({}, Script(r, p), r, p)
  BY DEF Course

LEMMA CourseStops ==
    ASSUME NEW r, NEW p, NEW done, NEW todo, Course(done, todo, r, p)
    PROVE  Course(done, {}, r, p)
  BY DEF Course

First(w, todo) == w \in todo /\ \A v \in todo : w.step <= v.step

LEMMA CourseGoesOn ==
    ASSUME NEW r, NEW p \in Plans, NEW done, NEW todo, Course(done, todo, r, p), NEW w, First(w, todo)
    PROVE  /\ Course(done \union {w}, todo \ {w}, r, p)
           /\ w \in Script(r, p) /\ Newest(w, done)
<1>1. w \in Script(r, p) /\ w \notin done
  BY DEF Course, First
<1>2. \A v \in Script(r, p) : v.step \in Nat
  BY PlanFacts, Placement DEF Placed
<1>3. ASSUME NEW v \in Script(r, p), v.step < w.step
      PROVE  v \in done \/ Skipped(v, p)
  BY <1>1, <1>2, <1>3 DEF Course, First
<1>4. Course(done \union {w}, todo \ {w}, r, p)
  BY <1>1, <1>3 DEF Course, First
<1>5. ASSUME w.table = "task_runs", NEW v \in done, v.table = "task_runs"
      PROVE  v.step < w.step
  <2>1. v \in Script(r, p) /\ v # w
    BY <1>1 DEF Course
  <2>2. v.step # w.step
    BY <1>1, <1>5, <2>1, PlanFacts, StepsTell
  <2>3. ~(w.step < v.step)
    BY <1>1, <1>5 DEF Course, Skipped
  <2> QED
    BY <1>1, <1>2, <2>1, <2>2, <2>3
<1> QED
  BY <1>1, <1>4, <1>5 DEF Newest

LEMMA CourseLosesGraph ==
    ASSUME NEW r, NEW p \in Plans, NEW done, NEW todo, Course(done, todo, r, p), NEW o,
           o = [p EXCEPT !.graph = FALSE]
    PROVE  Course(done, {w \in todo : w.table # "provenance_edges"}, r, o)
<1>1. Script(r, o) = Script(r, p) /\ ~o.graph
  BY GraphlessPlan DEF Plans
<1> QED
  BY <1>1 DEF Course, Skipped

-----------------------------------------------------------------------------
(***************************************************************************)
(* The inductive invariant: D[r] are the writes that run r has made.       *)
(***************************************************************************)
Made(D) ==
    /\ DOMAIN D = TaskRuns /\ DOMAIN script = TaskRuns /\ DOMAIN plan = TaskRuns
    /\ \A r \in TaskRuns :
          IF plan[r] = NoRow THEN D[r] = {} /\ script[r] = {}
          ELSE plan[r] \in Plans /\ Course(D[r], script[r], r, plan[r])
    /\ Holds(db, D)
    /\ IsFiniteSet(db.task_runs)

StoreInv == \E D : Made(D)

LEMMA StoreStarts == StoreInit => StoreInv
<1> SUFFICES ASSUME StoreInit
             PROVE  StoreInv
  OBVIOUS
<1> DEFINE D == [r \in TaskRuns |-> {}]
<1>1. IsDatabase(db) /\ (\A t \in Tables : db[t] = {}) /\ db.task_runs = {}
  BY EmptyTells DEF StoreInit, EmptyDatabase
<1>2. Current({}) = {}
  BY DEF Current
<1>3. Holds(db, D)
  BY <1>1, <1>2 DEF Holds
<1>4. IsFiniteSet(db.task_runs)
  BY <1>1, FS_EmptySet
<1>5. Made(D)
  BY <1>3, <1>4 DEF Made, StoreInit
<1> QED
  BY <1>5 DEF StoreInv

LEMMA StartingStores == ASSUME StoreInv, NEW r \in TaskRuns, CreateRun(r) PROVE StoreInv'
<1>1. PICK D : Made(D)
  BY DEF StoreInv
<1>2. PICK p \in Plans : /\ plan' = [plan EXCEPT ![r] = p]
                         /\ script' = [script EXCEPT ![r] = Script(r, p)]
  BY DEF CreateRun
<1>3. plan[r] = NoRow /\ db' = db
  BY DEF CreateRun
<1>4. D[r] = {} /\ p # NoRow
  BY <1>1, <1>3, PlanFacts DEF Made
<1>5. Course(D[r], Script(r, p), r, p)
  BY <1>4, CourseStarts
<1>6. Made(D)'
  BY <1>1, <1>2, <1>3, <1>4, <1>5 DEF Made
<1> QED
  BY <1>6 DEF StoreInv

LEMMA SavingStores == ASSUME StoreInv, NEW r \in TaskRuns, SaveNext(r) PROVE StoreInv'
<1>1. PICK D : Made(D)
  BY DEF StoreInv
<1>2. PICK w : /\ w \in Due(r) /\ db' = Save(db, w)
               /\ script' = [script EXCEPT ![r] = @ \ {w}]
  BY DEF SaveNext
<1>3. First(w, script[r]) /\ plan' = plan
  BY <1>2 DEF Due, First, SaveNext
<1>4. plan[r] # NoRow /\ plan[r] \in Plans /\ Course(D[r], script[r], r, plan[r])
  BY <1>1, <1>3 DEF Made, First
<1>5. /\ Course(D[r] \union {w}, script[r] \ {w}, r, plan[r])
      /\ w \in Script(r, plan[r]) /\ Newest(w, D[r])
  BY <1>3, <1>4, CourseGoesOn
<1>6. Scripted(D, plan) /\ IsFiniteSet(plan[r].findings)
  <2>1. ASSUME NEW q \in TaskRuns, D[q] # {}
        PROVE  IsFiniteSet(plan[q].findings) /\ D[q] \subseteq Script(q, plan[q])
    <3>1. plan[q] \in Plans /\ Course(D[q], script[q], q, plan[q])
      BY <1>1, <2>1 DEF Made
    <3> QED
      BY <3>1, PlanFacts DEF Course
  <2> QED
    BY <1>4, <2>1, PlanFacts DEF Scripted
<1>7. PICK E : E = [D EXCEPT ![r] = @ \union {w}]
  OBVIOUS
<1>8. Holds(db, D) /\ DOMAIN D = TaskRuns
  BY <1>1 DEF Made
<1>9. Holds(db', E)
  BY <1>2, <1>5, <1>6, <1>7, <1>8, Saved
<1>10. IsFiniteSet(db'.task_runs)
  <2>1. w.table \in Tables
    BY <1>4, <1>5, PlanFacts, Placement DEF Placed
  <2>2. PICK e : e = Save(db, w)
    OBVIOUS
  <2>3. Saves(e, db, w)
    BY <1>8, <2>1, <2>2, SaveTells DEF Holds
  <2>4. e["task_runs"] = After(db["task_runs"], "task_runs", w)
    BY <2>3 DEF Saves, Tables
  <2>5. e.task_runs \subseteq db.task_runs \union {w.row}
    BY <2>4 DEF After, Upsert
  <2>6. IsFiniteSet(db.task_runs \union {w.row})
    BY <1>1, FS_AddElement DEF Made
  <2> QED
    BY <1>2, <2>2, <2>5, <2>6, FS_Subset
<1>11. Made(E)'
  BY <1>1, <1>2, <1>3, <1>4, <1>5, <1>7, <1>9, <1>10 DEF Made
<1> QED
  BY <1>11 DEF StoreInv

LEMMA FailingStores == ASSUME StoreInv, NEW r \in TaskRuns, GraphFails(r) PROVE StoreInv'
<1>1. PICK D : Made(D)
  BY DEF StoreInv
<1>2. /\ script[r] # {} /\ db' = db
      /\ script' = [script EXCEPT ![r] = {w \in @ : w.table # "provenance_edges"}]
      /\ plan' = [plan EXCEPT ![r].graph = FALSE]
  BY DEF GraphFails, Due
<1>3. plan[r] \in Plans /\ Course(D[r], script[r], r, plan[r])
  BY <1>1, <1>2 DEF Made
<1>4. PICK o : o = [plan[r] EXCEPT !.graph = FALSE]
  OBVIOUS
<1>5. o \in Plans /\ o # NoRow
  BY <1>3, <1>4, GraphlessPlan, PlanFacts
<1>6. Course(D[r], {w \in script[r] : w.table # "provenance_edges"}, r, o)
  BY <1>3, <1>4, CourseLosesGraph
<1>7. /\ plan'[r] = o /\ script'[r] = {w \in script[r] : w.table # "provenance_edges"}
      /\ DOMAIN plan' = TaskRuns /\ DOMAIN script' = TaskRuns
      /\ \A q \in TaskRuns \ {r} : plan'[q] = plan[q] /\ script'[q] = script[q]
  BY <1>1, <1>2, <1>4 DEF Made
<1>8. Made(D)'
  BY <1>1, <1>2, <1>5, <1>6, <1>7 DEF Made
<1> QED
  BY <1>8 DEF StoreInv

LEMMA AbandoningStores == ASSUME StoreInv, NEW r \in TaskRuns, Abandon(r) PROVE StoreInv'
<1>1. PICK D : Made(D)
  BY DEF StoreInv
<1>2. script[r] # {} /\ db' = db /\ plan' = plan /\ script' = [script EXCEPT ![r] = {}]
  BY DEF Abandon
<1>3. plan[r] # NoRow /\ Course(D[r], script[r], r, plan[r])
  BY <1>1, <1>2 DEF Made
<1>4. Course(D[r], {}, r, plan[r])
  BY <1>3, CourseStops
<1>5. Made(D)'
  BY <1>1, <1>2, <1>3, <1>4 DEF Made
<1> QED
  BY <1>5 DEF StoreInv

LEMMA StoreKeeps == StoreInv /\ [StoreNext]_storeVars => StoreInv'
<1> SUFFICES ASSUME StoreInv, [StoreNext]_storeVars
             PROVE  StoreInv'
  OBVIOUS
<1>1. CASE UNCHANGED <<db, script, plan>>
  BY <1>1 DEF StoreInv, Made
<1>2. ASSUME NEW r \in TaskRuns, CreateRun(r) \/ SaveNext(r) \/ GraphFails(r) \/ Abandon(r)
      PROVE  StoreInv'
  BY <1>2, StartingStores, SavingStores, FailingStores, AbandoningStores
<1>3. ASSUME NEW u \in Deleters, (\E r \in TaskRuns : DeleteBegin(u, r)) \/ DeleteFails(u)
      PROVE  StoreInv'
  BY <1>1, <1>3 DEF DeleteBegin, DeleteFails
<1> QED
  BY <1>1, <1>2, <1>3 DEF StoreNext, storeVars

-----------------------------------------------------------------------------
(***************************************************************************)
(* What the database shows.                                                *)
(***************************************************************************)
LEMMA RowFound ==
    ASSUME NEW rows, NoRow \notin rows, NEW x \in rows
    PROVE  /\ RowOf(rows, x.id) \in rows /\ RowOf(rows, x.id).id = x.id /\ RowOf(rows, x.id) # NoRow
           /\ (\A y \in rows : y.id = x.id => y = x) => RowOf(rows, x.id) = x
<1>1. PICK y : y = RowOf(rows, x.id)
  OBVIOUS
<1>2. y \in rows /\ y.id = x.id
  BY <1>1 DEF RowOf
<1> QED
  BY <1>1, <1>2

\* A row comes from a write, and the write from a run that has made all its earlier ones.
From(x, t, D, q, w) ==
    /\ w \in Current(D[q]) /\ w \in D[q] /\ w.table = t /\ w.row = x
    /\ plan[q] \in Plans /\ Course(D[q], script[q], q, plan[q])
    /\ w \in Script(q, plan[q]) /\ Placed(w, q, plan[q])

LEMMA RowsAreWritten ==
    ASSUME NEW D, Made(D), NEW t \in Tables, NEW x \in db[t]
    PROVE  (\E q \in TaskRuns : \E w : From(x, t, D, q, w)) /\ x # NoRow
<1>1. PICK q \in TaskRuns : \E w \in Current(D[q]) : w.table = t /\ w.row = x
  BY DEF Made, Holds
<1>2. PICK w \in Current(D[q]) : w.table = t /\ w.row = x
  BY <1>1
<1>3. w \in D[q]
  BY DEF Current
<1>4. plan[q] \in Plans /\ Course(D[q], script[q], q, plan[q])
  BY <1>3 DEF Made
<1>5. w \in Script(q, plan[q]) /\ Placed(w, q, plan[q])
  BY <1>3, <1>4, PlanFacts, Placement DEF Course
<1>6. x # NoRow
  BY <1>2, <1>4, <1>5, NoRowAssumption
<1> QED
  BY <1>2, <1>3, <1>4, <1>5, <1>6 DEF From

LEMMA WritesAreStored ==
    ASSUME NEW D, Made(D), NEW q \in TaskRuns, NEW w \in D[q], w.table # "task_runs", w.table \in Tables
    PROVE  w.row \in db[w.table]
<1>1. w \in Current(D[q])
  BY DEF Current
<1> QED
  BY <1>1 DEF Made, Holds

LEMMA EarlierIsStored ==
    ASSUME NEW D, Made(D), NEW q \in TaskRuns, NEW w \in D[q], plan[q] \in Plans,
           Course(D[q], script[q], q, plan[q]),
           NEW v \in Script(q, plan[q]), v.step < w.step, v.table # "provenance_edges"
    PROVE  v \in D[q] /\ (v.table # "task_runs" => v.row \in db[v.table])
<1>1. v \in D[q]
  BY DEF Course, Skipped
<1>2. v.table \in Tables
  BY PlanFacts, Placement DEF Placed
<1> QED
  BY <1>1, <1>2, WritesAreStored

LEMMA NoNullRows == ASSUME NEW D, Made(D), NEW t \in Tables PROVE NoRow \notin db[t]
  BY RowsAreWritten

\* A run that has its row keeps one.
LEMMA RunIsStored ==
    ASSUME NEW D, Made(D), NEW q \in TaskRuns, Opened(q) \in D[q]
    PROVE  \E x \in db.task_runs : x.id = q
<1>1. plan[q] \in Plans /\ Course(D[q], script[q], q, plan[q])
  BY DEF Made
<1> DEFINE W == {w \in D[q] : w.table = "task_runs"}
<1>2. \A w \in W : w \in Script(q, plan[q]) /\ Placed(w, q, plan[q]) /\ w.step \in Nat /\ w.row.id = q
  <2>1. ASSUME NEW w \in W
        PROVE  w \in Script(q, plan[q]) /\ Placed(w, q, plan[q])
    BY <1>1, PlanFacts, Placement DEF Course
  <2>2. ASSUME NEW w \in W
        PROVE  w.step \in Nat /\ w.row.id = q
    BY <2>1, <2>2 DEF Placed, Opened, Closed, Write, RunRow
  <2> QED
    BY <2>1, <2>2
<1>3. Length(q, plan[q]) \in Nat
  BY <1>1, PlanFacts, GraphLength
<1>4. \A w \in W : w.step = 3 \/ w.step = 16 \/ w.step = 18 + Length(q, plan[q])
  BY <1>2 DEF Placed, Opened, Closed, Write
<1>5. Opened(q) \in W /\ Opened(q).step = 3
  BY DEF Opened, Write
<1>6. PICK w \in W : \A v \in W : v.step <= w.step
  <2>1. CASE \E w \in W : w.step = 18 + Length(q, plan[q])
    BY <1>3, <1>4, <2>1
  <2>2. CASE (\E w \in W : w.step = 16) /\ ~(\E w \in W : w.step = 18 + Length(q, plan[q]))
    BY <1>3, <1>4, <2>2
  <2>3. CASE ~(\E w \in W : w.step = 16) /\ ~(\E w \in W : w.step = 18 + Length(q, plan[q]))
    BY <1>3, <1>4, <1>5, <2>3
  <2> QED
    BY <2>1, <2>2, <2>3
<1>7. w \in Current(D[q]) /\ w.table = "task_runs" /\ w.row.id = q
  BY <1>2, <1>6 DEF Current
<1>8. w.row \in db["task_runs"]
  <2>1. "task_runs" \in Tables
    BY DEF Tables
  <2> QED
    BY <1>7, <2>1 DEF Made, Holds
<1> QED
  BY <1>7, <1>8

LEMMA References == ASSUME NEW D, Made(D) PROVE ReferencesResolve
<1>1. /\ NoRow \notin db.repositories /\ NoRow \notin db.tasks /\ NoRow \notin db.task_runs
      /\ NoRow \notin db.patch_candidates
  <2>1. {"repositories", "tasks", "task_runs", "patch_candidates"} \subseteq Tables
    BY DEF Tables
  <2> QED
    BY <2>1, NoNullRows
<1>2. ASSUME NEW q \in TaskRuns, NEW w \in D[q], plan[q] \in Plans, Course(D[q], script[q], q, plan[q])
      PROVE  /\ w.step > 1 => GetRepository(db, q) # NoRow
             /\ w.step > 2 => GetTask(db, q) # NoRow
             /\ w.step > 3 => GetRun(db, q) # NoRow
  <2>1. IsFiniteSet(plan[q].findings)
    BY <1>2, PlanFacts
  <2>2. PICK v1 : v1 = Write(1, "repositories", [id |-> q])
    OBVIOUS
  <2>3. PICK v2 : v2 = Write(2, "tasks", [id |-> q, repo |-> q])
    OBVIOUS
  <2>4. PICK v3 : v3 = Opened(q)
    OBVIOUS
  <2>5. v1 \in Script(q, plan[q]) /\ v2 \in Script(q, plan[q]) /\ v3 \in Script(q, plan[q])
    BY <2>1, <2>2, <2>3, <2>4, ScriptTells DEF Early
  <2>6. /\ v1.step = 1 /\ v1.table = "repositories" /\ v1.row.id = q
        /\ v2.step = 2 /\ v2.table = "tasks" /\ v2.row.id = q
        /\ v3.step = 3 /\ v3.table = "task_runs"
    BY <2>2, <2>3, <2>4 DEF Opened, Write
  <2>7. ASSUME w.step > 1
        PROVE  GetRepository(db, q) # NoRow
    <3>1. v1.row \in db.repositories
      BY <1>2, <2>5, <2>6, <2>7, EarlierIsStored
    <3> QED
      BY <1>1, <2>6, <3>1, RowFound DEF GetRepository
  <2>8. ASSUME w.step > 2
        PROVE  GetTask(db, q) # NoRow
    <3>1. v2.row \in db.tasks
      BY <1>2, <2>5, <2>6, <2>8, EarlierIsStored
    <3> QED
      BY <1>1, <2>6, <3>1, RowFound DEF GetTask
  <2>9. ASSUME w.step > 3
        PROVE  GetRun(db, q) # NoRow
    <3>1. v3 \in D[q]
      BY <1>2, <2>5, <2>6, <2>9, EarlierIsStored
    <3>2. PICK x \in db.task_runs : x.id = q
      BY <2>4, <3>1, RunIsStored
    <3> QED
      BY <1>1, <3>2, RowFound DEF GetRun
  <2> QED
    BY <2>7, <2>8, <2>9
<1>3. ASSUME NEW t \in Tables, NEW x \in db[t]
      PROVE  \E q \in TaskRuns : \E w : From(x, t, D, q, w)
  BY <1>3, RowsAreWritten
<1>4. ASSUME NEW x \in db.tasks
      PROVE  GetRepository(db, x.repo) # NoRow
  <2>1. PICK q \in TaskRuns : \E w : From(x, "tasks", D, q, w)
    BY <1>3 DEF Tables
  <2>2. PICK w : From(x, "tasks", D, q, w)
    BY <2>1
  <2>3. w.step > 1 /\ x.repo = q
    BY <2>2 DEF From, Placed
  <2> QED
    BY <1>2, <2>2, <2>3 DEF From
<1>5. ASSUME NEW x \in db.task_runs
      PROVE  GetTask(db, x.task) # NoRow /\ GetRepository(db, x.repo) # NoRow
  <2>1. PICK q \in TaskRuns : \E w : From(x, "task_runs", D, q, w)
    BY <1>3 DEF Tables
  <2>2. PICK w : From(x, "task_runs", D, q, w)
    BY <2>1
  <2>3. w.step > 2 /\ x.task = q /\ x.repo = q
    <3>1. Length(q, plan[q]) \in Nat
      BY <2>2, PlanFacts, GraphLength DEF From
    <3> QED
      BY <2>2, <3>1 DEF From, Placed, Opened, Closed, Write, RunRow
  <2>4. w.step > 1
    BY <2>2, <2>3 DEF From, Placed
  <2> QED
    BY <1>2, <2>2, <2>3, <2>4 DEF From
<1>6. ASSUME NEW x \in db.patch_candidates \union db.evidence_items
      PROVE  GetTask(db, x.task) # NoRow
  <2>1. PICK t \in {"patch_candidates", "evidence_items"} : x \in db[t]
    OBVIOUS
  <2>2. PICK q \in TaskRuns : \E w : From(x, t, D, q, w)
    BY <1>3, <2>1 DEF Tables
  <2>3. PICK w : From(x, t, D, q, w)
    BY <2>2
  <2>4. w.step > 2 /\ x.task = q
    BY <2>3 DEF From, Placed, Candidate, Write
  <2> QED
    BY <1>2, <2>3, <2>4 DEF From
<1>7. ASSUME NEW x \in db.verification_reports
      PROVE  RowOf(db.patch_candidates, x.patch) # NoRow
  <2>1. PICK q \in TaskRuns : \E w : From(x, "verification_reports", D, q, w)
    BY <1>3 DEF Tables
  <2>2. PICK w : From(x, "verification_reports", D, q, w)
    BY <2>1
  <2>3. w = Report(q, plan[q]) /\ w.step = 12 /\ x.patch = PatchOf(q)
    BY <2>2 DEF From, Placed, Report, Write
  <2>4. plan[q].ends = "all"
    <3>1. Early(w, q, plan[q]) \/ Late(w, q, plan[q]) \/ w = Closed(q, plan[q])
      BY <2>2, PlanFacts, ScriptTells DEF From
    <3>2. w.table = "verification_reports"
      BY <2>2 DEF From
    <3>3. ~Early(w, q, plan[q])
      BY <3>2 DEF Early, Write, Emit, Candidate, Opened
    <3>4. w # Closed(q, plan[q])
      BY <3>2 DEF Closed, Write
    <3> QED
      BY <3>1, <3>3, <3>4 DEF Late
  <2>5. Candidate(q) \in Script(q, plan[q])
    BY <2>2, <2>4, PlanFacts, ScriptTells DEF From, Early
  <2>6. PICK v : v = Candidate(q)
    OBVIOUS
  <2>7. v.step < w.step /\ v.table = "patch_candidates" /\ v.row.id = PatchOf(q)
    BY <2>3, <2>6 DEF Candidate, Write
  <2>8. v.row \in db.patch_candidates
    BY <2>2, <2>5, <2>6, <2>7, EarlierIsStored DEF From
  <2> QED
    BY <1>1, <2>3, <2>7, <2>8, RowFound
<1>8. ASSUME NEW x \in db.run_events
      PROVE  GetRun(db, x.run) # NoRow
  <2>1. PICK q \in TaskRuns : \E w : From(x, "run_events", D, q, w)
    BY <1>3 DEF Tables
  <2>2. PICK w : From(x, "run_events", D, q, w)
    BY <2>1
  <2>3. w.step > 3 /\ x.run = q
    BY <2>2 DEF From, Placed
  <2> QED
    BY <1>2, <2>2, <2>3 DEF From
<1>9. ASSUME NEW x \in db.final_decisions
      PROVE  GetTask(db, x.id) # NoRow
  <2>1. PICK q \in TaskRuns : \E w : From(x, "final_decisions", D, q, w)
    BY <1>3 DEF Tables
  <2>2. PICK w : From(x, "final_decisions", D, q, w)
    BY <2>1
  <2>3. w.step > 2 /\ x.id = q
    BY <2>2 DEF From, Placed, Decision, Write
  <2> QED
    BY <1>2, <2>2, <2>3 DEF From
<1>10. ASSUME NEW x \in db.review_findings, RowOf(db.patch_candidates, x.patch) = NoRow
       PROVE  plan[x.id[1]].repair = "found"
  <2>1. PICK q \in TaskRuns : \E w : From(x, "review_findings", D, q, w)
    BY <1>3 DEF Tables
  <2>2. PICK w : From(x, "review_findings", D, q, w)
    BY <2>1
  <2>3. w.step = 14 /\ x.patch = ReviewedPatch(q, plan[q]) /\ x.id[1] = q
    BY <2>2 DEF From, Placed, FindingWrite, Write
  <2>4. plan[q].ends = "all"
    <3>1. Early(w, q, plan[q]) \/ Late(w, q, plan[q]) \/ w = Closed(q, plan[q])
      BY <2>2, PlanFacts, ScriptTells DEF From
    <3>2. w.table = "review_findings"
      BY <2>2 DEF From
    <3>3. ~Early(w, q, plan[q])
      BY <3>2 DEF Early, Write, Emit, Candidate, Opened
    <3>4. w # Closed(q, plan[q])
      BY <3>2 DEF Closed, Write
    <3> QED
      BY <3>1, <3>3, <3>4 DEF Late
  <2>5. Candidate(q) \in Script(q, plan[q])
    BY <2>2, <2>4, PlanFacts, ScriptTells DEF From, Early
  <2>6. PICK v : v = Candidate(q)
    OBVIOUS
  <2>7. v.step < w.step /\ v.table = "patch_candidates" /\ v.row.id = PatchOf(q)
    BY <2>3, <2>6 DEF Candidate, Write
  <2>8. v.row \in db.patch_candidates
    BY <2>2, <2>5, <2>6, <2>7, EarlierIsStored DEF From
  <2>9. x.patch # PatchOf(q)
    BY <1>1, <1>10, <2>7, <2>8, RowFound
  <2> QED
    BY <2>3, <2>9 DEF ReviewedPatch
<1> QED
  BY <1>4, <1>5, <1>6, <1>7, <1>8, <1>9, <1>10 DEF ReferencesResolve

\* A run has one row.
LEMMA OneRow ==
    ASSUME NEW D, Made(D), NEW x \in db.task_runs, NEW y \in db.task_runs, x.id = y.id
    PROVE  x = y
<1>1. "task_runs" \in Tables
  BY DEF Tables
<1>2. PICK q \in TaskRuns : \E w : From(x, "task_runs", D, q, w)
  BY <1>1, RowsAreWritten
<1>3. PICK w : From(x, "task_runs", D, q, w)
  BY <1>2
<1>4. PICK o \in TaskRuns : \E v : From(y, "task_runs", D, o, v)
  BY <1>1, RowsAreWritten
<1>5. PICK v : From(y, "task_runs", D, o, v)
  BY <1>4
<1>6. o = q
  BY <1>3, <1>5, PlanFacts, KeysTell DEF From
<1>7. w.step = v.step
  BY <1>3, <1>5, <1>6 DEF From, Current, Placed
<1> QED
  BY <1>3, <1>5, <1>6, <1>7, PlanFacts, StepsTell DEF From

LEMMA RunsAreCounted == ASSUME NEW D, Made(D) PROVE CountRuns(db) = Cardinality(ListAllRuns(db))
<1> DEFINE rows == db.task_runs
           ids == {x.id : x \in rows}
           f == [x \in rows |-> x.id]
<1>1. \A x, y \in rows : x.id = y.id => x = y
  BY OneRow
<1>2. f \in [rows -> ids] /\ IsInjective(f)
  BY <1>1 DEF IsInjective
<1>3. f \in Bijection(rows, ids)
  BY <1>2 DEF Bijection, Injection, Surjection
<1>4. IsFiniteSet(rows)
  BY DEF Made
<1>5. ExistsBijection(rows, ids)
  BY <1>3, Zenon DEF ExistsBijection
<1>6. Cardinality(rows) = Cardinality(ids)
  BY <1>4, <1>5, FS_Bijection
<1> QED
  BY <1>6 DEF CountRuns, ListAllRuns

\* A run whose row shows a result has saved all, but for the graph that failed.
Full(D, x, q) ==
    /\ q \in TaskRuns /\ plan[q] \in Plans /\ x \in db.task_runs
    /\ x = RunRow(q, ResultState(plan[q]), plan[q].decision)
    /\ \A v \in Script(q, plan[q]) : v \in D[q] \/ Skipped(v, plan[q])

LEMMA ResultsAreFull ==
    ASSUME NEW D, Made(D), NEW x \in db.task_runs, x.state \in {"verified", "rejected", "needs_review"}
    PROVE  Full(D, x, x.id)
<1>1. "task_runs" \in Tables
  BY DEF Tables
<1>2. PICK q \in TaskRuns : \E w : From(x, "task_runs", D, q, w)
  BY <1>1, RowsAreWritten
<1>3. PICK w : From(x, "task_runs", D, q, w)
  BY <1>2
<1>4. PICK p : p = plan[q]
  OBVIOUS
<1>5. p \in Plans /\ IsFiniteSet(p.findings) /\ Length(q, p) \in Nat
  BY <1>3, <1>4, PlanFacts, GraphLength DEF From
<1>6. w = Closed(q, p)
  BY <1>3, <1>4 DEF From, Placed, Opened, Write, RunRow
<1>7. x = RunRow(q, ResultState(p), p.decision) /\ x.id = q
  BY <1>3, <1>6 DEF From, Closed, Write, RunRow
<1>8. ASSUME NEW v \in Script(q, p)
      PROVE  v \in D[q] \/ Skipped(v, p)
  <2>1. Early(v, q, p) \/ Late(v, q, p) \/ v = Closed(q, p)
    BY <1>5, ScriptTells
  <2>2. CASE v = Closed(q, p)
    BY <1>3, <1>6, <2>2 DEF From
  <2>3. CASE Early(v, q, p)
    <3>1. v.step < w.step
      BY <1>5, <1>6, <2>3 DEF Early, Write, Emit, Candidate, Opened, Closed
    <3> QED
      BY <1>3, <1>4, <3>1 DEF From, Course
  <2>4. CASE Late(v, q, p)
    <3>1. v.step < w.step
      BY <1>5, <1>6, <2>4 DEF Late, Write, Emit, Report, FindingWrite, Decision, Reviewed, EdgeWrite, Closed
    <3> QED
      BY <1>3, <1>4, <3>1 DEF From, Course
  <2> QED
    BY <2>1, <2>2, <2>3, <2>4
<1> QED
  BY <1>4, <1>5, <1>7, <1>8 DEF Full

LEMMA FullRow ==
    ASSUME NEW D, Made(D), NEW x, NEW q, Full(D, x, q)
    PROVE  GetRun(db, q) = x /\ x # NoRow /\ GetRunsForTask(db, q) = {x} /\ x.task = q
<1>1. "task_runs" \in Tables
  BY DEF Tables
<1>2. NoRow \notin db.task_runs /\ x \in db.task_runs /\ x.id = q /\ x.task = q
  BY <1>1, NoNullRows DEF Full, RunRow
<1>3. GetRun(db, q) = x
  BY <1>2, OneRow, RowFound DEF GetRun
<1>4. ASSUME NEW y \in db.task_runs
      PROVE  y.task = y.id
  <2>1. PICK o \in TaskRuns : \E w : From(y, "task_runs", D, o, w)
    BY <1>1, RowsAreWritten
  <2>2. PICK w : From(y, "task_runs", D, o, w)
    BY <2>1
  <2> QED
    BY <2>2 DEF From, Placed, Opened, Closed, Write, RunRow
<1>5. GetRunsForTask(db, q) = {x}
  BY <1>2, <1>4, OneRow DEF GetRunsForTask
<1> QED
  BY <1>2, <1>3, <1>5

\* The rows of a finished run.
LEMMA FullStored ==
    ASSUME NEW D, Made(D), NEW x, NEW q, Full(D, x, q), NEW v \in Script(q, plan[q]),
           v.table # "task_runs", ~Skipped(v, plan[q])
    PROVE  v.row \in db[v.table]
<1>1. v.table \in Tables /\ v \in D[q] /\ q \in TaskRuns
  BY PlanFacts, Placement DEF Placed, Full
<1> QED
  BY <1>1, WritesAreStored

LEMMA FullDecision ==
    ASSUME NEW D, Made(D), NEW x, NEW q, Full(D, x, q)
    PROVE  /\ plan[q].decision = NoRow => GetFinalDecision(db, q) = NoRow
           /\ plan[q].decision # NoRow => /\ GetFinalDecision(db, q) # NoRow
                                          /\ GetFinalDecision(db, q).status = plan[q].decision
<1>1. PICK p : p = plan[q]
  OBVIOUS
<1>2. q \in TaskRuns /\ p \in Plans /\ IsFiniteSet(p.findings) /\ (p.ends # "all" => p.decision = NoRow)
  BY <1>1, PlanFacts DEF Full
<1>3. ASSUME NEW y \in db.final_decisions, y.id = q
      PROVE  p.decision # NoRow /\ y.status = p.decision
  <2>1. PICK o \in TaskRuns : \E w : From(y, "final_decisions", D, o, w)
    BY RowsAreWritten DEF Tables
  <2>2. PICK w : From(y, "final_decisions", D, o, w)
    BY <2>1
  <2>3. o = q /\ w = Decision(q, p) /\ y.status = p.decision
    BY <1>1, <1>3, <2>2 DEF From, Placed, Decision, Write
  <2>4. Early(w, q, p) \/ Late(w, q, p) \/ w = Closed(q, p)
    BY <1>1, <1>2, <2>2, <2>3, ScriptTells DEF From
  <2>5. w.table = "final_decisions"
    BY <2>2 DEF From
  <2>6. ~Early(w, q, p)
    BY <2>5 DEF Early, Write, Emit, Candidate, Opened
  <2>7. w # Closed(q, p)
    BY <2>5 DEF Closed, Write
  <2>8. Late(w, q, p)
    BY <2>4, <2>6, <2>7
  <2>9. p.decision # NoRow
    BY <2>5, <2>8 DEF Late, Write, Emit, Report, FindingWrite, Decision, Reviewed, EdgeWrite
  <2> QED
    BY <2>3, <2>9
<1>4. CASE p.decision = NoRow
  BY <1>1, <1>3, <1>4 DEF GetFinalDecision, RowOf
<1>5. CASE p.decision # NoRow
  <2>1. PICK v : v = Decision(q, p)
    OBVIOUS
  <2>2. v \in Script(q, p) /\ v.table = "final_decisions" /\ v.row.id = q
    BY <1>2, <1>5, <2>1, ScriptTells DEF Late, Decision, Write
  <2>3. v.row \in db.final_decisions
    BY <1>1, <2>2, FullStored DEF Skipped
  <2>4. NoRow \notin db.final_decisions
    BY NoNullRows DEF Tables
  <2>5. PICK y : y = GetFinalDecision(db, q)
    OBVIOUS
  <2>6. y \in db.final_decisions /\ y.id = q /\ y # NoRow
    BY <2>2, <2>3, <2>4, <2>5, RowFound DEF GetFinalDecision
  <2> QED
    BY <1>1, <1>3, <2>5, <2>6
<1> QED
  BY <1>1, <1>4, <1>5

LEMMA FullPatch ==
    ASSUME NEW D, Made(D), NEW x, NEW q, Full(D, x, q), plan[q].ends = "all"
    PROVE  /\ GetPatchesForTask(db, q) = {Candidate(q).row}
           /\ GetVerificationReports(db, PatchOf(q)) = {Report(q, plan[q]).row}
<1>1. PICK p : p = plan[q]
  OBVIOUS
<1>2. q \in TaskRuns /\ p \in Plans /\ IsFiniteSet(p.findings)
  BY <1>1, PlanFacts DEF Full
<1>3. PICK v : v = Candidate(q)
  OBVIOUS
<1>4. PICK u : u = Report(q, p)
  OBVIOUS
<1>5. v \in Script(q, p) /\ u \in Script(q, p)
  BY <1>1, <1>2, <1>3, <1>4, ScriptTells DEF Early, Late
<1>6. /\ v.table = "patch_candidates" /\ v.row.task = q
      /\ u.table = "verification_reports" /\ u.row.patch = PatchOf(q)
  BY <1>3, <1>4 DEF Candidate, Report, Write
<1>7. v.row \in db.patch_candidates /\ u.row \in db.verification_reports
  BY <1>1, <1>5, <1>6, FullStored DEF Skipped
<1>8. ASSUME NEW y \in db.patch_candidates, y.task = q
      PROVE  y = v.row
  <2>1. PICK o \in TaskRuns : \E w : From(y, "patch_candidates", D, o, w)
    BY RowsAreWritten DEF Tables
  <2>2. PICK w : From(y, "patch_candidates", D, o, w)
    BY <2>1
  <2>3. w = Candidate(o) /\ y = w.row
    BY <2>2 DEF From, Placed
  <2>4. o = q
    BY <1>8, <2>3 DEF Candidate, Write
  <2> QED
    BY <1>3, <2>3, <2>4
<1>9. ASSUME NEW y \in db.verification_reports, y.patch = PatchOf(q)
      PROVE  y = u.row
  <2>1. PICK o \in TaskRuns : \E w : From(y, "verification_reports", D, o, w)
    BY RowsAreWritten DEF Tables
  <2>2. PICK w : From(y, "verification_reports", D, o, w)
    BY <2>1
  <2>3. w = Report(o, plan[o]) /\ y = w.row
    BY <2>2 DEF From, Placed
  <2>4. o = q
    BY <1>9, <2>3 DEF Report, Write, PatchOf
  <2> QED
    BY <1>1, <1>4, <2>3, <2>4
<1> QED
  BY <1>1, <1>3, <1>4, <1>6, <1>7, <1>8, <1>9 DEF GetPatchesForTask, GetVerificationReports

LEMMA FullFindings ==
    ASSUME NEW D, Made(D), NEW x, NEW q, Full(D, x, q), plan[q].ends = "all", plan[q].repair # "found"
    PROVE  {y.id[2] : y \in GetFindingsForPatch(db, PatchOf(q))} = plan[q].findings
<1>1. PICK p : p = plan[q]
  OBVIOUS
<1>2. q \in TaskRuns /\ p \in Plans /\ IsFiniteSet(p.findings) /\ ReviewedPatch(q, p) = PatchOf(q)
  BY <1>1, PlanFacts DEF Full, ReviewedPatch
<1>3. ASSUME NEW f \in p.findings
      PROVE  \E y \in db.review_findings : y.patch = PatchOf(q) /\ y.id[2] = f
  <2>1. PICK v : v = FindingWrite(q, p, f)
    OBVIOUS
  <2>2. v \in Script(q, p)
    BY <1>1, <1>2, <2>1, ScriptTells DEF Late
  <2>3. v.table = "review_findings" /\ v.row.patch = PatchOf(q) /\ v.row.id[2] = f
    BY <1>2, <2>1 DEF FindingWrite, Write
  <2>4. v.row \in db.review_findings
    BY <1>1, <2>2, <2>3, FullStored DEF Skipped
  <2> QED
    BY <2>3, <2>4
<1>4. ASSUME NEW y \in db.review_findings, y.patch = PatchOf(q)
      PROVE  y.id[2] \in p.findings
  <2>1. PICK o \in TaskRuns : \E w : From(y, "review_findings", D, o, w)
    BY RowsAreWritten DEF Tables
  <2>2. PICK w : From(y, "review_findings", D, o, w)
    BY <2>1
  <2>3. PICK f \in plan[o].findings : w = FindingWrite(o, plan[o], f)
    BY <2>2 DEF From, Placed
  <2>4. y.patch = ReviewedPatch(o, plan[o]) /\ y.id[2] = f
    BY <2>2, <2>3 DEF From, FindingWrite, Write
  <2>5. o = q
    BY <1>4, <2>4 DEF ReviewedPatch, PatchOf, RepairedPatchOf
  <2> QED
    BY <1>1, <2>3, <2>4, <2>5
<1> QED
  BY <1>1, <1>3, <1>4 DEF GetFindingsForPatch

LEMMA FullEvents ==
    ASSUME NEW D, Made(D), NEW x, NEW q, Full(D, x, q), plan[q].ends = "all"
    PROVE  {y.type : y \in GetEventsForRun(db, q)} =
              {"state_change", "patch_generated", "verification_result", "run_complete"}
              \union Only(plan[q].decision # NoRow, {"review_complete"})
<1>1. PICK p : p = plan[q]
  OBVIOUS
<1>2. q \in TaskRuns /\ p \in Plans /\ IsFiniteSet(p.findings)
  BY <1>1, PlanFacts DEF Full
<1> DEFINE types == {"state_change", "patch_generated", "verification_result", "run_complete"}
                    \union Only(p.decision # NoRow, {"review_complete"})
<1>3. ASSUME NEW type \in types
      PROVE  \E y \in db.run_events : y.run = q /\ y.type = type
  <2>1. PICK step : Emit(q, step, type) \in Script(q, p)
    <3>1. type = "state_change" => Emit(q, 5, type) \in Script(q, p)
      BY <1>2, ScriptTells DEF Early
    <3>2. type = "patch_generated" => Emit(q, 9, type) \in Script(q, p)
      BY <1>1, <1>2, ScriptTells DEF Early
    <3>3. type = "verification_result" => Emit(q, 11, type) \in Script(q, p)
      BY <1>1, <1>2, ScriptTells DEF Late
    <3>4. type = "review_complete" /\ p.decision # NoRow => Emit(q, 13, type) \in Script(q, p)
      BY <1>1, <1>2, ScriptTells DEF Late
    <3>5. type = "run_complete" => Emit(q, 17 + Length(q, p), type) \in Script(q, p)
      BY <1>1, <1>2, ScriptTells DEF Late
    <3> QED
      BY <3>1, <3>2, <3>3, <3>4, <3>5 DEF Only
  <2>2. PICK v : v = Emit(q, step, type)
    OBVIOUS
  <2>3. v \in Script(q, p) /\ v.table = "run_events" /\ v.row.run = q /\ v.row.type = type
    BY <2>1, <2>2 DEF Emit, Write
  <2>4. v.row \in db.run_events
    BY <1>1, <2>3, FullStored DEF Skipped
  <2> QED
    BY <2>3, <2>4
<1>4. ASSUME NEW y \in db.run_events, y.run = q
      PROVE  y.type \in types
  <2>1. PICK o \in TaskRuns : \E w : From(y, "run_events", D, o, w)
    BY RowsAreWritten DEF Tables
  <2>2. PICK w : From(y, "run_events", D, o, w)
    BY <2>1
  <2>3. o = q /\ w.table = "run_events" /\ w.row = y
    BY <1>4, <2>2 DEF From, Placed
  <2>4. Early(w, q, p) \/ Late(w, q, p) \/ w = Closed(q, p)
    BY <1>1, <1>2, <2>2, <2>3, ScriptTells DEF From
  <2>5. w # Closed(q, p)
    BY <2>3 DEF Closed, Write
  <2>6. CASE Early(w, q, p)
    BY <2>3, <2>6 DEF Early, Write, Emit, Candidate, Opened
  <2>7. CASE Late(w, q, p)
    BY <2>3, <2>7 DEF Late, Write, Emit, Report, FindingWrite, Decision, Reviewed, EdgeWrite, Only
  <2> QED
    BY <2>4, <2>5, <2>6, <2>7
<1> HIDE DEF types
<1>5. {y.type : y \in GetEventsForRun(db, q)} = types
  BY <1>3, <1>4 DEF GetEventsForRun
<1> QED
  BY <1>1, <1>5 DEF types

LEMMA EdgesAreOfRuns ==
    ASSUME NEW D, Made(D), NEW y \in db.provenance_edges
    PROVE  \E o \in TaskRuns : y.edge \in Leaving(o, plan[o]) \/ Elsewhere(y.edge)
<1>1. PICK o \in TaskRuns : \E w : From(y, "provenance_edges", D, o, w)
  BY RowsAreWritten DEF Tables
<1>2. PICK w : From(y, "provenance_edges", D, o, w)
  BY <1>1
<1>3. PICK k \in 1..Length(o, plan[o]) : w = EdgeWrite(o, plan[o], k)
  BY <1>2 DEF From, Placed
<1>4. y.edge = GraphOf(o, plan[o])[k]
  BY <1>2, <1>3 DEF From, EdgeWrite, Write
<1>5. IsFiniteSet(plan[o].findings)
  BY <1>2, PlanFacts DEF From
<1>6. y.edge \in Range(GraphOf(o, plan[o]))
  BY <1>3, <1>4, <1>5, GraphLength DEF Range
<1>7. y.edge \in Leaving(o, plan[o]) \/ Elsewhere(y.edge)
  BY <1>5, <1>6, RunGraph
<1> QED
  BY <1>7

LEMMA LeavingTells ==
    ASSUME NEW o, NEW p, NEW e \in Leaving(o, p)
    PROVE  /\ e.from = <<"run", o>>
           /\ \A q : e.to = <<"decision", q>> => q = o
<1>1. e.from = <<"run", o>>
  BY DEF Leaving, Executes, Produced, Decides, Edge, Only
<1>2. e.to = <<"task", o>> \/ e.to = <<"patch", ReviewedPatch(o, p)>> \/ e.to = <<"decision", o>>
  BY DEF Leaving, Executes, Produced, Decides, Edge, Only
<1> QED
  BY <1>1, <1>2

LEMMA FullGraph ==
    ASSUME NEW D, Made(D), NEW x, NEW q, Full(D, x, q), plan[q].ends = "all", plan[q].graph
    PROVE  GetProvenanceEdgesFrom(db, <<"run", q>>) = Leaving(q, plan[q])
<1>1. PICK p : p = plan[q]
  OBVIOUS
<1>2. q \in TaskRuns /\ p \in Plans /\ IsFiniteSet(p.findings)
  BY <1>1, PlanFacts DEF Full
<1>3. ASSUME NEW e \in Leaving(q, p)
      PROVE  \E y \in db.provenance_edges : y.edge = e /\ y.edge.from = <<"run", q>>
  <2>1. PICK k \in 1..Length(q, p) : e = GraphOf(q, p)[k]
    BY <1>2, RunGraph, GraphLength DEF Range
  <2>2. PICK v : v = EdgeWrite(q, p, k)
    OBVIOUS
  <2>3. v \in Script(q, p) /\ v.table = "provenance_edges" /\ v.row.edge = e
    <3>1. v \in Script(q, p)
      BY <1>1, <1>2, <2>2, ScriptTells DEF Late
    <3> QED
      BY <2>1, <2>2, <3>1 DEF EdgeWrite, Write
  <2>4. v.row \in db.provenance_edges
    BY <1>1, <2>3, FullStored DEF Skipped
  <2> QED
    BY <2>3, <2>4, LeavingTells
<1>4. ASSUME NEW y \in db.provenance_edges, y.edge.from = <<"run", q>>
      PROVE  y.edge \in Leaving(q, p)
  <2>1. PICK o \in TaskRuns : y.edge \in Leaving(o, plan[o]) \/ Elsewhere(y.edge)
    BY EdgesAreOfRuns
  <2>2. y.edge \in Leaving(o, plan[o])
    BY <1>4, <2>1 DEF Elsewhere
  <2>3. o = q
    BY <1>4, <2>2, LeavingTells
  <2> QED
    BY <1>1, <2>2, <2>3
<1>5. \A e : e \in GetProvenanceEdgesFrom(db, <<"run", q>>) <=>
                \E y \in db.provenance_edges : y.edge = e /\ y.edge.from = <<"run", q>>
  BY DEF GetProvenanceEdgesFrom
<1> QED
  BY <1>1, <1>3, <1>4, <1>5

LEMMA DecisionEdges ==
    ASSUME NEW D, Made(D), NEW q
    PROVE  GetProvenanceEdgesTo(db, <<"decision", q>>) \subseteq GetProvenanceEdgesFrom(db, <<"run", q>>)
<1>1. ASSUME NEW y \in db.provenance_edges, y.edge.to = <<"decision", q>>
      PROVE  y.edge.from = <<"run", q>>
  <2>1. PICK o \in TaskRuns : y.edge \in Leaving(o, plan[o]) \/ Elsewhere(y.edge)
    BY EdgesAreOfRuns
  <2>2. y.edge \in Leaving(o, plan[o])
    BY <1>1, <2>1 DEF Elsewhere
  <2> QED
    BY <1>1, <2>2, LeavingTells
<1> QED
  BY <1>1 DEF GetProvenanceEdgesTo, GetProvenanceEdgesFrom

LEMMA FullIsShown ==
    ASSUME NEW D, Made(D), NEW x, NEW q, Full(D, x, q)
    PROVE  Shown(x)
<1>1. PICK p : p = plan[q]
  OBVIOUS
<1>2. x.id = q /\ x.task = q /\ x.state = ResultState(p) /\ x.decision = p.decision
  BY <1>1 DEF Full, RunRow
<1>3. GetRun(db, q) = x /\ x # NoRow /\ GetRunsForTask(db, q) = {x}
  BY FullRow
<1>4. PICK review : review = GetRunReview(db, q)
  OBVIOUS
<1>5. review.decision = p.decision
  <2>1. review.decision = IF GetFinalDecision(db, q) = NoRow THEN NoRow ELSE GetFinalDecision(db, q).status
    BY <1>3, <1>4 DEF GetRunReview
  <2> QED
    BY <1>1, <2>1, FullDecision
<1>6. PICK report : report = GetRunReport(db, q)
  OBVIOUS
<1>7. /\ report.patches = Cardinality(GetPatchesForTask(db, q))
      /\ report.events = GetEventsForRun(db, q)
  BY <1>3, <1>6 DEF GetRunReport
<1>8. ASSUME p.ends = "all"
      PROVE  /\ GetRunDiff(db, q) = << PatchOf(q) >>
             /\ GetRunVerification(db, q) = << p.passed >>
             /\ p.repair # "found" => {y.id[2] : y \in review.findings} = p.findings
             /\ report.patches = 1
             /\ {y.type : y \in report.events} =
                   {"state_change", "patch_generated", "verification_result", "run_complete"}
                   \union Only(p.decision # NoRow, {"review_complete"})
             /\ p.graph => GetProvenanceEdgesFrom(db, <<"run", q>>) = Leaving(q, p)
  <2>1. PICK patch : patch = Candidate(q).row
    OBVIOUS
  <2>2. PICK checks : checks = Report(q, p).row
    OBVIOUS
  <2>3. /\ patch.id = PatchOf(q) /\ patch.attempt = 1
        /\ checks.passed = p.passed /\ checks.id[2] = 12
    BY <2>1, <2>2 DEF Candidate, Report, Write
  <2>4. GetPatchesForTask(db, q) = {patch} /\ GetVerificationReports(db, PatchOf(q)) = {checks}
    BY <1>1, <1>8, <2>1, <2>2, FullPatch
  <2>5. LastPatch({patch}) = patch /\ LastReport({checks}) = checks
    BY <2>3 DEF LastPatch, LastReport
  <2>6. GetRunDiff(db, q) = << PatchOf(q) >>
    BY <1>3, <2>3, <2>4, <2>5 DEF GetRunDiff
  <2>7. GetRunVerification(db, q) = << p.passed >>
    <3>1. << PatchOf(q) >> # NotFound /\ << PatchOf(q) >>[1] = PatchOf(q)
      BY DEF NotFound
    <3> QED
      BY <2>3, <2>4, <2>5, <2>6, <3>1 DEF GetRunVerification
  <2>8. review.findings = GetFindingsForPatch(db, PatchOf(q))
    BY <1>3, <1>4, <2>3, <2>4, <2>5 DEF GetRunReview
  <2>9. report.patches = 1
    BY <1>7, <2>4, FS_Singleton
  <2> QED
    BY <1>1, <1>7, <1>8, <2>6, <2>7, <2>8, <2>9, FullFindings, FullEvents, FullGraph
<1>9. GetProvenanceEdgesTo(db, <<"decision", q>>) \subseteq GetProvenanceEdgesFrom(db, <<"run", q>>)
  BY DecisionEdges
<1> QED
  BY <1>1, <1>2, <1>3, <1>4, <1>5, <1>6, <1>8, <1>9
     DEF Shown, Leaving, Executes, Produced, Decides

LEMMA StoredFollows == StoreInv => StoredRunsComplete
<1> SUFFICES ASSUME StoreInv
             PROVE  StoredRunsComplete
  OBVIOUS
<1>1. PICK D : Made(D)
  BY DEF StoreInv
<1>2. ReferencesResolve
  BY <1>1, References
<1>3. CountRuns(db) = Cardinality(ListAllRuns(db))
  BY <1>1, RunsAreCounted
<1>4. ASSUME NEW x \in db.task_runs, x.state \in {"verified", "rejected", "needs_review"}
      PROVE  Shown(x)
  <2>1. Full(D, x, x.id)
    BY <1>1, <1>4, ResultsAreFull
  <2> QED
    BY <1>1, <2>1, FullIsShown
<1> QED
  BY <1>2, <1>3, <1>4 DEF StoredRunsComplete

\* For any number of requests, deletions and findings: in every committed state, after whatever
\* deaths of processes and failures to store a graph, references resolve, every run has one row,
\* and a run whose row shows a result is shown in full (create_run in routes.py, Orchestrator.run
\* and Store.delete_run).
THEOREM StoredRunsAreComplete == StoreSpec => []StoredRunsComplete
<1> QED
  BY StoreStarts, StoreKeeps, StoredFollows, PTL DEF StoreSpec

-----------------------------------------------------------------------------
(***************************************************************************)
(* Fine-tuning.                                                            *)
(***************************************************************************)
\* The identifiers create_version computes.
Computed == Ids \ Names

JobRecords == [status : {"pending", "running", "completed", "failed", "cancelled"},
               metrics : Trainers \union {Nothing}, error : Trainers \union {Nothing}]

\* What a thread is in the middle of: an execution, a cancellation or create_version.
Executions == [pc : {"executing", "returned", "raised", "cancelling"}, job : Jobs]

Contents == {Unique(d) : d \in Datasets}

Creations == [pc : {"open", "flush", "register"}, manager : Managers, id : Ids, content : Contents, count : Nat]

Versions == [content : Contents, count : Nat]

TuningTypeOK ==
    /\ job \in [Jobs -> JobRecords]
    /\ submitted \subseteq Jobs
    /\ file = [v \in Ids |-> file[v]]
    /\ registry \in [Managers -> [Ids -> Versions \union {Nothing}]]
    /\ thread \in [Trainers -> [pc : {"idle", "done"}] \union Executions \union Creations]

\* Unique keeps no more entries than it is given, as a sequence.
LEMMA UniqueIsShorter ==
    ASSUME NEW d \in Datasets
    PROVE  /\ Len(Unique(d)) \in Nat /\ Len(Unique(d)) <= Len(d)
           /\ \E S : Unique(d) \in Seq(S)
<1>1. Len(d) \in Nat /\ DOMAIN d = 1..Len(d)
  BY DatasetsAreFiles
<1>2. FirstOf(d) \subseteq 1..Len(d)
  BY <1>1 DEF FirstOf
<1>3. IsFiniteSet(1..Len(d)) /\ Cardinality(1..Len(d)) = Len(d)
  <2>1. PICK n \in Nat : n = Len(d)
    BY <1>1
  <2>2. n \in Int /\ 1 \in Int
    OBVIOUS
  <2>3. IsFiniteSet(1..n) /\ Cardinality(1..n) = IF 1 > n THEN 0 ELSE n - 1 + 1
    BY <2>2, FS_Interval, Zenon
  <2> QED
    BY <2>1, <2>3
<1>4. Cardinality(FirstOf(d)) \in Nat /\ Cardinality(FirstOf(d)) <= Len(d)
  BY <1>2, <1>3, FS_Subset, FS_CardinalityType
<1> DEFINE Nth(k) == CHOOSE i \in FirstOf(d) : Cardinality({j \in FirstOf(d) : j <= i}) = k
           S == {d[Nth(k)] : k \in 1..Cardinality(FirstOf(d))}
<1>5. Unique(d) = [k \in 1..Cardinality(FirstOf(d)) |-> d[Nth(k)]]
  BY DEF Unique
<1> HIDE DEF Nth
<1>6. Unique(d) \in [1..Cardinality(FirstOf(d)) -> S]
  BY <1>5
<1>7. Unique(d) \in Seq(S) /\ Len(Unique(d)) = Cardinality(FirstOf(d))
  BY <1>4, <1>6, SeqDef, LenProperties
<1> QED
  BY <1>4, <1>7

\* A computed identifier is a sequence of entries.
LEMMA ComputedIsUnique ==
    ASSUME NEW v \in Computed
    PROVE  \E S : v \in Seq(S)
BY UniqueIsShorter DEF Computed, Ids, VersionId

\* Writing v over a file that is empty or v itself leaves v.
LEMMA Overwritten ==
    ASSUME NEW v \in Computed, NEW old \in {<<>>, v}
    PROVE  v \o SubSeq(old, Len(v) + 1, Len(old)) = v
<1>1. PICK S : v \in Seq(S)
  BY ComputedIsUnique
<1>2. old \in Seq(S) /\ Len(old) <= Len(v) /\ Len(v) \in Nat /\ Len(old) \in Nat
  <2>1. CASE old = <<>>
    BY <1>1, <2>1
  <2>2. CASE old = v
    BY <1>1, <2>2
  <2> QED
    BY <2>1, <2>2
<1>3. SubSeq(old, Len(v) + 1, Len(old)) = <<>>
  BY <1>2
<1> QED
  BY <1>1, <1>3

-----------------------------------------------------------------------------
\* The orchestrator's jobs: JobsAddUp, and what each execution has written so far.
JobInv ==
    /\ JobsAddUp
    /\ \A c \in Trainers : thread[c].pc = "returned" => job[thread[c].job].metrics # Nothing
    /\ \A j \in Jobs : job[j].status = "pending" => Busy(j, {"executing", "returned", "raised"}) = {}

\* The version tables: a file is empty or holds what its identifier says, and what a call
\* is about to register, or a manager has registered, is in the file unless somebody rewrites it.
Written(v) == file[v] = v \/ Rewriting(v) # {}

VersionOK(v) ==
    /\ file[v] \in {Nothing, <<>>, v}
    /\ \A c \in Trainers : thread[c].pc \in {"open", "flush", "register"} /\ thread[c].id = v =>
          /\ thread[c].content = v /\ Len(v) <= thread[c].count
          /\ thread[c].pc = "flush" => file[v] \in {<<>>, v}
          /\ thread[c].pc = "register" => Written(v)
    /\ \A m \in Managers : registry[m][v] # Nothing =>
          Written(v) /\ registry[m][v].content = v /\ Len(v) <= registry[m][v].count

VersionInv == \A v \in Computed : VersionOK(v)

LEMMA TuningInitially == TuningInit => TuningTypeOK /\ JobInv /\ VersionInv
<1> SUFFICES ASSUME TuningInit PROVE TuningTypeOK /\ JobInv /\ VersionInv
  OBVIOUS
<1>1. TuningTypeOK
  BY DEF TuningInit, TuningTypeOK, JobRecords
<1>2. JobInv
  BY DEF TuningInit, JobInv, JobsAddUp, Busy
<1>3. VersionInv
  <2>1. \A v \in Ids : file[v] = Nothing /\ \A m \in Managers : registry[m][v] = Nothing
    BY DEF TuningInit
  <2>2. \A c \in Trainers : thread[c].pc = "idle"
    BY DEF TuningInit
  <2> QED
    BY <2>1, <2>2 DEF VersionInv, VersionOK, Computed
<1> QED
  BY <1>1, <1>2, <1>3

\* A thread in the middle of an execution or a cancellation, or of create_version.
LEMMA ThreadFields ==
    ASSUME TuningTypeOK, NEW c \in Trainers
    PROVE  /\ thread[c].pc \in {"executing", "returned", "raised", "cancelling"} =>
                 thread[c] \in Executions /\ thread[c].job \in Jobs
           /\ thread[c].pc \in {"open", "flush", "register"} => thread[c] \in Creations
BY DEF TuningTypeOK, Executions, Creations

\* A thread that goes on to x, the others staying where they are.
LEMMA Proceeds ==
    ASSUME TuningTypeOK, NEW c \in Trainers, NEW x, Proceed(c, x),
           x \in [pc : {"idle", "done"}] \union Executions \union Creations
    PROVE  /\ thread' \in [Trainers -> [pc : {"idle", "done"}] \union Executions \union Creations]
           /\ thread'[c] = x /\ \A d \in Trainers : d # c => thread'[d] = thread[d]
BY DEF TuningTypeOK, Proceed

-----------------------------------------------------------------------------
\* What a step does to the job records and to the thread that takes it.
Step(c, j, before, after) ==
    /\ thread[c].pc = before /\ thread'[c].pc = after
    /\ before \in {"executing", "returned", "raised", "cancelling"} => thread[c].job = j
    /\ after \in {"executing", "returned", "raised", "cancelling"} => thread'[c].job = j
    /\ \A d \in Trainers : d # c => thread'[d] = thread[d]

\* A step on job j: the other jobs are as they were, and what an execution has
\* reported of j stays reported.
LEMMA StepOnJob ==
    ASSUME TuningTypeOK, JobInv, NEW c \in Trainers, NEW j \in Jobs, NEW before, NEW after,
           Step(c, j, before, after),
           \A i \in Jobs : i # j => job'[i] = job[i],
           job[j].metrics # Nothing => job'[j].metrics # Nothing,
           after = "returned" => job'[j].metrics # Nothing,
           job'[j].status = "running" =>
               \E d \in Trainers : thread'[d].pc \in {"executing", "returned"} /\ thread'[d].job = j,
           job'[j].status = "completed" => job'[j].metrics # Nothing,
           job'[j].status = "failed" =>
               job'[j].error # Nothing \/ \E d \in Trainers : thread'[d].pc = "raised" /\ thread'[d].job = j,
           job'[j].status # "pending"
    PROVE  JobInv'
<1>1. ASSUME NEW i \in Jobs, i # j
      PROVE  \A d \in Trainers : \A pc \in {"executing", "returned", "raised"} :
                thread'[d].pc = pc /\ thread'[d].job = i <=> thread[d].pc = pc /\ thread[d].job = i
  BY <1>1 DEF Step
<1>2. JobsAddUp'
  <2>1. ASSUME NEW i \in Jobs
        PROVE  /\ job'[i].status = "running" => Busy(i, {"executing", "returned"})' # {}
               /\ job'[i].status = "completed" => job'[i].metrics # Nothing
               /\ job'[i].status = "failed" => job'[i].error # Nothing \/ Busy(i, {"raised"})' # {}
               /\ job'[i].status = "pending" => job'[i].metrics = Nothing /\ job'[i].error = Nothing
    <3>1. CASE i = j
      BY <3>1 DEF Busy
    <3>2. CASE i # j
      <4>1. job'[i] = job[i]
        BY <3>2
      <4>2. /\ job[i].status = "running" => Busy(i, {"executing", "returned"}) # {}
            /\ job[i].status = "completed" => job[i].metrics # Nothing
            /\ job[i].status = "failed" => job[i].error # Nothing \/ Busy(i, {"raised"}) # {}
            /\ job[i].status = "pending" => job[i].metrics = Nothing /\ job[i].error = Nothing
        BY DEF JobInv, JobsAddUp
      <4>3. /\ Busy(i, {"executing", "returned"})' = Busy(i, {"executing", "returned"})
            /\ Busy(i, {"raised"})' = Busy(i, {"raised"})
        BY <1>1, <3>2 DEF Busy
      <4> QED
        BY <4>1, <4>2, <4>3
    <3> QED
      BY <3>1, <3>2
  <2> QED
    BY <2>1 DEF JobsAddUp
<1>3. ASSUME NEW d \in Trainers, thread'[d].pc = "returned" PROVE job'[thread'[d].job].metrics # Nothing
  <2>1. CASE d = c
    BY <1>3, <2>1 DEF Step
  <2>2. CASE d # c
    <3>1. thread'[d] = thread[d]
      BY <2>2 DEF Step
    <3>2. thread[d].job \in Jobs /\ job[thread[d].job].metrics # Nothing
      BY <1>3, <3>1, ThreadFields DEF JobInv
    <3> QED
      BY <3>1, <3>2
  <2> QED
    BY <2>1, <2>2
<1>4. ASSUME NEW i \in Jobs, job'[i].status = "pending"
      PROVE  Busy(i, {"executing", "returned", "raised"})' = {}
  <2>1. i # j /\ job'[i] = job[i]
    BY <1>4
  <2>2. Busy(i, {"executing", "returned", "raised"}) = {}
    BY <1>4, <2>1 DEF JobInv
  <2> QED
    BY <1>1, <2>1, <2>2 DEF Busy
<1> QED
  BY <1>2, <1>3, <1>4 DEF JobInv

LEMMA StatusField ==
    ASSUME TuningTypeOK, NEW j \in Jobs,
           NEW status \in {"pending", "running", "completed", "failed", "cancelled"},
           job' = [job EXCEPT ![j].status = status]
    PROVE  /\ job' \in [Jobs -> JobRecords] /\ \A i \in Jobs : i # j => job'[i] = job[i]
           /\ job'[j].status = status /\ job'[j].metrics = job[j].metrics /\ job'[j].error = job[j].error
BY DEF TuningTypeOK, JobRecords

LEMMA MetricsField ==
    ASSUME TuningTypeOK, NEW j \in Jobs, NEW c \in Trainers, job' = [job EXCEPT ![j].metrics = c]
    PROVE  /\ job' \in [Jobs -> JobRecords] /\ \A i \in Jobs : i # j => job'[i] = job[i]
           /\ job'[j].metrics = c /\ job'[j].status = job[j].status /\ job'[j].error = job[j].error
BY DEF TuningTypeOK, JobRecords

LEMMA ErrorField ==
    ASSUME TuningTypeOK, NEW j \in Jobs, NEW c \in Trainers, job' = [job EXCEPT ![j].error = c]
    PROVE  /\ job' \in [Jobs -> JobRecords] /\ \A i \in Jobs : i # j => job'[i] = job[i]
           /\ job'[j].error = c /\ job'[j].status = job[j].status /\ job'[j].metrics = job[j].metrics
BY DEF TuningTypeOK, JobRecords

\* A thread goes on with its execution, or returns from it.
LEMMA GoesOn ==
    ASSUME TuningTypeOK, NEW c \in Trainers, NEW before \in {"executing", "returned", "raised", "cancelling"},
           thread[c].pc = before
    PROVE  /\ thread[c].job \in Jobs
           /\ \A after \in {"returned", "raised"} : Proceed(c, [thread[c] EXCEPT !.pc = after]) =>
                 /\ Step(c, thread[c].job, before, after)
                 /\ thread' \in [Trainers -> [pc : {"idle", "done"}] \union Executions \union Creations]
           /\ Proceed(c, Returned) =>
                 /\ Step(c, thread[c].job, before, "done")
                 /\ thread' \in [Trainers -> [pc : {"idle", "done"}] \union Executions \union Creations]
<1>1. thread[c] \in Executions /\ thread[c].job \in Jobs
  BY ThreadFields
<1>2. ASSUME NEW after \in {"returned", "raised"}, Proceed(c, [thread[c] EXCEPT !.pc = after])
      PROVE  /\ Step(c, thread[c].job, before, after)
             /\ thread' \in [Trainers -> [pc : {"idle", "done"}] \union Executions \union Creations]
  <2>1. PICK x \in Executions : x = thread[c]
    BY <1>1
  <2> PICK y : y = [x EXCEPT !.pc = after]
    OBVIOUS
  <2>2. y \in Executions /\ y.pc = after /\ y.job = x.job
    BY DEF Executions
  <2>3. Proceed(c, y)
    BY <1>2, <2>1
  <2>4. /\ thread' \in [Trainers -> [pc : {"idle", "done"}] \union Executions \union Creations]
        /\ thread'[c] = y /\ \A d \in Trainers : d # c => thread'[d] = thread[d]
    BY <2>2, <2>3, Proceeds
  <2> QED
    BY <2>1, <2>2, <2>4 DEF Step
<1>3. ASSUME Proceed(c, Returned)
      PROVE  /\ Step(c, thread[c].job, before, "done")
             /\ thread' \in [Trainers -> [pc : {"idle", "done"}] \union Executions \union Creations]
  <2>1. Returned \in [pc : {"idle", "done"}] /\ Returned.pc = "done"
    BY DEF Returned
  <2> QED
    BY <1>3, <2>1, Proceeds DEF Step
<1> QED
  BY <1>1, <1>2, <1>3

\* A thread starts on job j.
LEMMA Starting ==
    ASSUME TuningTypeOK, NEW c \in Trainers, NEW j \in Jobs, NEW pc \in {"executing", "cancelling"},
           Within(c, "idle"), Proceed(c, [pc |-> pc, job |-> j])
    PROVE  /\ Step(c, j, "idle", pc)
           /\ thread' \in [Trainers -> [pc : {"idle", "done"}] \union Executions \union Creations]
<1>1. PICK x \in Executions : x = [pc |-> pc, job |-> j] /\ x.pc = pc /\ x.job = j
  BY DEF Executions
<1> QED
  BY <1>1, Proceeds DEF Step, Within

\* The steps that leave the job records and the executions alone.
LEMMA JobsUntouched ==
    ASSUME TuningTypeOK, JobInv, UNCHANGED job,
           \A c \in Trainers : \/ thread'[c] = thread[c]
                               \/ {thread[c].pc, thread'[c].pc} \subseteq {"idle", "done", "open", "flush", "register",
                                                                           "cancelling"}
    PROVE  JobInv'
<1>1. \A c \in Trainers : \A pc \in {"executing", "returned", "raised"} :
         thread'[c].pc = pc \/ thread[c].pc = pc => thread'[c] = thread[c]
  OBVIOUS
<1>2. ASSUME NEW pcs \in SUBSET {"executing", "returned", "raised"}, NEW j \in Jobs
      PROVE  Busy(j, pcs)' = Busy(j, pcs)
  BY <1>1 DEF Busy
<1>3. JobsAddUp'
  <2>1. \A j \in Jobs : /\ Busy(j, {"executing", "returned"})' = Busy(j, {"executing", "returned"})
                        /\ Busy(j, {"raised"})' = Busy(j, {"raised"})
    BY <1>2
  <2> QED
    BY <2>1 DEF JobInv, JobsAddUp
<1>4. \A c \in Trainers : thread'[c].pc = "returned" => job'[thread'[c].job].metrics # Nothing
  BY <1>1 DEF JobInv
<1>5. \A j \in Jobs : job'[j].status = "pending" => Busy(j, {"executing", "returned", "raised"})' = {}
  BY <1>2 DEF JobInv
<1> QED
  BY <1>3, <1>4, <1>5 DEF JobInv

LEMMA JobCallsKeep ==
    ASSUME TuningTypeOK, JobInv, NEW c \in Trainers, JobCalls(c)
    PROVE  JobInv' /\ TuningTypeOK'
<1>1. ASSUME NEW j \in Jobs, ExecuteStart(c, j) PROVE JobInv' /\ TuningTypeOK'
  <2>1. /\ Step(c, j, "idle", "executing")
        /\ thread' \in [Trainers -> [pc : {"idle", "done"}] \union Executions \union Creations]
    BY <1>1, Starting DEF ExecuteStart
  <2>2. /\ job' \in [Jobs -> JobRecords] /\ \A i \in Jobs : i # j => job'[i] = job[i]
        /\ job'[j].status = "running" /\ job'[j].metrics = job[j].metrics
    BY <1>1, StatusField DEF ExecuteStart
  <2>3. thread'[c].pc = "executing" /\ thread'[c].job = j
    BY <2>1 DEF Step
  <2>4. JobInv'
    BY <2>1, <2>2, <2>3, StepOnJob
  <2> QED
    BY <1>1, <2>1, <2>2, <2>4 DEF TuningTypeOK, ExecuteStart
<1>2. ASSUME ExecutorReturns(c) PROVE JobInv' /\ TuningTypeOK'
  <2>1. PICK j \in Jobs : j = thread[c].job
    BY <1>2, GoesOn DEF ExecutorReturns, Within
  <2>2. /\ Step(c, j, "executing", "returned")
        /\ thread' \in [Trainers -> [pc : {"idle", "done"}] \union Executions \union Creations]
    BY <1>2, <2>1, GoesOn DEF ExecutorReturns, Within
  <2>3. job' = [job EXCEPT ![j].metrics = c] /\ c # Nothing
    BY <1>2, <2>1, NothingAssumption DEF ExecutorReturns
  <2>4. /\ job' \in [Jobs -> JobRecords] /\ \A i \in Jobs : i # j => job'[i] = job[i]
        /\ job'[j].metrics = c /\ job'[j].status = job[j].status /\ job'[j].error = job[j].error
    BY <2>3, MetricsField
  <2>5. thread'[c].pc = "returned" /\ thread'[c].job = j /\ thread[c].pc = "executing"
    BY <2>2 DEF Step
  <2>6. job[j].status # "pending"
    BY <2>1, <2>5 DEF JobInv, Busy
  <2>7. job[j].status = "failed" =>
           job[j].error # Nothing \/ \E d \in Trainers : thread'[d].pc = "raised" /\ thread'[d].job = j
    <3>1. job[j].status = "failed" => job[j].error # Nothing \/ Busy(j, {"raised"}) # {}
      BY DEF JobInv, JobsAddUp
    <3>2. \A d \in Trainers : thread[d].pc = "raised" => thread'[d] = thread[d]
      BY <2>2, <2>5 DEF Step
    <3> QED
      BY <3>1, <3>2 DEF Busy
  <2>8. JobInv'
    BY <2>2, <2>3, <2>4, <2>5, <2>6, <2>7, StepOnJob
  <2> QED
    BY <1>2, <2>2, <2>4, <2>8 DEF TuningTypeOK, ExecutorReturns
<1>3. ASSUME ExecuteCompletes(c) PROVE JobInv' /\ TuningTypeOK'
  <2>1. PICK j \in Jobs : j = thread[c].job
    BY <1>3, GoesOn DEF ExecuteCompletes, Within
  <2>2. /\ Step(c, j, "returned", "done")
        /\ thread' \in [Trainers -> [pc : {"idle", "done"}] \union Executions \union Creations]
    BY <1>3, <2>1, GoesOn DEF ExecuteCompletes, Within
  <2>3. job' = [job EXCEPT ![j].status = "completed"] /\ job[j].metrics # Nothing
    BY <1>3, <2>1 DEF ExecuteCompletes, Within, JobInv
  <2>4. /\ job' \in [Jobs -> JobRecords] /\ \A i \in Jobs : i # j => job'[i] = job[i]
        /\ job'[j].status = "completed" /\ job'[j].metrics = job[j].metrics
    BY <2>3, StatusField
  <2>5. JobInv'
    BY <2>2, <2>3, <2>4, StepOnJob
  <2> QED
    BY <1>3, <2>2, <2>4, <2>5 DEF TuningTypeOK, ExecuteCompletes
<1>4. ASSUME ExecutorRaises(c) PROVE JobInv' /\ TuningTypeOK'
  <2>1. PICK j \in Jobs : j = thread[c].job
    BY <1>4, GoesOn DEF ExecutorRaises, Within
  <2>2. /\ Step(c, j, "executing", "raised")
        /\ thread' \in [Trainers -> [pc : {"idle", "done"}] \union Executions \union Creations]
    BY <1>4, <2>1, GoesOn DEF ExecutorRaises, Within
  <2>3. job' = [job EXCEPT ![j].status = "failed"]
    BY <1>4, <2>1 DEF ExecutorRaises
  <2>4. /\ job' \in [Jobs -> JobRecords] /\ \A i \in Jobs : i # j => job'[i] = job[i]
        /\ job'[j].status = "failed" /\ job'[j].metrics = job[j].metrics
    BY <2>3, StatusField
  <2>5. thread'[c].pc = "raised" /\ thread'[c].job = j
    BY <2>2 DEF Step
  <2>6. JobInv'
    BY <2>2, <2>4, <2>5, StepOnJob
  <2> QED
    BY <1>4, <2>2, <2>4, <2>6 DEF TuningTypeOK, ExecutorRaises
<1>5. ASSUME ExecuteFails(c) PROVE JobInv' /\ TuningTypeOK'
  <2>1. PICK j \in Jobs : j = thread[c].job
    BY <1>5, GoesOn DEF ExecuteFails, Within
  <2>2. /\ Step(c, j, "raised", "done")
        /\ thread' \in [Trainers -> [pc : {"idle", "done"}] \union Executions \union Creations]
    BY <1>5, <2>1, GoesOn DEF ExecuteFails, Within
  <2>3. job' = [job EXCEPT ![j].error = c] /\ c # Nothing
    BY <1>5, <2>1, NothingAssumption DEF ExecuteFails
  <2>4. /\ job' \in [Jobs -> JobRecords] /\ \A i \in Jobs : i # j => job'[i] = job[i]
        /\ job'[j].error = c /\ job'[j].status = job[j].status /\ job'[j].metrics = job[j].metrics
    BY <2>3, ErrorField
  <2>5. thread[c].pc = "raised" /\ thread[c].job = j /\ \A d \in Trainers : d # c => thread'[d] = thread[d]
    BY <2>2 DEF Step
  <2>6. job[j].status # "pending"
    BY <2>5 DEF JobInv, Busy
  <2>7. /\ job[j].status = "running" =>
              \E d \in Trainers : thread'[d].pc \in {"executing", "returned"} /\ thread'[d].job = j
        /\ job[j].status = "completed" => job[j].metrics # Nothing
    <3>1. /\ job[j].status = "running" => Busy(j, {"executing", "returned"}) # {}
          /\ job[j].status = "completed" => job[j].metrics # Nothing
      BY DEF JobInv, JobsAddUp
    <3>2. \A d \in Trainers : thread[d].pc \in {"executing", "returned"} => thread'[d] = thread[d]
      BY <2>5
    <3> QED
      BY <3>1, <3>2 DEF Busy
  <2>8. JobInv'
    BY <2>2, <2>3, <2>4, <2>6, <2>7, StepOnJob
  <2> QED
    BY <1>5, <2>2, <2>4, <2>8 DEF TuningTypeOK, ExecuteFails
<1>6. ASSUME NEW j \in Jobs, CancelTest(c, j) PROVE JobInv' /\ TuningTypeOK'
  <2>1. /\ Step(c, j, "idle", "cancelling") /\ UNCHANGED job
        /\ thread' \in [Trainers -> [pc : {"idle", "done"}] \union Executions \union Creations]
    BY <1>6, Starting DEF CancelTest
  <2>2. \A d \in Trainers : \/ thread'[d] = thread[d]
                            \/ thread[d].pc = "idle" /\ thread'[d].pc = "cancelling"
    BY <2>1 DEF Step
  <2>3. JobInv'
    BY <2>1, <2>2, JobsUntouched
  <2> QED
    BY <1>6, <2>1, <2>3 DEF TuningTypeOK, CancelTest
<1>7. ASSUME CancelSet(c) PROVE JobInv' /\ TuningTypeOK'
  <2>1. PICK j \in Jobs : j = thread[c].job
    BY <1>7, GoesOn DEF CancelSet, Within
  <2>2. /\ Step(c, j, "cancelling", "done")
        /\ thread' \in [Trainers -> [pc : {"idle", "done"}] \union Executions \union Creations]
    BY <1>7, <2>1, GoesOn DEF CancelSet, Within
  <2>3. job' = [job EXCEPT ![j].status = "cancelled"]
    BY <1>7, <2>1 DEF CancelSet
  <2>4. /\ job' \in [Jobs -> JobRecords] /\ \A i \in Jobs : i # j => job'[i] = job[i]
        /\ job'[j].status = "cancelled" /\ job'[j].metrics = job[j].metrics
    BY <2>3, StatusField
  <2>5. JobInv'
    BY <2>2, <2>4, StepOnJob
  <2> QED
    BY <1>7, <2>2, <2>4, <2>5 DEF TuningTypeOK, CancelSet
<1> QED
  BY <1>1, <1>2, <1>3, <1>4, <1>5, <1>6, <1>7 DEF JobCalls

-----------------------------------------------------------------------------
\* A step after which no more threads are at work on v than before, none further on,
\* and its file and registrations are as they were or gone.
LEMMA VersionUntouched ==
    ASSUME NEW v \in Computed, VersionOK(v), file'[v] = file[v],
           \A m \in Managers : registry'[m][v] = registry[m][v] \/ registry'[m][v] = Nothing,
           \A c \in Trainers : \/ thread'[c] = thread[c]
                               \/ /\ thread[c].pc \notin {"open", "flush"} \/ thread[c].id # v
                                  /\ thread'[c].pc \notin {"open", "flush", "register"} \/ thread'[c].id # v
    PROVE  VersionOK(v)'
<1>1. Written(v) => Written(v)'
  <2>1. ASSUME NEW c \in Rewriting(v) PROVE c \in Rewriting(v)'
    BY <2>1 DEF Rewriting
  <2> QED
    BY <2>1 DEF Written
<1>2. ASSUME NEW c \in Trainers, thread'[c].pc \in {"open", "flush", "register"}, thread'[c].id = v
      PROVE  thread'[c] = thread[c]
  BY <1>2
<1> QED
  BY <1>1, <1>2 DEF VersionOK

LEMMA CreateReadKeeps ==
    ASSUME TuningTypeOK, VersionInv, NEW c \in Trainers, NEW k \in Managers, NEW d \in Datasets,
           NEW name \in Names \union {Nothing}, CreateRead(c, k, d, name)
    PROVE  TuningTypeOK' /\ VersionInv'
<1> DEFINE x == [pc |-> "open", manager |-> k, id |-> VersionId(name, Unique(d)),
                 content |-> Unique(d), count |-> Len(d)]
<1>1. Len(d) \in Nat /\ VersionId(name, Unique(d)) \in Ids /\ Unique(d) \in Contents
  BY DatasetsAreFiles DEF Ids, VersionId, Contents
<1>2. x \in Creations
  BY <1>1 DEF Creations
<1>3. Proceed(c, x) /\ UNCHANGED <<job, submitted, file, registry>> /\ thread[c].pc = "idle"
  BY DEF CreateRead, Within
<1>4. x.pc = "open" /\ x.id = VersionId(name, Unique(d)) /\ x.content = Unique(d) /\ x.count = Len(d)
  OBVIOUS
<1> HIDE DEF x
<1>5. /\ thread' \in [Trainers -> [pc : {"idle", "done"}] \union Executions \union Creations]
      /\ thread'[c] = x /\ \A e \in Trainers : e # c => thread'[e] = thread[e]
  BY <1>2, <1>3, Proceeds
<1>6. ASSUME NEW v \in Computed PROVE VersionOK(v)'
  <2>1. VersionOK(v) /\ v \notin Names
    BY DEF VersionInv, Computed
  <2>2. Written(v) => Written(v)'
    <3>1. \A e \in Rewriting(v) : e \in Rewriting(v)'
      BY <1>3, <1>5 DEF Rewriting
    <3> QED
      BY <1>3, <3>1 DEF Written
  <2>3. x.id = v => x.content = v /\ Len(v) <= x.count
    BY <1>4, <2>1, UniqueIsShorter DEF VersionId
  <2> QED
    BY <1>3, <1>4, <1>5, <2>1, <2>2, <2>3 DEF VersionOK
<1> QED
  BY <1>3, <1>5, <1>6 DEF TuningTypeOK, VersionInv

LEMMA CreateOpenKeeps ==
    ASSUME TuningTypeOK, VersionInv, NEW c \in Trainers, CreateOpen(c)
    PROVE  TuningTypeOK' /\ VersionInv'
<1>1. PICK x \in Creations : x = thread[c]
  BY ThreadFields DEF CreateOpen, Within
<1> PICK y : y = [x EXCEPT !.pc = "flush"]
  OBVIOUS
<1>2. y \in Creations /\ y.pc = "flush" /\ y.id = x.id /\ y.content = x.content /\ y.count = x.count
  BY DEF Creations
<1>3. Proceed(c, y) /\ x.pc = "open" /\ x.id \in Ids
  BY <1>1 DEF CreateOpen, Within, Creations
<1>4. /\ thread' \in [Trainers -> [pc : {"idle", "done"}] \union Executions \union Creations]
      /\ thread'[c] = y /\ \A d \in Trainers : d # c => thread'[d] = thread[d]
  BY <1>2, <1>3, Proceeds
<1>5. /\ file' = [file EXCEPT ![x.id] = <<>>] /\ UNCHANGED <<job, submitted, registry>>
      /\ file' = [v \in Ids |-> file'[v]]
      /\ file'[x.id] = <<>> /\ \A v \in Ids : v # x.id => file'[v] = file[v]
  BY <1>1, <1>3 DEF CreateOpen, TuningTypeOK
<1>6. ASSUME NEW v \in Computed PROVE VersionOK(v)'
  <2>1. VersionOK(v) /\ v \in Ids
    BY DEF VersionInv, Computed
  <2>2. CASE v = x.id
    <3>1. Written(v)'
      <4>1. thread'[c].pc = "flush" /\ thread'[c].id = v
        BY <1>2, <1>4, <2>2
      <4>2. c \in Rewriting(v)'
        BY <4>1 DEF Rewriting
      <4> QED
        BY <4>2 DEF Written
    <3> QED
      <4>1. file'[v] = <<>> /\ UNCHANGED registry
        BY <1>5, <2>2
      <4>2. x.content = v /\ Len(v) <= x.count
        BY <1>1, <1>3, <2>1, <2>2 DEF VersionOK
      <4>3. \A d \in Trainers : thread'[d].pc \in {"open", "flush", "register"} /\ thread'[d].id = v =>
               thread'[d].content = v /\ Len(v) <= thread'[d].count
        BY <1>2, <1>4, <2>1, <4>2 DEF VersionOK
      <4> QED
        BY <2>1, <3>1, <4>1, <4>3 DEF VersionOK
  <2>3. CASE v # x.id
    <3>1. thread[c].id # v /\ thread'[c].id # v
      BY <1>1, <1>2, <1>4, <2>3
    <3>2. file'[v] = file[v] /\ UNCHANGED registry
      BY <1>5, <2>1, <2>3
    <3> QED
      BY <1>4, <2>1, <3>1, <3>2, VersionUntouched
  <2> QED
    BY <2>2, <2>3
<1> QED
  BY <1>4, <1>5, <1>6 DEF TuningTypeOK, VersionInv

LEMMA CreateFlushKeeps ==
    ASSUME TuningTypeOK, VersionInv, NEW c \in Trainers, CreateFlush(c)
    PROVE  TuningTypeOK' /\ VersionInv'
<1>1. PICK x \in Creations : x = thread[c]
  BY ThreadFields DEF CreateFlush, Within
<1> PICK y : y = [x EXCEPT !.pc = "register"]
  OBVIOUS
<1>2. y \in Creations /\ y.pc = "register" /\ y.id = x.id /\ y.content = x.content /\ y.count = x.count
  BY DEF Creations
<1>3. Proceed(c, y) /\ x.pc = "flush" /\ x.id \in Ids
  BY <1>1 DEF CreateFlush, Within, Creations
<1>4. /\ thread' \in [Trainers -> [pc : {"idle", "done"}] \union Executions \union Creations]
      /\ thread'[c] = y /\ \A d \in Trainers : d # c => thread'[d] = thread[d]
  BY <1>2, <1>3, Proceeds
<1>5. PICK old : old = file[x.id]
  OBVIOUS
<1>6. /\ file' = [file EXCEPT ![x.id] = x.content \o SubSeq(old, Len(x.content) + 1, Len(old))]
      /\ UNCHANGED <<job, submitted, registry>>
  BY <1>1, <1>5 DEF CreateFlush
<1>7. /\ file' = [v \in Ids |-> file'[v]]
      /\ file'[x.id] = x.content \o SubSeq(old, Len(x.content) + 1, Len(old))
      /\ \A v \in Ids : v # x.id => file'[v] = file[v]
  BY <1>3, <1>6 DEF TuningTypeOK
<1>8. ASSUME NEW v \in Computed PROVE VersionOK(v)'
  <2>1. VersionOK(v) /\ v \in Ids
    BY DEF VersionInv, Computed
  <2>2. CASE v = x.id
    <3>1. x.content = v /\ old \in {<<>>, v} /\ Len(v) <= x.count
      BY <1>1, <1>3, <1>5, <2>1, <2>2 DEF VersionOK
    <3>2. file'[v] = v
      BY <1>7, <2>2, <3>1, Overwritten
    <3>3. Written(v)'
      BY <3>2 DEF Written
    <3>4. \A d \in Trainers : thread'[d].pc \in {"open", "flush", "register"} /\ thread'[d].id = v =>
                                  thread'[d].content = v /\ Len(v) <= thread'[d].count
      <4>1. \A d \in Trainers \ {c} : thread'[d] = thread[d]
        BY <1>4
      <4>2. thread'[c].content = v /\ Len(v) <= thread'[c].count
        BY <1>2, <1>4, <3>1
      <4>3. \A d \in Trainers : thread[d].pc \in {"open", "flush", "register"} /\ thread[d].id = v =>
               thread[d].content = v /\ Len(v) <= thread[d].count
        BY <2>1 DEF VersionOK
      <4> QED
        BY <4>1, <4>2, <4>3, Zenon
    <3>5. UNCHANGED registry
      BY <1>6
    <3> QED
      BY <2>1, <3>2, <3>3, <3>4, <3>5 DEF VersionOK
  <2>3. CASE v # x.id
    <3>1. thread[c].id # v /\ thread'[c].id # v
      BY <1>1, <1>2, <1>4, <2>3
    <3>2. file'[v] = file[v] /\ UNCHANGED registry
      BY <1>6, <1>7, <2>1, <2>3
    <3> QED
      BY <1>4, <2>1, <3>1, <3>2, VersionUntouched
  <2> QED
    BY <2>2, <2>3
<1> QED
  BY <1>4, <1>6, <1>7, <1>8 DEF TuningTypeOK, VersionInv

LEMMA CreateRegisterKeeps ==
    ASSUME TuningTypeOK, VersionInv, NEW c \in Trainers, CreateRegister(c)
    PROVE  TuningTypeOK' /\ VersionInv'
<1>1. PICK x \in Creations : x = thread[c]
  BY ThreadFields DEF CreateRegister, Within
<1>2. Returned \in [pc : {"idle", "done"}] /\ Returned.pc = "done"
  BY DEF Returned
<1>3. /\ Proceed(c, Returned) /\ x.pc = "register" /\ x.id \in Ids /\ x.manager \in Managers
      /\ UNCHANGED <<job, submitted, file>>
      /\ registry' = [registry EXCEPT ![x.manager][x.id] = [content |-> x.content, count |-> x.count]]
  BY <1>1 DEF CreateRegister, Within, Creations
<1>4. /\ thread' \in [Trainers -> [pc : {"idle", "done"}] \union Executions \union Creations]
      /\ thread'[c] = Returned /\ \A d \in Trainers : d # c => thread'[d] = thread[d]
  BY <1>2, <1>3, Proceeds
<1>5. [content |-> x.content, count |-> x.count] \in Versions
  BY DEF Versions, Creations
<1>6. /\ registry' \in [Managers -> [Ids -> Versions \union {Nothing}]]
      /\ registry'[x.manager][x.id] = [content |-> x.content, count |-> x.count]
      /\ \A m \in Managers, v \in Ids : m # x.manager \/ v # x.id => registry'[m][v] = registry[m][v]
  BY <1>3, <1>5 DEF TuningTypeOK
<1>7. ASSUME NEW v \in Computed PROVE VersionOK(v)'
  <2>1. VersionOK(v) /\ v \in Ids
    BY DEF VersionInv, Computed
  <2>2. Rewriting(v)' = Rewriting(v)
    BY <1>1, <1>2, <1>3, <1>4 DEF Rewriting
  <2>3. Written(v)' <=> Written(v)
    BY <1>3, <2>2 DEF Written
  <2>4. v = x.id => Written(v) /\ x.content = v /\ Len(v) <= x.count
    BY <1>1, <1>3, <2>1 DEF VersionOK
  <2>5. \A m \in Managers : registry'[m][v] # Nothing =>
           Written(v)' /\ registry'[m][v].content = v /\ Len(v) <= registry'[m][v].count
    <3>1. ASSUME NEW m \in Managers, m = x.manager, v = x.id
          PROVE  registry'[m][v].content = x.content /\ registry'[m][v].count = x.count
      BY <1>6, <3>1
    <3>2. ASSUME NEW m \in Managers, registry[m][v] # Nothing
          PROVE  Written(v)' /\ registry[m][v].content = v /\ Len(v) <= registry[m][v].count
      BY <2>1, <2>3, <3>2 DEF VersionOK
    <3> QED
      BY <1>6, <2>1, <2>3, <2>4, <3>1, <3>2
  <2> QED
    BY <1>2, <1>3, <1>4, <2>1, <2>3, <2>5 DEF VersionOK
<1> QED
  BY <1>3, <1>4, <1>6, <1>7 DEF TuningTypeOK, VersionInv

LEMMA TuningStep ==
    TuningTypeOK /\ JobInv /\ VersionInv /\ [TuningNext]_tuningVars => TuningTypeOK' /\ JobInv' /\ VersionInv'
<1> SUFFICES ASSUME TuningTypeOK, JobInv, VersionInv, [TuningNext]_tuningVars
             PROVE  TuningTypeOK' /\ JobInv' /\ VersionInv'
  OBVIOUS
<1>1. ASSUME UNCHANGED <<file, registry, thread>> PROVE VersionInv'
  BY <1>1, VersionUntouched DEF VersionInv
<1>2. CASE Clear \/ \E j \in Jobs : Submit(j)
  <2>1. submitted' \subseteq Jobs /\ UNCHANGED <<job, file, registry, thread>>
    BY <1>2 DEF Clear, Submit, TuningTypeOK
  <2>2. JobInv'
    BY <2>1, JobsUntouched
  <2> QED
    BY <1>1, <2>1, <2>2 DEF TuningTypeOK
<1>3. ASSUME NEW c \in Trainers, JobCalls(c) PROVE TuningTypeOK' /\ JobInv' /\ VersionInv'
  <2>1. TuningTypeOK' /\ JobInv' /\ UNCHANGED <<file, registry>>
    BY <1>3, JobCallsKeep DEF JobCalls, ExecuteStart, CancelTest, ExecutorReturns, ExecuteCompletes,
                              ExecutorRaises, ExecuteFails, CancelSet
  <2>2. /\ thread[c].pc \in {"idle", "executing", "returned", "raised", "cancelling"}
        /\ thread'[c].pc \in {"done", "executing", "returned", "raised", "cancelling"}
        /\ \A d \in Trainers : d # c => thread'[d] = thread[d]
    <3>1. CASE \E j \in Jobs : ExecuteStart(c, j) \/ CancelTest(c, j)
      BY <3>1, Starting DEF ExecuteStart, CancelTest, Step
    <3>2. CASE ExecutorReturns(c) \/ ExecuteCompletes(c) \/ ExecutorRaises(c) \/ ExecuteFails(c) \/ CancelSet(c)
      BY <3>2, GoesOn DEF ExecutorReturns, ExecuteCompletes, ExecutorRaises, ExecuteFails, CancelSet, Step, Within
    <3> QED
      BY <1>3, <3>1, <3>2 DEF JobCalls
  <2>3. VersionInv'
    BY <2>1, <2>2, VersionUntouched DEF VersionInv
  <2> QED
    BY <2>1, <2>3
<1>4. ASSUME NEW m \in Managers, ClearVersions(m) PROVE TuningTypeOK' /\ JobInv' /\ VersionInv'
  <2>1. /\ UNCHANGED <<job, submitted, file, thread>>
        /\ registry' \in [Managers -> [Ids -> Versions \union {Nothing}]]
        /\ \A k \in Managers, v \in Ids : registry'[k][v] = registry[k][v] \/ registry'[k][v] = Nothing
    BY <1>4 DEF ClearVersions, TuningTypeOK
  <2>2. JobInv'
    BY <2>1, JobsUntouched
  <2>3. VersionInv'
    BY <2>1, VersionUntouched DEF VersionInv, Computed
  <2> QED
    BY <2>1, <2>2, <2>3 DEF TuningTypeOK
<1>5. ASSUME NEW c \in Trainers, VersionCalls(c) PROVE TuningTypeOK' /\ JobInv' /\ VersionInv'
  <2>1. TuningTypeOK' /\ VersionInv'
    BY <1>5, CreateReadKeeps, CreateOpenKeeps, CreateFlushKeeps, CreateRegisterKeeps DEF VersionCalls
  <2>2. /\ thread[c].pc \in {"idle", "open", "flush", "register"}
        /\ \E x : Proceed(c, x) /\ x.pc \in {"open", "flush", "register", "done"}
        /\ UNCHANGED job
    <3>1. CASE \E m \in Managers, d \in Datasets, name \in Names \union {Nothing} : CreateRead(c, m, d, name)
      BY <3>1 DEF CreateRead, Within
    <3>2. CASE CreateRegister(c)
      BY <3>2 DEF CreateRegister, Within, Returned
    <3>3. ASSUME NEW p \in {"flush", "register"}, Proceed(c, [thread[c] EXCEPT !.pc = p]), thread[c] \in Creations
          PROVE  \E x : Proceed(c, x) /\ x.pc \in {"open", "flush", "register", "done"}
      <4>1. [thread[c] EXCEPT !.pc = p].pc = p
        BY <3>3 DEF Creations
      <4> QED
        BY <3>3, <4>1
    <3>4. CASE CreateOpen(c)
      BY <3>3, <3>4, ThreadFields DEF CreateOpen, Within
    <3>5. CASE CreateFlush(c)
      BY <3>3, <3>5, ThreadFields DEF CreateFlush, Within
    <3> QED
      BY <1>5, <3>1, <3>2, <3>4, <3>5 DEF VersionCalls
  <2>3. thread'[c].pc \in {"open", "flush", "register", "done"} /\ \A d \in Trainers : d # c => thread'[d] = thread[d]
    BY <2>2 DEF Proceed, TuningTypeOK
  <2>4. JobInv'
    BY <2>2, <2>3, JobsUntouched
  <2> QED
    BY <2>1, <2>4
<1>6. CASE UNCHANGED tuningVars
  BY <1>1, <1>6, JobsUntouched DEF tuningVars, TuningTypeOK
<1> QED
  BY <1>2, <1>3, <1>4, <1>5, <1>6 DEF TuningNext, JobSteps, VersionSteps

\* Whatever executions and cancellations of a job (JobOrchestrator.execute, cancel) and calls
\* of create_version overlap, in however many managers, a job's status is backed by what its
\* executions did and a registered version with a computed identifier describes its file.
THEOREM TrainingRecordsStayTrue == TuningSpec => []TrainingRecordsTrue
<1>1. TuningTypeOK /\ JobInv /\ VersionInv => TrainingRecordsTrue
  <2> SUFFICES ASSUME TuningTypeOK, JobInv, VersionInv,
                      NEW m \in Managers, NEW v \in Computed, registry[m][v] # Nothing, Rewriting(v) = {}
               PROVE  /\ file[v] = registry[m][v].content
                      /\ Len(file[v]) <= registry[m][v].count
                      /\ \A w \in Computed :
                            registry[m][w] # Nothing /\ Rewriting(w) = {} =>
                                LET diff == CompareVersions(m, v, w)
                                IN  diff.identical => diff.added = 0 /\ diff.removed = 0
    BY DEF TrainingRecordsTrue, JobInv, VersionsMatchFiles, Computed
  <2>1. file[v] = v /\ registry[m][v].content = v /\ Len(v) <= registry[m][v].count
    BY DEF VersionInv, VersionOK, Written
  <2>2. ASSUME NEW w \in Computed, registry[m][w] # Nothing, Rewriting(w) = {}, CompareVersions(m, v, w).identical
        PROVE  CompareVersions(m, v, w).added = 0 /\ CompareVersions(m, v, w).removed = 0
    <3>1. registry[m][w].content = w
      BY <2>2 DEF VersionInv, VersionOK
    <3>2. v = w
      BY <2>1, <2>2, <3>1 DEF CompareVersions
    <3>3. ToSet(LoadEntries(w)) \ ToSet(LoadEntries(v)) = {} /\ ToSet(LoadEntries(v)) \ ToSet(LoadEntries(w)) = {}
      BY <3>2
    <3>4. Cardinality({}) = 0
      BY FS_EmptySet
    <3> QED
      BY <3>3, <3>4 DEF CompareVersions
  <2> QED
    BY <2>1, <2>2
<1> QED
  BY <1>1, TuningInitially, TuningStep, PTL DEF TuningSpec

-----------------------------------------------------------------------------
(***************************************************************************)
(* The queries.  A node is covered when it has been visited, or waits to   *)
(* be, at no greater depth.                                                *)
(***************************************************************************)
Open == stage \in {"search", "measure"}
Inside(d) == stage = "measure" \/ d < query.limit
Seen(n, d) == n \in DOMAIN visited /\ visited[n] <= d
Waiting(n, d) == \E i \in DOMAIN queue : queue[i].node = n /\ Len(queue[i].path) <= d
Covered(n, d) == Seen(n, d) \/ Waiting(n, d)

Notes == [row : Nat, depth : Nat]
Entries == [node : Nodes, path : Seq(Nat)]

QueryTypeOK ==
    /\ stored \in Seq(Edges)
    /\ query.kind \in {"trace", "reverse_trace", "find_path", "summary"}
    /\ query.start \in Nodes /\ query.goal \in Nodes /\ query.limit \in Nat
    /\ query.before \in 0 .. Len(stored)
    /\ stage \in {"idle", "search", "measure", "done"}
    /\ queue \in Seq(Entries)
    /\ DOMAIN visited \subseteq Nodes /\ \A n \in DOMAIN visited : visited[n] \in Nat
    /\ trail \in Seq(Notes)
    /\ \A i \in DOMAIN trail : trail[i].row \in DOMAIN stored
    /\ answer # <<>> => answer[1] \in Seq(Nat)
    /\ deepest \in Nat

\* The queue is sorted by depth and spans at most two depths; what was visited is no deeper.
InOrder ==
    /\ \A i, j \in DOMAIN queue : i <= j =>
          Len(queue[i].path) <= Len(queue[j].path) /\ Len(queue[j].path) <= Len(queue[i].path) + 1
    /\ \A n \in DOMAIN visited, i \in DOMAIN queue : visited[n] <= Len(queue[i].path)

\* What waits, and what was visited, is reached along the rows that are stored.
Walked ==
    /\ \A i \in DOMAIN queue :
          LET path == queue[i].path
          IN  /\ \A k \in DOMAIN path : path[k] \in DOMAIN stored
              /\ Walk(path, Len(path)) /\ Stand(path, Len(path)) = queue[i].node
    /\ \A n \in DOMAIN visited : Reaches(DOMAIN stored, n, visited[n])

\* Of a node that was visited within the limit, every row there was at the beginning has been
\* followed: its end is covered one row further, it is on the trail, and it is not the goal.
Followed ==
    \A n \in DOMAIN visited, r \in Old : Inside(visited[n]) /\ Near(r) = n =>
        /\ Inside(visited[n] + 1) => Covered(Far(r), visited[n] + 1)
        /\ Collecting => \E i \in DOMAIN trail : trail[i].row = r
        /\ query.kind = "find_path" => Far(r) # query.goal

\* What is on the trail leaves a node visited at that depth, nearest first, and no row twice.
Collected ==
    Collecting => \A i \in DOMAIN trail :
        /\ Near(trail[i].row) \in DOMAIN visited /\ visited[Near(trail[i].row)] = trail[i].depth
        /\ trail[i].depth < query.limit
        /\ \A j \in 1 .. i - 1 : trail[j].depth <= trail[i].depth /\ trail[j].row # trail[i].row

\* The second pass of summary: the nodes visited are no deeper than the depth so far, and no
\* nearer than where they were visited.
Measured ==
    stage = "measure" =>
        /\ \A n \in DOMAIN visited : visited[n] <= deepest
                                     /\ \A d \in 0 .. visited[n] - 1 : ~Reaches(Old, n, d)
        /\ deepest = 0 \/ \E n \in DOMAIN visited : visited[n] = deepest
        /\ query.kind = "summary"

\* The inductive invariant: a query that is under way, and one that has returned.
Searching ==
    Open => /\ InOrder /\ Walked /\ Followed /\ Collected /\ Measured
            /\ Inside(0) => Covered(query.start, 0)
            /\ query.kind = "find_path" => query.start # query.goal
            /\ answer = <<>>
            /\ stage = "search" => deepest = 0

QueryInv ==
    /\ QueryTypeOK /\ Searching /\ QueriesExact
    /\ stage = "measure" => TrailExact

-----------------------------------------------------------------------------
\* Both ends of a stored row are nodes.
LEMMA RowEnds ==
    ASSUME QueryTypeOK, NEW r \in DOMAIN stored
    PROVE  Near(r) \in Nodes /\ Far(r) \in Nodes
<1>1. stored[r] \in Edges
      BY DEF QueryTypeOK
<1> QED BY <1>1, ProvenanceAssumption DEF Near, Far

LEMMA ListDomain ==
    ASSUME NEW S, NEW s \in Seq(S)
    PROVE  Len(s) \in Nat /\ DOMAIN s = 1 .. Len(s)
OBVIOUS

LEMMA Lists ==
    ASSUME QueryTypeOK
    PROVE  /\ stored \in Seq(Edges) /\ Len(stored) \in Nat /\ DOMAIN stored = 1 .. Len(stored)
           /\ queue \in Seq(Entries) /\ Len(queue) \in Nat /\ DOMAIN queue = 1 .. Len(queue)
           /\ trail \in Seq(Notes) /\ Len(trail) \in Nat
           /\ DOMAIN trail = 1 .. Len(trail)
<1>1. stored \in Seq(Edges) /\ queue \in Seq(Entries) /\ trail \in Seq(Notes)
      BY DEF QueryTypeOK
<1> QED BY <1>1, ListDomain, Zenon

LEMMA EntryOfQueue ==
    ASSUME QueryTypeOK, NEW i \in DOMAIN queue
    PROVE  queue[i].node \in Nodes /\ queue[i].path \in Seq(Nat) /\ Len(queue[i].path) \in Nat
<1>1. queue[i] \in Entries
      BY DEF QueryTypeOK
<1> QED BY <1>1 DEF Entries

\* A walk of d + 1 rows ends with a row whose near end is d rows away.
LEMMA WalkBack ==
    ASSUME NEW from, NEW n, NEW d \in Nat, Reaches(from, n, d + 1)
    PROVE  \E r \in from : Far(r) = n /\ Reaches(from, Near(r), d)
<1>1. PICK w \in [1 .. d + 1 -> from] : Walk(w, d + 1) /\ Stand(w, d + 1) = n
      BY DEF Reaches
<1> DEFINE v == [i \in 1 .. d |-> w[i]]
<1>2. v \in [1 .. d -> from] /\ \A i \in 1 .. d : v[i] = w[i]
      OBVIOUS
<1> HIDE DEF v
<1>3. \A i \in 0 .. d : Stand(v, i) = Stand(w, i)
      BY <1>2 DEF Stand
<1>4. Walk(v, d)
      BY <1>1, <1>2, <1>3 DEF Walk
<1>5. Near(w[d + 1]) = Stand(v, d)
      <2>1. d + 1 \in 1 .. d + 1 /\ (d + 1) - 1 = d
            OBVIOUS
      <2>2. Near(w[d + 1]) = Stand(w, (d + 1) - 1)
            BY <1>1, <2>1 DEF Walk
      <2> QED BY <1>3, <2>1, <2>2
<1>6. w[d + 1] \in from /\ Far(w[d + 1]) = n
      BY <1>1 DEF Stand
<1> QED BY <1>2, <1>4, <1>5, <1>6 DEF Reaches

\* Only the start is no rows away.
LEMMA NoSteps ==
    ASSUME NEW from, NEW n
    PROVE  Reaches(from, n, 0) <=> n = query.start
<1>1. \A w : Walk(w, 0) /\ Stand(w, 0) = query.start
      BY DEF Walk, Stand
<1>2. \E w : w \in [1 .. 0 -> from]
      <2>1. [i \in 1 .. 0 |-> 0] \in [1 .. 0 -> from]
            OBVIOUS
      <2> QED BY <2>1
<1> QED BY <1>1, <1>2 DEF Reaches

\* A path that is a walk reaches its end.
LEMMA PathReaches ==
    ASSUME NEW from, NEW w \in Seq(Nat), \A k \in DOMAIN w : w[k] \in from, Walk(w, Len(w))
    PROVE  Reaches(from, Stand(w, Len(w)), Len(w))
<1>1. w \in [1 .. Len(w) -> from]
      OBVIOUS
<1> QED BY <1>1 DEF Reaches

\* One row more makes a walk one longer.
LEMMA WalkStep ==
    ASSUME NEW w \in Seq(Nat), Walk(w, Len(w)), NEW r \in Nat, Near(r) = Stand(w, Len(w)),
           NEW from, \A k \in DOMAIN w : w[k] \in from, r \in from
    PROVE  LET v == Grow(w, r)
           IN  /\ v \in Seq(Nat) /\ Len(v) = Len(w) + 1 /\ Walk(v, Len(v)) /\ Stand(v, Len(v)) = Far(r)
               /\ \A k \in DOMAIN v : v[k] \in from
<1> DEFINE v == Grow(w, r)
<1>1. /\ v \in Seq(Nat) /\ Len(v) = Len(w) + 1 /\ v[Len(w) + 1] = r
      /\ \A i \in 1 .. Len(w) : v[i] = w[i]
      BY DEF Grow
<1> HIDE DEF v
<1>2. \A i \in 0 .. Len(w) : Stand(v, i) = Stand(w, i)
      BY <1>1 DEF Stand
<1>3. ASSUME NEW i \in 1 .. Len(v)  PROVE Near(v[i]) = Stand(v, i - 1)
      <2>1. CASE i \in 1 .. Len(w)
            BY <1>1, <1>2, <2>1 DEF Walk
      <2>2. CASE i = Len(w) + 1
            <3>1. i - 1 = Len(w) /\ Len(w) \in 0 .. Len(w)
                  BY <2>2
            <3> QED BY <1>1, <1>2, <2>2, <3>1
      <2> QED BY <1>1, <2>1, <2>2
<1>4. Walk(v, Len(v))
      BY <1>3 DEF Walk
<1>5. Stand(v, Len(v)) = Far(r)
      BY <1>1 DEF Stand
<1>6. \A k \in DOMAIN v : v[k] \in from
      BY <1>1
<1> QED BY <1>1, <1>4, <1>5, <1>6 DEF v

\* The end of a walk of d rows there were at the beginning has been visited, no deeper than d,
\* unless something that waits is no deeper.  By induction on d.
LEMMA Nearest ==
    ASSUME QueryTypeOK, Open, Searching, NEW d \in Nat, Inside(d), NEW n, Reaches(Old, n, d)
    PROVE  Seen(n, d) \/ \E i \in DOMAIN queue : Len(queue[i].path) <= d
<1> DEFINE Past(e) == \E i \in DOMAIN queue : Len(queue[i].path) <= e
           S == {e \in Nat : Inside(e) => \A m : Reaches(Old, m, e) => Seen(m, e) \/ Past(e)}
<1>1. 0 \in S
      <2>1. Inside(0) => Covered(query.start, 0)
            BY DEF Searching
      <2> QED BY <2>1, NoSteps DEF Covered, Waiting
<1>2. ASSUME NEW e \in Nat, e \in S
      PROVE  e + 1 \in S
      <2>1. ASSUME Inside(e + 1), NEW m, Reaches(Old, m, e + 1)
            PROVE  Seen(m, e + 1) \/ Past(e + 1)
            <3>1. PICK r \in Old : Far(r) = m /\ Reaches(Old, Near(r), e)
                  BY <2>1, WalkBack
            <3>2. Inside(e)
                  BY <2>1 DEF Inside, QueryTypeOK
            <3>3. CASE Past(e)
                  <4>1. PICK i \in DOMAIN queue : Len(queue[i].path) <= e
                        BY <3>3
                  <4>2. Len(queue[i].path) \in Nat
                        BY EntryOfQueue
                  <4>3. Len(queue[i].path) <= e + 1
                        BY <4>1, <4>2
                  <4> QED BY <4>3
            <3>4. CASE Seen(Near(r), e)
                  <4>1. /\ visited[Near(r)] \in Nat /\ visited[Near(r)] <= e
                        /\ Near(r) \in DOMAIN visited
                        BY <3>4 DEF Seen, QueryTypeOK
                  <4>2. Inside(visited[Near(r)]) /\ Inside(visited[Near(r)] + 1)
                        BY <2>1, <4>1 DEF Inside, QueryTypeOK
                  <4>3. Covered(m, visited[Near(r)] + 1)
                        BY <3>1, <4>1, <4>2 DEF Searching, Followed
                  <4>4. CASE Seen(m, visited[Near(r)] + 1)
                        BY <4>1, <4>4 DEF Seen, QueryTypeOK
                  <4>5. CASE Waiting(m, visited[Near(r)] + 1)
                        <5>1. PICK i \in DOMAIN queue : Len(queue[i].path) <= visited[Near(r)] + 1
                              BY <4>5 DEF Waiting
                        <5>2. Len(queue[i].path) \in Nat
                              BY EntryOfQueue
                        <5>3. Len(queue[i].path) <= e + 1
                              BY <4>1, <5>1, <5>2
                        <5> QED BY <5>3
                  <4> QED BY <4>3, <4>4, <4>5 DEF Covered
            <3>5. Seen(Near(r), e) \/ Past(e)
                  BY <1>2, <3>1, <3>2
            <3> QED BY <3>3, <3>4, <3>5
      <2> QED BY <2>1
<1> HIDE DEF S
<1>3. d \in S
      BY <1>1, <1>2, Inductive
<1> QED BY <1>3 DEF S

LEMMA HeadOfQueue ==
    ASSUME QueryTypeOK, queue # <<>>
    PROVE  /\ 1 \in DOMAIN queue /\ Head(queue) = queue[1]
           /\ Node = queue[1].node /\ Path = queue[1].path
           /\ Node \in Nodes /\ Path \in Seq(Nat) /\ Len(Path) \in Nat
           /\ Rest(queue) \in Seq(Entries)
           /\ Len(Rest(queue)) = Len(queue) - 1 /\ Len(queue) \in Nat /\ Len(queue) >= 1
           /\ \A i \in 1 .. Len(queue) - 1 : Rest(queue)[i] = queue[i + 1] /\ i + 1 \in DOMAIN queue
<1>1. /\ queue \in Seq(Entries) /\ Len(queue) \in Nat /\ Len(queue) >= 1
      /\ Head(queue) = queue[1] /\ 1 \in DOMAIN queue
      BY DEF QueryTypeOK
<1>2. queue[1] \in Entries
      BY <1>1
<1>3. Node = queue[1].node /\ Path = queue[1].path /\ Node \in Nodes /\ Path \in Seq(Nat) /\ Len(Path) \in Nat
      BY <1>1, <1>2 DEF Node, Path, Entries
<1>4. /\ Rest(queue) \in Seq(Entries)
      /\ Len(Rest(queue)) = Len(queue) - 1
      /\ \A i \in 1 .. Len(queue) - 1 : Rest(queue)[i] = queue[i + 1] /\ i + 1 \in DOMAIN queue
      BY <1>1 DEF Rest
<1> QED BY <1>1, <1>3, <1>4

\* What was there is nearer than the head of the queue only if it has been visited.
\* Once the head of the queue is deeper, the end has been visited.
LEMMA NearestVisited ==
    ASSUME QueryTypeOK, Open, Searching, NEW d \in Nat, Inside(d), NEW n, Reaches(Old, n, d),
           queue = <<>> \/ d < Len(Path)
    PROVE  Seen(n, d)
<1>1. ASSUME NEW i \in DOMAIN queue, Len(queue[i].path) <= d  PROVE FALSE
      <2>1. queue # <<>>
            BY <1>1
      <2>2. Len(Path) <= Len(queue[i].path)
            <3>1. 1 \in DOMAIN queue /\ Path = queue[1].path /\ 1 <= i
                  BY <2>1, HeadOfQueue DEF QueryTypeOK
            <3> QED BY <3>1 DEF Searching, InOrder
      <2>3. Len(queue[i].path) \in Nat
            BY EntryOfQueue
      <2> QED BY <1>1, <2>1, <2>2, <2>3, HeadOfQueue
<1> QED BY <1>1, Nearest

-----------------------------------------------------------------------------
(* What a step of the loop does. *)

LEMMA Joined ==
    ASSUME NEW S, NEW s \in Seq(S), NEW m \in Nat, NEW g \in [1 .. m -> S]
    PROVE  /\ s \o g \in Seq(S) /\ Len(s \o g) = Len(s) + m /\ Len(s) \in Nat
           /\ \A i \in 1 .. Len(s) : (s \o g)[i] = s[i]
           /\ \A i \in 1 .. m : (s \o g)[Len(s) + i] = g[i]
<1>1. g \in Seq(S) /\ Len(g) = m /\ Len(s) \in Nat
      OBVIOUS
<1>2. /\ s \o g \in Seq(S) /\ Len(s \o g) = Len(s) + m
      /\ \A i \in 1 .. Len(s) + m : (s \o g)[i] = IF i <= Len(s) THEN s[i] ELSE g[i - Len(s)]
      BY <1>1, ConcatProperties
<1> DEFINE t == s \o g
<1> HIDE DEF t
<1>3. /\ t \in Seq(S) /\ Len(t) = Len(s) + m
      /\ \A i \in 1 .. Len(s) + m : t[i] = IF i <= Len(s) THEN s[i] ELSE g[i - Len(s)]
      BY <1>2 DEF t
<1>4. \A i \in 1 .. Len(s) : t[i] = s[i]
      BY <1>1, <1>3
<1>5. ASSUME NEW i \in 1 .. m  PROVE t[Len(s) + i] = g[i]
      <2>1. Len(s) + i \in 1 .. Len(s) + m /\ ~(Len(s) + i <= Len(s)) /\ (Len(s) + i) - Len(s) = i
            BY <1>1
      <2> QED BY <1>3, <2>1
<1> QED BY <1>1, <1>3, <1>4, <1>5 DEF t

\* A listing is a sequence that has every row of a node once.
LEMMA Listed ==
    ASSUME QueryTypeOK, NEW n, NEW found \in Listings(n)
    PROVE  \E m \in Nat :
              /\ DOMAIN found = 1 .. m
              /\ \A i \in 1 .. m : found[i] \in RowsAt(n)
              /\ \A i, j \in 1 .. m : found[i] = found[j] => i = j
              /\ \A r \in RowsAt(n) : \E i \in 1 .. m : found[i] = r
<1>1. IsFiniteSet(RowsAt(n))
      <2>1. RowsAt(n) \subseteq 1 .. Len(stored) /\ Len(stored) \in Nat
            BY Lists DEF RowsAt
      <2>2. IsFiniteSet(1 .. Len(stored))
            BY <2>1, FS_Interval
      <2> QED BY <2>1, <2>2, FS_Subset
<1>2. Cardinality(RowsAt(n)) \in Nat
      BY <1>1, FS_CardinalityType
<1> DEFINE m == Cardinality(RowsAt(n))
<1>3. /\ found \in [1 .. m -> RowsAt(n)]
      /\ \A i, j \in DOMAIN found : found[i] = found[j] => i = j
      /\ \A r \in RowsAt(n) : \E i \in 1 .. m : found[i] = r
      BY Zenon DEF Listings, Bijection, Injection, Surjection, IsInjective
<1> HIDE DEF m
<1>4. m \in Nat
      BY <1>2 DEF m
<1> QED BY <1>3, <1>4

LEMMA RowsAtStored ==
    ASSUME QueryTypeOK, NEW n, NEW r \in RowsAt(n)
    PROVE  r \in DOMAIN stored /\ r \in Nat /\ Near(r) = n /\ Far(r) \in Nodes
<1>1. r \in DOMAIN stored /\ Near(r) = n
      BY DEF RowsAt
<1>2. r \in Nat
      BY <1>1 DEF QueryTypeOK
<1> QED BY <1>1, <1>2, RowEnds

Enter(r) == [node |-> Far(r), path |-> Grow(Path, r)]

\* The queue after Follow: the rest, then the far ends of the rows of the node.
LEMMA FollowQueue ==
    ASSUME QueryTypeOK, Follow
    PROVE  /\ queue' \in Seq(Entries)
           /\ \A i \in DOMAIN queue' :
                 \/ i + 1 \in DOMAIN queue /\ queue'[i] = queue[i + 1]
                 \/ i > Len(queue) - 1 /\ \E r \in RowsAt(Node) : queue'[i] = Enter(r)
           /\ \A j \in DOMAIN queue : j # 1 => j - 1 \in DOMAIN queue' /\ queue'[j - 1] = queue[j]
           /\ \A r \in RowsAt(Node) : \E i \in DOMAIN queue' : queue'[i] = Enter(r)
<1>0. queue # <<>>
      BY DEF Follow, Turn
<1>1. PICK found \in Listings(Node) : queue' = Rest(queue) \o [k \in DOMAIN found |-> Enter(found[k])]
      BY DEF Follow, Enter
<1>2. PICK m \in Nat :
              /\ DOMAIN found = 1 .. m
              /\ \A i \in 1 .. m : found[i] \in RowsAt(Node)
              /\ \A r \in RowsAt(Node) : \E i \in 1 .. m : found[i] = r
      BY Listed
<1>3. ASSUME NEW r \in RowsAt(Node)  PROVE Enter(r) \in Entries
      <2>1. r \in Nat /\ Far(r) \in Nodes
            BY RowsAtStored
      <2>2. Grow(Path, r) \in Seq(Nat)
            BY <1>0, <2>1, HeadOfQueue DEF Grow
      <2> QED BY <2>1, <2>2 DEF Enter, Entries
<1> DEFINE g == [k \in DOMAIN found |-> Enter(found[k])]
<1>4. g \in [1 .. m -> Entries] /\ \A k \in 1 .. m : g[k] = Enter(found[k])
      BY <1>2, <1>3
<1> HIDE DEF g
<1> DEFINE s == Rest(queue)
<1>5. /\ s \in Seq(Entries) /\ Len(s) = Len(queue) - 1 /\ Len(queue) \in Nat /\ Len(queue) >= 1
      /\ \A i \in 1 .. Len(queue) - 1 : s[i] = queue[i + 1] /\ i + 1 \in DOMAIN queue
      BY <1>0, HeadOfQueue
<1> HIDE DEF s
<1>6. /\ queue' \in Seq(Entries) /\ Len(queue') = Len(s) + m /\ Len(s) \in Nat
      /\ \A i \in 1 .. Len(s) : queue'[i] = s[i]
      /\ \A i \in 1 .. m : queue'[Len(s) + i] = g[i]
      <2>1. queue' = s \o g
            BY <1>1 DEF g, s
      <2>2. s \in Seq(Entries) /\ g \in [1 .. m -> Entries]
            BY <1>4, <1>5
      <2>3. /\ s \o g \in Seq(Entries) /\ Len(s \o g) = Len(s) + m /\ Len(s) \in Nat
            /\ \A i \in 1 .. Len(s) : (s \o g)[i] = s[i]
            /\ \A i \in 1 .. m : (s \o g)[Len(s) + i] = g[i]
            BY ONLY m \in Nat, <2>2, Joined
      <2> QED BY ONLY <2>1, <2>3
<1>7. DOMAIN queue' = 1 .. Len(s) + m /\ DOMAIN queue = 1 .. Len(s) + 1
      <2>1. DOMAIN queue = 1 .. Len(queue)
            BY Lists
      <2> QED BY <1>5, <1>6, <2>1
<1>8. ASSUME NEW i \in DOMAIN queue'
      PROVE  \/ i + 1 \in DOMAIN queue /\ queue'[i] = queue[i + 1]
             \/ i > Len(queue) - 1 /\ \E r \in RowsAt(Node) : queue'[i] = Enter(r)
      <2>1. CASE i <= Len(s)
            BY <1>5, <1>6, <1>7, <2>1
      <2>2. CASE i > Len(s)
            <3>1. i - Len(s) \in 1 .. m /\ Len(s) + (i - Len(s)) = i
                  BY <1>6, <1>7, <2>2
            <3>2. queue'[i] = g[i - Len(s)]
                  BY <1>6, <3>1
            <3> QED BY <1>2, <1>4, <1>5, <2>2, <3>1, <3>2
      <2> QED BY <1>6, <1>7, <2>1, <2>2
<1>9. ASSUME NEW j \in DOMAIN queue, j # 1
      PROVE  j - 1 \in DOMAIN queue' /\ queue'[j - 1] = queue[j]
      <2>1. j - 1 \in 1 .. Len(s) /\ j - 1 \in 1 .. Len(s) + m /\ (j - 1) + 1 = j
            BY <1>6, <1>7, <1>9
      <2> QED BY <1>5, <1>6, <1>7, <2>1
<1>10. ASSUME NEW r \in RowsAt(Node)
       PROVE  \E i \in DOMAIN queue' : queue'[i] = Enter(r)
      <2>1. PICK k \in 1 .. m : found[k] = r
            BY <1>2
      <2>2. Len(s) + k \in DOMAIN queue'
            BY <1>6, <1>7
      <2> QED BY <1>4, <1>6, <2>1, <2>2
<1> QED BY <1>6, <1>8, <1>9, <1>10

\* The trail after Follow: what there was, then the rows of the node.
LEMMA FollowTrail ==
    ASSUME QueryTypeOK, Follow
    PROVE  /\ trail' \in Seq(Notes) /\ Len(trail') \in Nat /\ Len(trail) \in Nat
           /\ DOMAIN trail' = 1 .. Len(trail') /\ DOMAIN trail = 1 .. Len(trail)
           /\ Len(trail) <= Len(trail')
           /\ \A i \in 1 .. Len(trail) : trail'[i] = trail[i]
           /\ \A i \in 1 .. Len(trail') : i > Len(trail) =>
                 /\ trail'[i].row \in RowsAt(Node) /\ trail'[i].depth = Len(Path)
                 /\ \A j \in 1 .. Len(trail') : j > Len(trail) /\ j # i => trail'[j].row # trail'[i].row
           /\ Collecting => \A r \in RowsAt(Node) : \E i \in DOMAIN trail' : trail'[i].row = r
<1>0. queue # <<>>
      BY DEF Follow, Turn
<1>01. trail \in Seq(Notes) /\ Len(trail) \in Nat /\ DOMAIN trail = 1 .. Len(trail)
      BY Lists
<1>1. CASE ~Collecting
      <2>1. trail' = trail
            BY <1>1 DEF Follow
      <2> QED BY <1>01, <1>1, <2>1
<1>2. CASE Collecting
      <2>1. PICK found \in Listings(Node) :
               trail' = trail \o [k \in DOMAIN found |-> [row |-> found[k], depth |-> Len(Path)]]
            BY <1>2 DEF Follow
      <2>2. PICK m \in Nat :
              /\ DOMAIN found = 1 .. m
              /\ \A i \in 1 .. m : found[i] \in RowsAt(Node)
              /\ \A i, j \in 1 .. m : found[i] = found[j] => i = j
              /\ \A r \in RowsAt(Node) : \E i \in 1 .. m : found[i] = r
            BY Listed
      <2> DEFINE g == [k \in DOMAIN found |-> [row |-> found[k], depth |-> Len(Path)]]
      <2>3. /\ g \in [1 .. m -> Notes]
            /\ \A k \in 1 .. m : g[k].row = found[k] /\ g[k].depth = Len(Path)
            BY <1>0, <2>2, RowsAtStored, HeadOfQueue DEF Notes
      <2> HIDE DEF g
      <2>4. trail' = trail \o g
            BY <2>1 DEF g
      <2>5. /\ trail' \in Seq(Notes) /\ Len(trail') = Len(trail) + m
            /\ \A i \in 1 .. Len(trail) : trail'[i] = trail[i]
            /\ \A i \in 1 .. m : trail'[Len(trail) + i] = g[i]
            BY <1>01, <2>3, <2>4, Joined
      <2>6. DOMAIN trail' = 1 .. Len(trail')
            BY <2>5, ListDomain, Zenon
      <2>7. ASSUME NEW i \in 1 .. Len(trail'), i > Len(trail)
            PROVE  /\ i - Len(trail) \in 1 .. m
                   /\ trail'[i].row = found[i - Len(trail)] /\ trail'[i].depth = Len(Path)
            <3>1. i - Len(trail) \in 1 .. m /\ Len(trail) + (i - Len(trail)) = i
                  BY <1>01, <2>5, <2>7
            <3>2. trail'[i] = g[i - Len(trail)]
                  BY <2>5, <3>1
            <3> QED BY <2>3, <3>1, <3>2
      <2>8. ASSUME NEW r \in RowsAt(Node)  PROVE \E i \in DOMAIN trail' : trail'[i].row = r
            <3>1. PICK k \in 1 .. m : found[k] = r
                  BY <2>2
            <3>2. Len(trail) + k \in DOMAIN trail'
                  BY <1>01, <2>5, <2>6
            <3> QED BY <2>3, <2>5, <3>1, <3>2
      <2>9. ASSUME NEW i \in 1 .. Len(trail'), i > Len(trail),
                   NEW j \in 1 .. Len(trail'), j > Len(trail), j # i
            PROVE  trail'[j].row # trail'[i].row
            <3>1. i - Len(trail) # j - Len(trail)
                  BY <1>01, <2>5, <2>9
            <3> QED BY <2>2, <2>7, <2>9, <3>1
      <2>10. Len(trail') \in Nat /\ Len(trail) <= Len(trail')
            BY <1>01, <2>5
      <2> QED BY <1>01, <2>2, <2>5, <2>6, <2>7, <2>8, <2>9, <2>10
<1> QED BY <1>1, <1>2

\* Distances depend on the rows and the query alone.
LEMMA SameRows ==
    ASSUME stored' = stored, query' = query
    PROVE  /\ \A r : Near(r)' = Near(r) /\ Far(r)' = Far(r)
           /\ Old' = Old /\ (DOMAIN stored)' = DOMAIN stored
           /\ \A w, d : Walk(w, d)' <=> Walk(w, d)
           /\ \A w, i : Stand(w, i)' = Stand(w, i)
           /\ \A from, n, d : Reaches(from, n, d)' <=> Reaches(from, n, d)
<1>1. \A r : Near(r)' = Near(r) /\ Far(r)' = Far(r)
      BY DEF Near, Far
<1>2. \A w, i : Stand(w, i)' = Stand(w, i)
      BY <1>1 DEF Stand
<1>3. \A w, d : Walk(w, d)' <=> Walk(w, d)
      BY <1>1, <1>2 DEF Walk
<1>4. \A from, n, d : Reaches(from, n, d)' <=> Reaches(from, n, d)
      BY <1>2, <1>3 DEF Reaches
<1>5. Old' = Old
      BY DEF Old
<1> QED BY <1>1, <1>2, <1>3, <1>4, <1>5

LEMMA Visited ==
    ASSUME NEW n, NEW depth, visited' = Visit(n, depth)
    PROVE  /\ DOMAIN visited' = DOMAIN visited \union {n}
           /\ \A m \in DOMAIN visited : visited'[m] = visited[m]
           /\ n \notin DOMAIN visited => visited'[n] = depth
BY DEF Visit

\* What a turn of the loop that does not return does to the queue and the nodes visited.
LEMMA Advance ==
    ASSUME QueryTypeOK, Skip \/ Follow
    PROVE  /\ queue # <<>> /\ Open /\ UNCHANGED <<stored, query, stage, answer>>
           /\ \A i \in DOMAIN queue' :
                 \/ i + 1 \in DOMAIN queue /\ queue'[i] = queue[i + 1]
                 \/ Follow /\ i > Len(queue) - 1 /\ \E r \in RowsAt(Node) : queue'[i] = Enter(r)
           /\ \A j \in DOMAIN queue : j # 1 => j - 1 \in DOMAIN queue' /\ queue'[j - 1] = queue[j]
           /\ \A m \in DOMAIN visited : m \in DOMAIN visited' /\ visited'[m] = visited[m]
           /\ \A m \in DOMAIN visited' :
                 m \in DOMAIN visited \/ (m = Node /\ visited'[m] = Len(Path)
                                          /\ (Follow \/ (~Inside(Len(Path)) /\ query.kind = "find_path")))
           /\ Node \in DOMAIN visited \/ Node \in DOMAIN visited' \/ ~Inside(Len(Path))
           /\ Follow => Node \in DOMAIN visited' /\ Node \notin DOMAIN visited
                        /\ visited'[Node] = Len(Path) /\ Inside(Len(Path))
<1>1. CASE Skip
      <2>1. /\ queue # <<>> /\ Open /\ UNCHANGED <<stored, query, stage, answer>>
            /\ queue' = Rest(queue) /\ (Node \in DOMAIN visited \/ TooDeep)
            BY <1>1 DEF Skip, Turn, Open
      <2>2. /\ DOMAIN queue' = 1 .. Len(queue) - 1 /\ DOMAIN queue = 1 .. Len(queue)
            /\ Len(queue) \in Nat
            /\ \A i \in 1 .. Len(queue) - 1 : queue'[i] = queue[i + 1]
            <3>1. /\ Rest(queue) \in Seq(Entries) /\ Len(Rest(queue)) = Len(queue) - 1
                  /\ \A i \in 1 .. Len(queue) - 1 : Rest(queue)[i] = queue[i + 1]
                  BY <2>1, HeadOfQueue
            <3>2. DOMAIN Rest(queue) = 1 .. Len(Rest(queue))
                  BY <3>1, ListDomain, Zenon
            <3>3. queue' = Rest(queue)
                  BY <2>1
            <3>4. DOMAIN queue = 1 .. Len(queue) /\ Len(queue) \in Nat
                  BY Lists
            <3> QED BY ONLY <3>1, <3>2, <3>3, <3>4
      <2>3. \A i \in DOMAIN queue' : i + 1 \in DOMAIN queue /\ queue'[i] = queue[i + 1]
            BY <2>2
      <2>4. ASSUME NEW j \in DOMAIN queue, j # 1
            PROVE  j - 1 \in DOMAIN queue' /\ queue'[j - 1] = queue[j]
            <3>1. j - 1 \in 1 .. Len(queue) - 1 /\ (j - 1) + 1 = j
                  BY <2>2, <2>4
            <3> QED BY <2>2, <3>1
      <2>5. TooDeep => ~Inside(Len(Path))
            <3>1. Len(Path) \in Nat /\ query.limit \in Nat
                  BY <2>1, HeadOfQueue DEF QueryTypeOK
            <3> QED BY <3>1 DEF TooDeep, Inside
      <2>6. visited' = visited \/ (visited' = Visit(Node, Len(Path)) /\ query.kind = "find_path")
            BY <1>1 DEF Skip
      <2>7. ~Follow
            BY <2>1, <1>1, <2>5 DEF Skip, Follow
      <2>8. \A m \in DOMAIN visited : m \in DOMAIN visited' /\ visited'[m] = visited[m]
            BY <2>6, Visited
      <2>9. \A m \in DOMAIN visited' :
                 m \in DOMAIN visited \/ (m = Node /\ visited'[m] = Len(Path)
                                          /\ ~Inside(Len(Path)) /\ query.kind = "find_path")
            BY <2>1, <2>5, <2>6, Visited
      <2> QED BY <2>1, <2>3, <2>4, <2>5, <2>7, <2>8, <2>9
<1>2. CASE Follow
      <2>1. /\ queue # <<>> /\ Open /\ UNCHANGED <<stored, query, stage, answer>>
            /\ Node \notin DOMAIN visited /\ ~TooDeep /\ visited' = Visit(Node, Len(Path))
            BY <1>2 DEF Follow, Turn, Open
      <2>2. Inside(Len(Path))
            <3>1. Len(Path) \in Nat /\ query.limit \in Nat
                  BY <2>1, HeadOfQueue DEF QueryTypeOK
            <3> QED BY <2>1, <3>1 DEF TooDeep, Inside, Open
      <2>3. /\ DOMAIN visited' = DOMAIN visited \union {Node} /\ visited'[Node] = Len(Path)
            /\ \A m \in DOMAIN visited : visited'[m] = visited[m]
            BY <2>1, Visited
      <2> QED BY <1>2, <2>1, <2>2, <2>3, FollowQueue
<1> QED BY <1>1, <1>2

LEMMA HeadSeen ==
    ASSUME QueryTypeOK, Searching, Skip \/ Follow, Inside(Len(Path))
    PROVE  Node \in DOMAIN visited' /\ visited'[Node] <= Len(Path)
<1>1. 1 \in DOMAIN queue /\ Path = queue[1].path /\ Len(Path) \in Nat /\ InOrder
      BY Advance, HeadOfQueue DEF Searching
<1>2. CASE Node \in DOMAIN visited
      <2>1. visited[Node] <= Len(Path)
            BY <1>1, <1>2 DEF InOrder
      <2>2. Node \in DOMAIN visited' /\ visited'[Node] = visited[Node]
            BY <1>2, Advance
      <2> QED BY <2>1, <2>2
<1>3. CASE Node \notin DOMAIN visited
      <2>1. Node \in DOMAIN visited' /\ visited'[Node] = Len(Path)
            BY <1>3, Advance
      <2> QED BY <1>1, <2>1
<1> QED BY <1>2, <1>3

\* What is covered stays covered.
LEMMA CoveredKept ==
    ASSUME QueryTypeOK, Searching, Skip \/ Follow, NEW d \in Nat, Inside(d), NEW n, Covered(n, d)
    PROVE  Covered(n, d)'
<1>1. CASE Seen(n, d)
      BY <1>1, Advance DEF Seen, Covered
<1>2. CASE Waiting(n, d)
      <2>1. PICK j \in DOMAIN queue : queue[j].node = n /\ Len(queue[j].path) <= d
            BY <1>2 DEF Waiting
      <2>2. CASE j # 1
            <3>1. j - 1 \in DOMAIN queue' /\ queue'[j - 1] = queue[j]
                  BY <2>2, Advance
            <3>2. Waiting(n, d)'
                  BY <2>1, <3>1 DEF Waiting
            <3> QED BY <3>2 DEF Covered
      <2>3. CASE j = 1
            <3>1. n = Node /\ Len(Path) <= d /\ Len(Path) \in Nat
                  BY <2>1, <2>3, Advance, HeadOfQueue
            <3>2. Inside(Len(Path))
                  BY <3>1 DEF Inside, QueryTypeOK
            <3>3. n \in DOMAIN visited' /\ visited'[n] <= Len(Path)
                  BY <3>1, <3>2, HeadSeen
            <3>4. visited'[n] \in Nat
                  <4>1. CASE n \in DOMAIN visited
                        BY <4>1, Advance DEF QueryTypeOK
                  <4>2. CASE n \notin DOMAIN visited
                        BY <3>1, <3>3, <4>2, Advance
                  <4> QED BY <4>1, <4>2
            <3>5. visited'[n] <= d
                  BY <3>1, <3>3, <3>4
            <3> QED BY <3>3, <3>5 DEF Covered, Seen
      <2> QED BY <2>2, <2>3
<1> QED BY <1>1, <1>2 DEF Covered

LEMMA NextEntry ==
    ASSUME QueryTypeOK, queue # <<>>, NEW r \in RowsAt(Node)
    PROVE  Enter(r).node = Far(r) /\ Len(Enter(r).path) = Len(Path) + 1 /\ Len(Path) \in Nat
<1>1. r \in Nat /\ Path \in Seq(Nat) /\ Len(Path) \in Nat
      BY RowsAtStored, HeadOfQueue
<1>2. Len(Grow(Path, r)) = Len(Path) + 1
      BY <1>1 DEF Grow
<1> QED BY <1>1, <1>2 DEF Enter

LEMMA InOrderStep ==
    ASSUME QueryTypeOK, Searching, Skip \/ Follow, QueryTypeOK'
    PROVE  InOrder'
<1>1. 1 \in DOMAIN queue /\ Path = queue[1].path /\ Len(Path) \in Nat /\ InOrder /\ queue # <<>>
      BY Advance, HeadOfQueue DEF Searching
<1>2. /\ DOMAIN queue = 1 .. Len(queue) /\ Len(queue) \in Nat
      /\ DOMAIN queue' = 1 .. Len(queue') /\ Len(queue') \in Nat
      <2>1. queue' \in Seq(Entries)
            BY DEF QueryTypeOK
      <2> QED BY <2>1, Lists, ListDomain
<1> DEFINE Size(i) == Len(queue[i].path)
           NewSize(i) == Len(queue'[i].path)
<1>3. ASSUME NEW i \in DOMAIN queue'
      PROVE  \/ i + 1 \in DOMAIN queue /\ NewSize(i) = Size(i + 1)
             \/ i > Len(queue) - 1 /\ NewSize(i) = Len(Path) + 1 /\ Follow
      BY <1>1, Advance, NextEntry
<1>4. \A i \in DOMAIN queue : Size(i) \in Nat /\ Len(Path) <= Size(i) /\ Size(i) <= Len(Path) + 1
      <2>1. ASSUME NEW i \in DOMAIN queue
            PROVE  Size(i) \in Nat /\ Len(Path) <= Size(i) /\ Size(i) <= Len(Path) + 1
            <3>1. 1 <= i
                  BY <1>2
            <3> QED BY <1>1, <3>1, EntryOfQueue DEF InOrder
      <2> QED BY <2>1
<1>5. \A i, j \in DOMAIN queue : i <= j => Size(i) <= Size(j) /\ Size(j) <= Size(i) + 1
      BY <1>1 DEF InOrder
<1>6. \A n \in DOMAIN visited', i \in DOMAIN queue' : visited'[n] <= Len(queue'[i].path)
      <2> SUFFICES ASSUME NEW n \in DOMAIN visited', NEW i \in DOMAIN queue'
                   PROVE  visited'[n] <= NewSize(i)
          OBVIOUS
      <2>1. NewSize(i) >= Len(Path) /\ NewSize(i) \in Nat
            BY <1>1, <1>3, <1>4
      <2>2. visited'[n] <= Len(Path) /\ visited'[n] \in Nat
            <3>1. CASE n \in DOMAIN visited
                  <4>1. visited[n] <= Len(Path) /\ visited[n] \in Nat
                        BY <1>1, <3>1 DEF InOrder, QueryTypeOK
                  <4> QED BY <3>1, <4>1, Advance
            <3>2. CASE n \notin DOMAIN visited
                  BY <1>1, <3>2, Advance
            <3> QED BY <3>1, <3>2
      <2> QED BY <1>1, <2>1, <2>2
<1> HIDE DEF Size, NewSize
<1>7. ASSUME NEW i \in DOMAIN queue', NEW j \in DOMAIN queue', i <= j
      PROVE  NewSize(i) <= NewSize(j) /\ NewSize(j) <= NewSize(i) + 1
      <2>1. CASE i + 1 \in DOMAIN queue /\ NewSize(i) = Size(i + 1)
            <3>1. CASE j + 1 \in DOMAIN queue /\ NewSize(j) = Size(j + 1)
                  <4>1. i + 1 <= j + 1
                        BY <1>2, <1>7
                  <4> QED BY <1>5, <2>1, <3>1, <4>1
            <3>2. CASE NewSize(j) = Len(Path) + 1
                  BY <1>1, <1>4, <2>1, <3>2
            <3> QED BY <1>3, <3>1, <3>2
      <2>2. CASE i > Len(queue) - 1 /\ NewSize(i) = Len(Path) + 1
            <3>1. ~(j + 1 \in DOMAIN queue)
                  BY <1>2, <1>7, <2>2
            <3>2. NewSize(j) = Len(Path) + 1
                  BY <1>3, <3>1
            <3> QED BY <1>1, <2>2, <3>2
      <2> QED BY <1>3, <2>1, <2>2
<1> QED BY <1>6, <1>7 DEF InOrder, NewSize

LEMMA WalkedStep ==
    ASSUME QueryTypeOK, Searching, Skip \/ Follow
    PROVE  Walked'
<1>1. /\ 1 \in DOMAIN queue /\ Path = queue[1].path /\ Node = queue[1].node
      /\ Path \in Seq(Nat) /\ Walked /\ queue # <<>>
      BY Advance, HeadOfQueue DEF Searching
<1>2. /\ \A w, d : Walk(w, d)' <=> Walk(w, d)
      /\ \A w, i : Stand(w, i)' = Stand(w, i)
      /\ \A from, n, d : Reaches(from, n, d)' <=> Reaches(from, n, d)
      /\ stored' = stored
      BY Advance, SameRows
<1>3. /\ \A k \in DOMAIN Path : Path[k] \in DOMAIN stored
      /\ Walk(Path, Len(Path)) /\ Stand(Path, Len(Path)) = Node
      BY <1>1 DEF Walked
<1>4. ASSUME NEW i \in DOMAIN queue'
      PROVE  /\ \A k \in DOMAIN queue'[i].path : queue'[i].path[k] \in DOMAIN stored
             /\ Walk(queue'[i].path, Len(queue'[i].path))
             /\ Stand(queue'[i].path, Len(queue'[i].path)) = queue'[i].node
      <2>1. CASE i + 1 \in DOMAIN queue /\ queue'[i] = queue[i + 1]
            BY <1>1, <2>1 DEF Walked
      <2>2. CASE \E r \in RowsAt(Node) : queue'[i] = Enter(r)
            <3>1. PICK r \in RowsAt(Node) : queue'[i] = Enter(r)
                  BY <2>2
            <3>2. queue'[i].path = Grow(Path, r) /\ queue'[i].node = Far(r)
                  BY <3>1 DEF Enter
            <3>3. r \in Nat /\ r \in DOMAIN stored /\ Near(r) = Stand(Path, Len(Path))
                  BY <1>3, RowsAtStored
            <3>4. LET v == Grow(Path, r)
                  IN  /\ Walk(v, Len(v)) /\ Stand(v, Len(v)) = Far(r)
                      /\ \A k \in DOMAIN v : v[k] \in DOMAIN stored
                  BY <1>1, <1>3, <3>3, WalkStep
            <3> QED BY <3>2, <3>4
      <2> QED BY <2>1, <2>2, Advance
<1>5. ASSUME NEW n \in DOMAIN visited'
      PROVE  Reaches(DOMAIN stored, n, visited'[n])
      <2>1. CASE n \in DOMAIN visited
            BY <1>1, <2>1, Advance DEF Walked
      <2>2. CASE n \notin DOMAIN visited
            <3>1. n = Node /\ visited'[n] = Len(Path)
                  BY <2>2, Advance
            <3>2. Reaches(DOMAIN stored, Stand(Path, Len(Path)), Len(Path))
                  BY <1>1, <1>3, PathReaches
            <3> QED BY <1>3, <3>1, <3>2
      <2> QED BY <2>1, <2>2
<1>6. \A n \in DOMAIN visited' : Reaches(DOMAIN stored, n, visited[n])'
      BY <1>2, <1>5
<1>7. \A i \in DOMAIN queue' :
          /\ \A k \in DOMAIN queue'[i].path : queue'[i].path[k] \in DOMAIN stored'
          /\ Walk(queue[i].path, Len(queue[i].path))'
          /\ Stand(queue[i].path, Len(queue[i].path))' = queue'[i].node
      BY <1>2, <1>4
<1> QED BY <1>6, <1>7 DEF Walked

LEMMA FollowedStep ==
    ASSUME QueryTypeOK, Searching, Skip \/ Follow
    PROVE  Followed'
<1>1. /\ \A r : Near(r)' = Near(r) /\ Far(r)' = Far(r)
      /\ Old' = Old /\ stored' = stored /\ query' = query /\ stage' = stage /\ queue # <<>>
      /\ Open /\ Followed
      BY Advance, SameRows DEF Searching
<1>2. \A d : Inside(d)' <=> Inside(d)
      BY <1>1 DEF Inside
<1>3. Collecting' <=> Collecting
      BY <1>1 DEF Collecting
<1>4. \A i \in DOMAIN trail : i \in DOMAIN trail' /\ trail'[i] = trail[i]
      <2>1. CASE Skip
            BY <2>1 DEF Skip
      <2>2. CASE Follow
            BY <2>2, FollowTrail
      <2> QED BY <2>1, <2>2
<1>5. ASSUME NEW n \in DOMAIN visited', NEW r \in Old, Inside(visited'[n]), Near(r) = n
      PROVE  /\ Inside(visited'[n] + 1) => \E d : d = visited'[n] + 1 /\ Covered(Far(r), d)'
             /\ Collecting => \E i \in DOMAIN trail' : trail'[i].row = r
             /\ query.kind = "find_path" => Far(r) # query.goal
      <2>1. CASE n \in DOMAIN visited
            <3>1. visited'[n] = visited[n] /\ visited[n] \in Nat
                  BY <2>1, Advance DEF QueryTypeOK
            <3>2. /\ Inside(visited[n] + 1) => Covered(Far(r), visited[n] + 1)
                  /\ Collecting => \E i \in DOMAIN trail : trail[i].row = r
                  /\ query.kind = "find_path" => Far(r) # query.goal
                  BY <1>1, <1>5, <2>1, <3>1 DEF Followed
            <3>3. ASSUME Inside(visited[n] + 1)
                  PROVE  Covered(Far(r), visited[n] + 1)'
                  <4>1. PICK f, e : f = Far(r) /\ e = visited[n] + 1
                        OBVIOUS
                  <4>2. Covered(f, e)'
                        BY <3>1, <3>2, <3>3, <4>1, CoveredKept
                  <4> QED BY <1>1, <3>1, <4>1, <4>2
            <3> QED BY <1>4, <3>1, <3>2, <3>3
      <2>2. CASE n \notin DOMAIN visited
            <3>1. n = Node /\ visited'[n] = Len(Path) /\ Follow
                  BY <1>5, <2>2, Advance
            <3>2. r \in RowsAt(Node)
                  <4>1. r \in DOMAIN stored
                        BY Lists DEF Old, QueryTypeOK
                  <4> QED BY <1>5, <3>1, <4>1 DEF RowsAt
            <3>3. query.kind = "find_path" => Far(r) # query.goal
                  BY <3>1, <3>2 DEF Follow
            <3>4. Collecting => \E i \in DOMAIN trail' : trail'[i].row = r
                  BY <3>1, <3>2, FollowTrail
            <3>5. \E d : d = visited'[n] + 1 /\ Covered(Far(r), d)'
                  <4>1. PICK i \in DOMAIN queue' : queue'[i] = Enter(r)
                        BY <3>1, <3>2, FollowQueue
                  <4>2. queue'[i].node = Far(r) /\ Len(queue'[i].path) = Len(Path) + 1 /\ Len(Path) \in Nat
                        BY <1>1, <3>2, <4>1, NextEntry
                  <4>3. PICK f, d : f = Far(r) /\ d = Len(Path) + 1
                        OBVIOUS
                  <4>4. Covered(f, d)'
                        BY <4>2, <4>3 DEF Covered, Waiting
                  <4> QED BY <1>1, <3>1, <4>3, <4>4
            <3> QED BY <3>3, <3>4, <3>5
      <2> QED BY <2>1, <2>2
<1>6. ASSUME NEW n \in DOMAIN visited', NEW r \in Old', Inside(visited[n])', Near(r)' = n
      PROVE  /\ Inside(visited[n] + 1)' => Covered(Far(r), visited[n] + 1)'
             /\ Collecting' => \E i \in DOMAIN trail' : trail'[i].row = r
             /\ query'.kind = "find_path" => Far(r)' # query'.goal
      BY <1>1, <1>2, <1>3, <1>5, <1>6
<1> QED BY <1>6 DEF Followed

LEMMA CollectedStep ==
    ASSUME QueryTypeOK, Searching, Skip \/ Follow
    PROVE  Collected'
<1>1. /\ \A r : Near(r)' = Near(r) /\ stored' = stored /\ query' = query /\ stage' = stage
      /\ queue # <<>> /\ Open /\ Collected /\ InOrder
      BY Advance, SameRows DEF Searching
<1> SUFFICES ASSUME Collecting
             PROVE  \A i \in DOMAIN trail' :
                       /\ Near(trail'[i].row) \in DOMAIN visited'
                       /\ visited'[Near(trail'[i].row)] = trail'[i].depth
                       /\ trail'[i].depth < query.limit
                       /\ \A j \in 1 .. i - 1 : trail'[j].depth <= trail'[i].depth
                                                /\ trail'[j].row # trail'[i].row
    <2>1. Collecting' <=> Collecting
          BY <1>1 DEF Collecting
    <2> QED BY <1>1, <2>1 DEF Collected
<1>2. ASSUME NEW i \in DOMAIN trail
      PROVE  /\ Near(trail[i].row) \in DOMAIN visited'
             /\ visited'[Near(trail[i].row)] = trail[i].depth
             /\ trail[i].depth < query.limit
             /\ \A j \in 1 .. i - 1 : trail[j].depth <= trail[i].depth /\ trail[j].row # trail[i].row
             /\ Near(trail[i].row) \in DOMAIN visited /\ visited[Near(trail[i].row)] = trail[i].depth
      BY <1>1, Advance DEF Collected
<1>3. CASE Skip
      BY <1>2, <1>3 DEF Skip
<1>4. CASE Follow
      <2>1. /\ Len(trail') \in Nat /\ Len(trail) \in Nat
            /\ DOMAIN trail' = 1 .. Len(trail') /\ DOMAIN trail = 1 .. Len(trail)
            /\ \A i \in 1 .. Len(trail) : trail'[i] = trail[i]
            /\ \A i \in 1 .. Len(trail') : i > Len(trail) =>
                 /\ trail'[i].row \in RowsAt(Node) /\ trail'[i].depth = Len(Path)
                 /\ \A j \in 1 .. Len(trail') : j > Len(trail) /\ j # i => trail'[j].row # trail'[i].row
            BY <1>4, FollowTrail
      <2>2. /\ 1 \in DOMAIN queue /\ Path = queue[1].path /\ Len(Path) \in Nat
            /\ Node \notin DOMAIN visited /\ Node \in DOMAIN visited' /\ visited'[Node] = Len(Path)
            BY <1>1, <1>4, Advance, HeadOfQueue
      <2>3. Len(Path) < query.limit
            <3>1. query.limit \in Nat /\ stage = "search" /\ ~TooDeep
                  BY <1>4 DEF Follow, Collecting, QueryTypeOK
            <3> QED BY <2>2, <3>1 DEF TooDeep
      <2>4. ASSUME NEW i \in DOMAIN trail', i <= Len(trail)
            PROVE  /\ Near(trail'[i].row) \in DOMAIN visited'
                   /\ visited'[Near(trail'[i].row)] = trail'[i].depth
                   /\ trail'[i].depth < query.limit
                   /\ \A j \in 1 .. i - 1 : trail'[j].depth <= trail'[i].depth
                                            /\ trail'[j].row # trail'[i].row
            <3>1. i \in DOMAIN trail /\ \A j \in 1 .. i - 1 : j \in 1 .. Len(trail)
                  BY <2>1, <2>4
            <3>2. trail'[i] = trail[i] /\ \A j \in 1 .. i - 1 : trail'[j] = trail[j]
                  BY <2>1, <3>1
            <3> QED BY <1>2, <3>1, <3>2
      <2>5. ASSUME NEW i \in DOMAIN trail', i > Len(trail)
            PROVE  /\ Near(trail'[i].row) \in DOMAIN visited'
                   /\ visited'[Near(trail'[i].row)] = trail'[i].depth
                   /\ trail'[i].depth < query.limit
                   /\ \A j \in 1 .. i - 1 : trail'[j].depth <= trail'[i].depth
                                            /\ trail'[j].row # trail'[i].row
            <3>1. trail'[i].row \in RowsAt(Node) /\ trail'[i].depth = Len(Path)
                  BY <2>1, <2>5
            <3>2. Near(trail'[i].row) = Node
                  BY <3>1, RowsAtStored
            <3>3. ASSUME NEW j \in 1 .. i - 1, j <= Len(trail)
                  PROVE  trail'[j].depth <= Len(Path) /\ trail'[j].row # trail'[i].row
                  <4>1. j \in DOMAIN trail /\ trail'[j] = trail[j]
                        BY <2>1, <3>3
                  <4>2. /\ Near(trail[j].row) \in DOMAIN visited
                        /\ visited[Near(trail[j].row)] = trail[j].depth
                        BY <1>2, <4>1
                  <4>3. trail[j].depth <= Len(Path)
                        BY <1>1, <2>2, <4>2 DEF InOrder
                  <4> QED BY <2>2, <3>2, <4>1, <4>2, <4>3
            <3>4. ASSUME NEW j \in 1 .. i - 1, j > Len(trail)
                  PROVE  trail'[j].depth <= Len(Path) /\ trail'[j].row # trail'[i].row
                  <4>1. j \in 1 .. Len(trail') /\ j # i
                        BY <2>1, <3>4
                  <4>2. trail'[j].depth = Len(Path) /\ trail'[j].row # trail'[i].row
                        BY <2>1, <2>5, <3>4, <4>1
                  <4> QED BY <2>2, <4>2
            <3>5. \A j \in 1 .. i - 1 : j <= Len(trail) \/ j > Len(trail)
                  BY <2>1
            <3> QED BY <2>2, <2>3, <3>1, <3>2, <3>3, <3>4, <3>5
      <2>6. \A i \in DOMAIN trail' : i <= Len(trail) \/ i > Len(trail)
            BY <2>1
      <2> QED BY <2>4, <2>5, <2>6
<1> QED BY <1>3, <1>4

LEMMA MeasuredStep ==
    ASSUME QueryTypeOK, Searching, Skip \/ Follow
    PROVE  Measured'
<1>1. /\ Old' = Old /\ stored' = stored /\ query' = query /\ stage' = stage /\ queue # <<>>
      /\ \A from, n, d : Reaches(from, n, d)' <=> Reaches(from, n, d)
      /\ Open /\ Measured /\ Len(Path) \in Nat
      BY Advance, SameRows, HeadOfQueue DEF Searching
<1> SUFFICES ASSUME stage = "measure"
             PROVE  /\ \A n \in DOMAIN visited' :
                          visited'[n] <= deepest' /\ \A d \in 0 .. visited'[n] - 1 : ~Reaches(Old, n, d)
                    /\ deepest' = 0 \/ \E n \in DOMAIN visited' : visited'[n] = deepest'
    BY <1>1 DEF Measured
<1>2. query.kind # "find_path" /\ deepest \in Nat
      BY <1>1 DEF Measured, QueryTypeOK
<1>3. \A n \in DOMAIN visited : visited[n] \in Nat /\ visited[n] <= deepest
      BY <1>1 DEF Measured, QueryTypeOK
<1>4. /\ deepest' \in Nat /\ deepest <= deepest'
      /\ \A n \in DOMAIN visited' : n \notin DOMAIN visited => visited'[n] <= deepest'
      /\ deepest' = deepest \/ (Node \in DOMAIN visited' /\ visited'[Node] = deepest')
      <2>1. CASE Skip
            <3>1. deepest' = deepest /\ visited' = visited
                  BY <1>2, <2>1 DEF Skip
            <3> QED BY <1>2, <3>1
      <2>2. CASE Follow
            <3>1. deepest' = IF Len(Path) > deepest THEN Len(Path) ELSE deepest
                  BY <2>2 DEF Follow
            <3>2. \A n \in DOMAIN visited' : n \notin DOMAIN visited => visited'[n] = Len(Path)
                  BY Advance
            <3>3. Node \in DOMAIN visited' /\ visited'[Node] = Len(Path)
                  BY <2>2, Advance
            <3> QED BY <1>1, <1>2, <3>1, <3>2, <3>3
      <2> QED BY <2>1, <2>2
<1>5. ASSUME NEW n \in DOMAIN visited'
      PROVE  visited'[n] <= deepest' /\ \A d \in 0 .. visited'[n] - 1 : ~Reaches(Old, n, d)
      <2>1. CASE n \in DOMAIN visited
            <3>1. visited'[n] = visited[n] /\ visited[n] \in Nat /\ visited[n] <= deepest
                  BY <1>3, <2>1, Advance
            <3> QED BY <1>1, <1>2, <1>4, <2>1, <3>1 DEF Measured
      <2>2. CASE n \notin DOMAIN visited
            <3>1. n = Node /\ visited'[n] = Len(Path)
                  BY <2>2, Advance
            <3>2. ASSUME NEW d \in 0 .. Len(Path) - 1, Reaches(Old, n, d)  PROVE FALSE
                  <4>1. d \in Nat /\ d < Len(Path) /\ Inside(d)
                        BY <1>1 DEF Inside
                  <4>2. Seen(n, d)
                        BY <1>1, <3>2, <4>1, NearestVisited
                  <4> QED BY <2>2, <4>2 DEF Seen
            <3> QED BY <1>4, <2>2, <3>1, <3>2
      <2> QED BY <2>1, <2>2
<1>6. deepest' = 0 \/ \E n \in DOMAIN visited' : visited'[n] = deepest'
      <2>1. \A n \in DOMAIN visited : n \in DOMAIN visited' /\ visited'[n] = visited[n]
            BY Advance
      <2> QED BY <1>1, <1>4, <2>1 DEF Measured
<1> QED BY <1>5, <1>6

LEMMA StartKept ==
    ASSUME QueryTypeOK, Searching, Skip \/ Follow, Inside(0)'
    PROVE  Covered(query.start, 0)'
<1>1. query' = query /\ stage' = stage /\ Open
      BY Advance
<1>2. Inside(0) /\ Covered(query.start, 0)
      BY <1>1 DEF Inside, Searching
<1>3. PICK n : n = query.start
      OBVIOUS
<1>4. Covered(n, 0)'
      BY <1>2, <1>3, CoveredKept
<1> QED BY <1>1, <1>3, <1>4

LEMMA AdvanceTypes ==
    ASSUME QueryTypeOK, Skip \/ Follow
    PROVE  QueryTypeOK'
<1>1. /\ stored' = stored /\ query' = query /\ stage' = stage /\ answer' = answer /\ queue # <<>>
      BY Advance
<1>2. Len(Path) \in Nat /\ Node \in Nodes /\ Rest(queue) \in Seq(Entries)
      BY <1>1, HeadOfQueue
<1>3. queue' \in Seq(Entries)
      BY <1>2, FollowQueue DEF Skip
<1>4. DOMAIN visited' \subseteq Nodes /\ \A n \in DOMAIN visited' : visited'[n] \in Nat
      <2>1. \A n \in DOMAIN visited : n \in Nodes /\ visited[n] \in Nat
            BY DEF QueryTypeOK
      <2>2. ASSUME NEW n \in DOMAIN visited'  PROVE n \in Nodes /\ visited'[n] \in Nat
            <3>1. CASE n \in DOMAIN visited
                  BY <2>1, <3>1, Advance
            <3>2. CASE n \notin DOMAIN visited
                  BY <1>2, <3>2, Advance
            <3> QED BY <3>1, <3>2
      <2> QED BY <2>2
<1>5. trail' \in Seq(Notes) /\ \A i \in DOMAIN trail' : trail'[i].row \in DOMAIN stored
      <2>1. CASE Skip
            BY <2>1 DEF Skip, QueryTypeOK
      <2>2. CASE Follow
            <3>1. trail' \in Seq(Notes)
                  BY <2>2, FollowTrail
            <3>2. ASSUME NEW i \in DOMAIN trail'  PROVE trail'[i].row \in DOMAIN stored
                  <4>1. CASE i <= Len(trail)
                        <5>1. trail'[i] = trail[i] /\ i \in DOMAIN trail
                              BY <2>2, <4>1, FollowTrail
                        <5> QED BY <5>1 DEF QueryTypeOK
                  <4>2. CASE i > Len(trail)
                        BY <2>2, <4>2, FollowTrail, RowsAtStored
                  <4> QED BY <2>2, <4>1, <4>2, FollowTrail
            <3> QED BY <3>1, <3>2
      <2> QED BY <2>1, <2>2
<1>6. deepest' \in Nat
      BY <1>2 DEF Skip, Follow, QueryTypeOK
<1> QED BY <1>1, <1>3, <1>4, <1>5, <1>6 DEF QueryTypeOK

\* One turn of the loop that does not return.
LEMMA AdvanceKeeps ==
    ASSUME QueryInv, Skip \/ Follow
    PROVE  QueryInv'
<1>1. QueryTypeOK /\ Searching /\ Open /\ UNCHANGED <<stored, query, stage, answer>>
      BY Advance DEF QueryInv
<1>2. QueryTypeOK'
      BY <1>1, AdvanceTypes
<1>3. Searching'
      BY <1>1, <1>2, InOrderStep, WalkedStep, FollowedStep, CollectedStep, MeasuredStep, StartKept
         DEF Searching, Skip, Follow
<1>4. QueriesExact'
      BY <1>1 DEF Open, QueriesExact
<1>5. ASSUME stage' = "measure"  PROVE TrailExact'
      <2>1. trail' = trail /\ TrailExact
            BY <1>1, <1>5 DEF Skip, Follow, Collecting, QueryInv
      <2>2. /\ \A r : Near(r)' = Near(r)
            /\ Old' = Old /\ (DOMAIN stored)' = DOMAIN stored
            /\ \A from, n, d : Reaches(from, n, d)' <=> Reaches(from, n, d)
            BY <1>1, SameRows
      <2> QED BY <1>1, <2>1, <2>2 DEF TrailExact
<1> QED BY <1>2, <1>3, <1>4, <1>5 DEF QueryInv

-----------------------------------------------------------------------------
(* Where a query starts and ends. *)

LEMMA Fresh ==
    ASSUME NEW n \in Nodes
    PROVE  /\ Root(n) \in Seq(Entries) /\ Len(Root(n)) = 1 /\ DOMAIN Root(n) = {1}
           /\ Root(n)[1].node = n /\ Root(n)[1].path = <<>>
           /\ Len(Root(n)[1].path) = 0 /\ DOMAIN Root(n)[1].path = {}
<1>1. [node |-> n, path |-> <<>>] \in Entries
      BY DEF Entries
<1>2. Root(n) \in Seq(Entries) /\ Len(Root(n)) = 1 /\ Root(n)[1] = [node |-> n, path |-> <<>>]
      BY <1>1 DEF Root
<1>3. DOMAIN Root(n) = {1}
      BY <1>2, ListDomain
<1>4. Root(n)[1].node = n /\ Root(n)[1].path = <<>>
      BY <1>2
<1>5. Len(<<>>) = 0 /\ DOMAIN <<>> = {}
      OBVIOUS
<1> QED BY <1>2, <1>3, <1>4, <1>5

\* The search with nothing visited but its start queued.
FreshState ==
    /\ QueryTypeOK /\ queue = Root(query.start) /\ visited = <<>>
    /\ trail = <<>> \/ stage = "measure"
    /\ deepest = 0 /\ answer = <<>>
    /\ query.kind = "find_path" => query.start # query.goal
    /\ stage = "measure" => query.kind = "summary"

\* A pass that has just begun.
LEMMA FreshSearch == FreshState => Searching
<1> SUFFICES ASSUME FreshState, Open  PROVE Searching
    BY DEF Searching
<1> USE DEF FreshState
<1>1. /\ DOMAIN queue = {1} /\ Len(queue[1].path) = 0 /\ DOMAIN queue[1].path = {}
      /\ queue[1].node = query.start /\ DOMAIN visited = {}
      BY Fresh DEF QueryTypeOK
<1>2. InOrder
      BY <1>1 DEF InOrder
<1>3. Walked
      BY <1>1 DEF Walked, Walk, Stand
<1>4. Followed /\ Measured
      BY <1>1 DEF Followed, Measured
<1>5. Collected
      <2>1. DOMAIN <<>> = {}
            OBVIOUS
      <2> QED BY <2>1 DEF Collected, Collecting
<1>6. Covered(query.start, 0)
      BY <1>1 DEF Covered, Waiting
<1> QED BY <1>2, <1>3, <1>4, <1>5, <1>6 DEF Searching

\* When the queue is empty, the trail is exact.
LEMMA TrailComplete ==
    ASSUME QueryTypeOK, stage = "search", Searching, queue = <<>>, query.kind # "find_path"
    PROVE  TrailExact
<1>1. Open /\ Collecting /\ Collected /\ Followed /\ Walked
      BY DEF Open, Collecting, Searching
<1>2. ASSUME NEW i \in DOMAIN trail
      PROVE  /\ trail[i].depth < query.limit
             /\ Reaches(DOMAIN stored, Near(trail[i].row), trail[i].depth)
             /\ \A j \in 1 .. i - 1 : trail[j].depth <= trail[i].depth /\ trail[j].row # trail[i].row
      BY <1>1 DEF Collected, Walked
<1>3. ASSUME NEW d \in 0 .. query.limit - 1, NEW r \in Old, Reaches(Old, Near(r), d)
      PROVE  \E i \in DOMAIN trail : trail[i].row = r /\ trail[i].depth <= d
      <2>1. d \in Nat /\ d < query.limit /\ query.limit \in Nat /\ Inside(d)
            BY DEF Inside, QueryTypeOK
      <2>2. Near(r) \in DOMAIN visited /\ visited[Near(r)] <= d
            BY <1>1, <1>3, <2>1, NearestVisited DEF Seen
      <2>3. visited[Near(r)] \in Nat
            BY <2>2 DEF QueryTypeOK
      <2>4. Inside(visited[Near(r)])
            BY <2>1, <2>2, <2>3 DEF Inside
      <2>5. PICK i \in DOMAIN trail : trail[i].row = r
            BY <1>1, <2>2, <2>4 DEF Followed
      <2>6. trail[i].depth = visited[Near(r)]
            BY <1>1, <2>5 DEF Collected
      <2> QED BY <2>2, <2>5, <2>6
<1> QED BY <1>2, <1>3 DEF TrailExact

\* While find_path has not returned, no walk there was at the beginning leads to the goal
\* in as many rows as the head of the queue, or fewer.
LEMMA NoShorterPath ==
    ASSUME QueryTypeOK, stage = "search", Searching, query.kind = "find_path",
           NEW d \in Nat, d <= query.limit, queue = <<>> \/ d <= Len(Path), Reaches(Old, query.goal, d)
    PROVE  FALSE
<1>1. Open /\ Followed /\ query.start # query.goal /\ query.limit \in Nat
      BY DEF Open, Searching, QueryTypeOK
<1>2. d # 0
      BY <1>1, NoSteps
<1> DEFINE e == d - 1
<1>3. e \in Nat /\ d = e + 1 /\ e < query.limit /\ Inside(e)
      BY <1>1, <1>2 DEF Inside
<1> HIDE DEF e
<1>4. PICK r \in Old : Far(r) = query.goal /\ Reaches(Old, Near(r), e)
      BY <1>3, WalkBack
<1>5. queue = <<>> \/ e < Len(Path)
      BY <1>3, HeadOfQueue
<1>6. Near(r) \in DOMAIN visited /\ visited[Near(r)] <= e
      BY <1>1, <1>3, <1>4, <1>5, NearestVisited DEF Seen
<1>7. visited[Near(r)] \in Nat
      BY <1>6 DEF QueryTypeOK
<1>8. Inside(visited[Near(r)])
      BY <1>1, <1>3, <1>6, <1>7 DEF Inside
<1> QED BY <1>1, <1>4, <1>6, <1>8 DEF Followed

LEMMA HitKeeps ==
    ASSUME QueryInv, Hit
    PROVE  QueryInv'
<1>1. /\ QueryTypeOK /\ Searching /\ queue # <<>> /\ query.kind = "find_path"
      /\ stored' = stored /\ query' = query /\ stage' = "done" /\ queue' = Rest(queue)
      /\ trail' = trail /\ deepest' = deepest /\ visited' = Visit(Node, Len(Path)) /\ ~TooDeep
      BY DEF Hit, Turn, QueryInv
<1>2. stage = "search"
      BY <1>1 DEF Hit, Turn, Searching, Measured, Open
<1>3. /\ Node = queue[1].node /\ Path = queue[1].path /\ 1 \in DOMAIN queue
      /\ Path \in Seq(Nat) /\ Len(Path) \in Nat /\ Node \in Nodes /\ Rest(queue) \in Seq(Entries)
      BY <1>1, HeadOfQueue
<1>4. Len(Path) + 1 <= query.limit /\ query.limit \in Nat
      BY <1>1, <1>2, <1>3 DEF TooDeep, QueryTypeOK
<1>5. PICK r \in RowsAt(Node) : Far(r) = query.goal /\ answer' = << Grow(Path, r) >>
      BY DEF Hit
<1>6. r \in Nat /\ r \in DOMAIN stored /\ Near(r) = Node
      BY <1>1, RowsAtStored
<1>7. /\ \A k \in DOMAIN Path : Path[k] \in DOMAIN stored
      /\ Walk(Path, Len(Path)) /\ Stand(Path, Len(Path)) = Node
      BY <1>1, <1>2, <1>3 DEF Searching, Walked, Open
<1>8. PICK v : v = Grow(Path, r)
      OBVIOUS
<1>9. /\ Len(v) = Len(Path) + 1 /\ Walk(v, Len(v)) /\ Stand(v, Len(v)) = query.goal
      /\ \A k \in DOMAIN v : v[k] \in DOMAIN stored
      BY <1>3, <1>5, <1>6, <1>7, <1>8, WalkStep
<1>10. answer' # <<>> /\ answer'[1] = v
      BY <1>5, <1>8
<1>11. ASSUME NEW d \in 0 .. query.limit, Reaches(Old, query.goal, d)
       PROVE  Len(v) <= d
      <2>1. d \in Nat /\ d <= query.limit
            BY <1>4
      <2>2. ~(d <= Len(Path))
            BY <1>1, <1>2, <1>11, <2>1, NoShorterPath
      <2> QED BY <1>3, <1>9, <2>1, <2>2
<1>12. /\ Old' = Old
       /\ \A w, d : Walk(w, d)' <=> Walk(w, d)
       /\ \A w, i : Stand(w, i)' = Stand(w, i)
       /\ \A from, n, d : Reaches(from, n, d)' <=> Reaches(from, n, d)
      BY <1>1, SameRows
<1>13. PathExact'
      <2>1. \A d \in 0 .. query'.limit : Reaches(Old, query.goal, d)' => answer' # <<>> /\ Len(answer'[1]) <= d
            BY <1>1, <1>10, <1>11, <1>12
      <2>2. /\ Len(v) <= query'.limit /\ \A i \in DOMAIN v : v[i] \in DOMAIN stored'
            /\ Walk(v, Len(v))' /\ Stand(v, Len(v))' = query'.goal
            BY <1>1, <1>4, <1>9, <1>12
      <2> QED BY <1>10, <2>1, <2>2 DEF PathExact
<1>14. QueryTypeOK'
      <2>1. DOMAIN visited' = DOMAIN visited \union {Node} /\ visited'[Node] \in Nat
            BY <1>1, <1>3, Visited DEF Hit
      <2>2. \A m \in DOMAIN visited : visited'[m] = visited[m]
            BY <1>1, Visited
      <2>3. v \in Seq(Nat)
            BY <1>3, <1>6, <1>8 DEF Grow
      <2> QED BY <1>1, <1>3, <1>10, <2>1, <2>2, <2>3 DEF QueryTypeOK
<1> QED BY <1>1, <1>13, <1>14 DEF QueryInv, Searching, Open, QueriesExact

LEMMA MeasureKeeps ==
    ASSUME QueryInv, Measure
    PROVE  QueryInv'
<1>1. /\ QueryTypeOK /\ Searching /\ stage = "search" /\ queue = <<>> /\ query.kind = "summary"
      /\ stored' = stored /\ query' = query /\ stage' = "measure" /\ queue' = Root(query.start)
      /\ visited' = <<>> /\ trail' = trail /\ answer' = answer /\ deepest' = deepest
      BY DEF Measure, QueryInv
<1>2. QueryTypeOK'
      <2>1. query.start \in Nodes
            BY <1>1 DEF QueryTypeOK
      <2>2. Root(query.start) \in Seq(Entries) /\ DOMAIN <<>> = {}
            BY <2>1, Fresh
      <2> QED BY <1>1, <2>2 DEF QueryTypeOK
<1>3. deepest = 0 /\ answer = <<>>
      BY <1>1 DEF Searching, Open
<1>4. Searching'
      <2>1. FreshState'
            BY <1>1, <1>2, <1>3 DEF FreshState, Root
      <2> QED BY <2>1, FreshSearch, PTL
<1>5. TrailExact'
      <2>1. TrailExact
            BY <1>1, TrailComplete
      <2>2. /\ \A r : Near(r)' = Near(r)
            /\ Old' = Old /\ (DOMAIN stored)' = DOMAIN stored
            /\ \A from, n, d : Reaches(from, n, d)' <=> Reaches(from, n, d)
            BY <1>1, SameRows
      <2> QED BY <1>1, <2>1, <2>2 DEF TrailExact
<1> QED BY <1>1, <1>2, <1>4, <1>5 DEF QueryInv, QueriesExact

\* When the second pass is over, its depth is exact.
LEMMA DepthComplete ==
    ASSUME QueryTypeOK, stage = "measure", Searching, queue = <<>>
    PROVE  DepthExact
<1>1. /\ Open /\ Walked /\ Measured /\ deepest \in Nat /\ query.start \in Nodes
      /\ \A n \in DOMAIN visited : n \in Nodes /\ visited[n] \in Nat
      BY DEF Open, Searching, QueryTypeOK
<1>2. query.start \in DOMAIN visited /\ visited[query.start] <= 0
      <2>1. Covered(query.start, 0) /\ DOMAIN queue = {}
            BY <1>1 DEF Searching, Inside
      <2> QED BY <2>1 DEF Covered, Waiting, Seen
<1>3. PICK n \in DOMAIN visited : visited[n] = deepest
      <2>1. CASE deepest = 0
            BY <1>1, <1>2, <2>1
      <2>2. CASE deepest # 0
            BY <1>1, <2>2 DEF Measured
      <2> QED BY <2>1, <2>2
<1>4. /\ n \in Nodes /\ Reaches(DOMAIN stored, n, deepest)
      /\ \A d \in 0 .. deepest - 1 : ~Reaches(Old, n, d)
      BY <1>1, <1>3 DEF Walked, Measured
<1>5. ASSUME NEW m \in Nodes, NEW d \in 0 .. query.before, Reaches(Old, m, d)
      PROVE  \E e \in 0 .. deepest : Reaches(DOMAIN stored, m, e)
      <2>1. d \in Nat /\ Inside(d)
            BY Lists DEF Inside, QueryTypeOK
      <2>2. m \in DOMAIN visited
            BY <1>1, <1>5, <2>1, NearestVisited DEF Seen
      <2>3. visited[m] \in 0 .. deepest /\ Reaches(DOMAIN stored, m, visited[m])
            BY <1>1, <2>2 DEF Walked, Measured
      <2> QED BY <2>3
<1> QED BY <1>4, <1>5 DEF DepthExact

LEMMA ReturnKeeps ==
    ASSUME QueryInv, Return
    PROVE  QueryInv'
<1>1. /\ QueryTypeOK /\ Searching /\ queue = <<>> /\ stage' = "done" /\ Open
      /\ UNCHANGED <<stored, query, queue, visited, trail, answer, deepest>>
      /\ stage = "measure" \/ (stage = "search" /\ query.kind # "summary")
      /\ stage = "measure" => TrailExact /\ query.kind = "summary"
      BY DEF Return, QueryInv, Open, Searching, Measured
<1>2. query.kind # "find_path" => TrailExact
      BY <1>1, TrailComplete
<1>3. query.kind = "find_path" => PathExact
      <2> SUFFICES ASSUME query.kind = "find_path"  PROVE PathExact
          OBVIOUS
      <2>1. answer = <<>> /\ stage = "search"
            BY <1>1 DEF Searching
      <2>2. ASSUME NEW d \in 0 .. query.limit, Reaches(Old, query.goal, d)  PROVE FALSE
            <3>1. d \in Nat /\ d <= query.limit
                  BY <1>1 DEF QueryTypeOK
            <3> QED BY <1>1, <2>1, <2>2, <3>1, NoShorterPath
      <2> QED BY <2>1, <2>2 DEF PathExact
<1>4. query.kind = "summary" => DepthExact
      BY <1>1, DepthComplete
<1>5. /\ \A r : Near(r)' = Near(r)
      /\ Old' = Old /\ (DOMAIN stored)' = DOMAIN stored
      /\ \A w, d : Walk(w, d)' <=> Walk(w, d)
      /\ \A w, i : Stand(w, i)' = Stand(w, i)
      /\ \A from, n, d : Reaches(from, n, d)' <=> Reaches(from, n, d)
      BY <1>1, SameRows
<1>6. TrailExact => TrailExact'
      BY <1>1, <1>5 DEF TrailExact
<1>7. PathExact => PathExact'
      BY <1>1, <1>5 DEF PathExact
<1>8. DepthExact => DepthExact'
      BY <1>1, <1>5 DEF DepthExact
<1>9. QueryTypeOK'
      BY <1>1 DEF QueryTypeOK
<1> QED BY <1>1, <1>2, <1>3, <1>4, <1>6, <1>7, <1>8, <1>9
        DEF QueryInv, QueriesExact, Searching, Open

-----------------------------------------------------------------------------
(* A row more changes nothing of what has been found. *)

\* A row more leaves every walk a walk.
LEMMA MoreRows ==
    ASSUME QueryTypeOK, StoreEdge
    PROVE  /\ stored' \in Seq(Edges) /\ Len(stored') = Len(stored) + 1
           /\ \A r \in DOMAIN stored : r \in DOMAIN stored' /\ Near(r)' = Near(r) /\ Far(r)' = Far(r)
           /\ Old' = Old /\ Old \subseteq DOMAIN stored
           /\ \A n : \A d \in Nat : Reaches(Old, n, d)' <=> Reaches(Old, n, d)
           /\ \A n : \A d \in Nat : Reaches(DOMAIN stored, n, d) => Reaches(DOMAIN stored, n, d)'
           /\ \A d \in Nat : \A w \in [1 .. d -> DOMAIN stored] :
                 (Walk(w, d)' <=> Walk(w, d)) /\ Stand(w, d)' = Stand(w, d)
<1>1. /\ stored \in Seq(Edges) /\ Len(stored) \in Nat /\ DOMAIN stored = 1 .. Len(stored)
      /\ query.before \in 0 .. Len(stored)
      BY Lists DEF QueryTypeOK
<1>2. PICK e \in Edges : stored' = Append(stored, e)
      BY DEF StoreEdge
<1>3. /\ stored' \in Seq(Edges) /\ Len(stored') = Len(stored) + 1
      /\ \A r \in DOMAIN stored : r \in DOMAIN stored' /\ stored'[r] = stored[r]
      BY <1>1, <1>2
<1>4. query' = query
      BY DEF StoreEdge
<1>5. \A r \in DOMAIN stored : r \in DOMAIN stored' /\ Near(r)' = Near(r) /\ Far(r)' = Far(r)
      BY <1>3, <1>4 DEF Near, Far
<1>6. Old' = Old /\ Old \subseteq DOMAIN stored
      BY <1>1, <1>4 DEF Old
<1>7. ASSUME NEW d \in Nat, NEW w \in [1 .. d -> DOMAIN stored]
      PROVE  (Walk(w, d)' <=> Walk(w, d)) /\ Stand(w, d)' = Stand(w, d)
      <2>1. \A i \in 0 .. d : Stand(w, i)' = Stand(w, i)
            BY <1>4, <1>5 DEF Stand
      <2>2. \A i \in 1 .. d : Near(w[i])' = Near(w[i]) /\ Stand(w, i - 1)' = Stand(w, i - 1)
            BY <1>5, <2>1
      <2>3. Walk(w, d)' <=> Walk(w, d)
            BY <2>2 DEF Walk
      <2> QED BY <2>1, <2>3
<1>8. ASSUME NEW n, NEW d \in Nat
      PROVE  /\ Reaches(Old, n, d)' <=> Reaches(Old, n, d)
             /\ Reaches(DOMAIN stored, n, d) => Reaches(DOMAIN stored, n, d)'
      <2>1. \A w \in [1 .. d -> Old] : w \in [1 .. d -> DOMAIN stored]
            BY <1>6
      <2>2. \A w \in [1 .. d -> DOMAIN stored] : w \in [1 .. d -> DOMAIN stored']
            BY <1>3
      <2>3. Reaches(Old, n, d)' <=> Reaches(Old, n, d)
            BY <1>6, <1>7, <2>1 DEF Reaches
      <2>4. Reaches(DOMAIN stored, n, d) => Reaches(DOMAIN stored, n, d)'
            BY <1>7, <2>2 DEF Reaches
      <2> QED BY <2>3, <2>4
<1> QED BY <1>3, <1>5, <1>6, <1>7, <1>8

LEMMA StoreEdgeKeeps ==
    ASSUME QueryInv, StoreEdge
    PROVE  QueryInv'
<1>1. /\ QueryTypeOK /\ Searching
      /\ UNCHANGED <<query, stage, queue, visited, trail, answer, deepest>>
      BY DEF QueryInv, StoreEdge
<1>2. /\ stored' \in Seq(Edges) /\ Len(stored') = Len(stored) + 1
      /\ \A r \in DOMAIN stored : r \in DOMAIN stored' /\ Near(r)' = Near(r) /\ Far(r)' = Far(r)
      /\ Old' = Old /\ Old \subseteq DOMAIN stored
      /\ \A n : \A d \in Nat : Reaches(Old, n, d)' <=> Reaches(Old, n, d)
      /\ \A n : \A d \in Nat : Reaches(DOMAIN stored, n, d) => Reaches(DOMAIN stored, n, d)'
      /\ \A d \in Nat : \A w \in [1 .. d -> DOMAIN stored] :
            (Walk(w, d)' <=> Walk(w, d)) /\ Stand(w, d)' = Stand(w, d)
      BY <1>1, MoreRows
<1>3. /\ query.limit \in Nat /\ deepest \in Nat /\ query.before \in 0 .. Len(stored) /\ Len(stored) \in Nat
      /\ \A n \in DOMAIN visited : visited[n] \in Nat
      /\ \A i \in DOMAIN trail : trail[i].row \in DOMAIN stored /\ trail[i].depth \in Nat
      /\ \A i \in DOMAIN queue : queue[i].path \in Seq(Nat)
      <2>1. \A i \in DOMAIN trail : trail[i] \in Notes
            BY <1>1 DEF QueryTypeOK
      <2> QED BY <1>1, <2>1, Lists, EntryOfQueue DEF QueryTypeOK, Notes
<1>4. QueryTypeOK'
      <2>1. query.before \in 0 .. Len(stored')
            BY <1>2, <1>3
      <2>2. \A i \in DOMAIN trail : trail[i].row \in DOMAIN stored'
            BY <1>2, <1>3
      <2> QED BY <1>1, <1>2, <2>1, <2>2 DEF QueryTypeOK
<1>5. \A d : Inside(d)' <=> Inside(d)
      BY <1>1 DEF Inside
<1>6. \A n, d : Covered(n, d)' <=> Covered(n, d)
      BY <1>1 DEF Covered, Seen, Waiting
<1>7. ASSUME Open  PROVE Searching'
      <2>1. InOrder /\ Walked /\ Followed /\ Collected /\ Measured
            BY <1>1, <1>7 DEF Searching
      <2>2. InOrder'
            BY <1>1, <2>1 DEF InOrder
      <2>3. Walked'
            <3>1. ASSUME NEW i \in DOMAIN queue
                  PROVE  LET path == queue[i].path
                         IN  /\ \A k \in DOMAIN path : path[k] \in DOMAIN stored'
                             /\ Walk(path, Len(path))' /\ Stand(path, Len(path))' = queue'[i].node
                  <4>1. PICK w : w = queue[i].path
                        OBVIOUS
                  <4>2. /\ w \in Seq(Nat) /\ \A k \in DOMAIN w : w[k] \in DOMAIN stored
                        /\ Walk(w, Len(w)) /\ Stand(w, Len(w)) = queue[i].node
                        BY <1>3, <2>1, <4>1 DEF Walked
                  <4>3. Len(w) \in Nat /\ w \in [1 .. Len(w) -> DOMAIN stored]
                        BY <4>2
                  <4>4. Walk(w, Len(w))' /\ Stand(w, Len(w))' = queue[i].node
                        BY <1>2, <4>2, <4>3
                  <4> QED BY <1>1, <1>2, <4>1, <4>2, <4>4
            <3>2. \A n \in DOMAIN visited : Reaches(DOMAIN stored, n, visited[n])'
                  BY <1>1, <1>2, <1>3, <2>1 DEF Walked
            <3> QED BY <1>1, <3>1, <3>2 DEF Walked
      <2>4. Followed'
            <3>1. Collecting' <=> Collecting
                  BY <1>1 DEF Collecting
            <3>2. ASSUME NEW n \in DOMAIN visited, NEW r \in Old, Inside(visited[n]), Near(r) = n
                  PROVE  /\ Inside(visited[n] + 1) => Covered(Far(r), visited[n] + 1)
                         /\ Collecting => \E i \in DOMAIN trail : trail[i].row = r
                         /\ query.kind = "find_path" => Far(r) # query.goal
                         /\ Near(r)' = Near(r) /\ Far(r)' = Far(r)
                  BY <1>2, <2>1, <3>2 DEF Followed
            <3>3. ASSUME NEW n \in DOMAIN visited', NEW r \in Old', Inside(visited[n])', Near(r)' = n
                  PROVE  /\ Inside(visited[n] + 1)' => Covered(Far(r), visited[n] + 1)'
                         /\ Collecting' => \E i \in DOMAIN trail' : trail'[i].row = r
                         /\ query'.kind = "find_path" => Far(r)' # query'.goal
                  <4>1. n \in DOMAIN visited /\ r \in Old /\ Inside(visited[n]) /\ Near(r) = n
                        BY <1>1, <1>2, <1>5, <3>3
                  <4> QED BY <1>1, <1>5, <1>6, <3>1, <3>2, <4>1
            <3> QED BY <3>3 DEF Followed
      <2>5. Collected'
            <3>1. Collecting' <=> Collecting
                  BY <1>1 DEF Collecting
            <3>2. \A i \in DOMAIN trail : Near(trail[i].row)' = Near(trail[i].row)
                  BY <1>1, <1>2, <1>3
            <3> QED BY <1>1, <2>1, <3>1, <3>2 DEF Collected
      <2>6. Measured'
            <3>1. \A n \in DOMAIN visited : \A d \in 0 .. visited[n] - 1 :
                     Reaches(Old, n, d)' <=> Reaches(Old, n, d)
                  <4>1. \A n \in DOMAIN visited : \A d \in 0 .. visited[n] - 1 : d \in Nat
                        BY <1>3
                  <4> QED BY <1>2, <4>1
            <3> QED BY <1>1, <2>1, <3>1 DEF Measured
      <2>7. Inside(0)' => Covered(query.start, 0)'
            BY <1>1, <1>5, <1>6, <1>7 DEF Searching
      <2> QED BY <1>1, <1>7, <2>2, <2>3, <2>4, <2>5, <2>6, <2>7 DEF Searching
<1>8. TrailExact => TrailExact'
      <2> SUFFICES ASSUME TrailExact  PROVE TrailExact'
          OBVIOUS
      <2>1. ASSUME NEW i \in DOMAIN trail'
            PROVE  /\ trail'[i].depth < query'.limit
                   /\ Reaches(DOMAIN stored, Near(trail[i].row), trail[i].depth)'
                   /\ \A j \in 1 .. i - 1 : trail'[j].depth <= trail'[i].depth
                                            /\ trail'[j].row # trail'[i].row
            <3>1. /\ i \in DOMAIN trail /\ trail[i].row \in DOMAIN stored /\ trail[i].depth \in Nat
                  /\ Reaches(DOMAIN stored, Near(trail[i].row), trail[i].depth)
                  BY <1>1, <1>3 DEF TrailExact
            <3>2. Near(trail[i].row)' = Near(trail[i].row)
                  BY <1>1, <1>2, <3>1
            <3>3. Reaches(DOMAIN stored, Near(trail[i].row), trail[i].depth)'
                  BY <1>1, <1>2, <3>1, <3>2
            <3> QED BY <1>1, <3>1, <3>3 DEF TrailExact
      <2>2. ASSUME NEW d \in 0 .. query'.limit - 1, NEW r \in Old', Reaches(Old, Near(r), d)'
            PROVE  \E i \in DOMAIN trail' : trail'[i].row = r /\ trail'[i].depth <= d
            <3>1. d \in Nat /\ r \in DOMAIN stored /\ Near(r)' = Near(r)
                  BY <1>1, <1>2, <1>3
            <3>2. Reaches(Old, Near(r), d)
                  BY <1>2, <2>2, <3>1
            <3> QED BY <1>1, <1>2, <3>2 DEF TrailExact
      <2> QED BY <2>1, <2>2 DEF TrailExact
<1>9. ASSUME PathExact, stage = "done", query.kind = "find_path"  PROVE PathExact'
      <2>1. \A d \in 0 .. query'.limit :
               Reaches(Old, query.goal, d)' => answer' # <<>> /\ Len(answer'[1]) <= d
            <3>1. \A d \in 0 .. query.limit : d \in Nat
                  BY <1>3
            <3> QED BY <1>1, <1>2, <1>9, <3>1 DEF PathExact
      <2>2. ASSUME answer # <<>>
            PROVE  LET path == answer[1]
                   IN  /\ Len(path) <= query.limit /\ \A i \in DOMAIN path : path[i] \in DOMAIN stored'
                       /\ Walk(path, Len(path))' /\ Stand(path, Len(path))' = query.goal
            <3>1. PICK w : w = answer[1]
                  OBVIOUS
            <3>2. /\ Len(w) <= query.limit /\ \A i \in DOMAIN w : w[i] \in DOMAIN stored
                  /\ Walk(w, Len(w)) /\ Stand(w, Len(w)) = query.goal
                  BY <1>9, <2>2, <3>1 DEF PathExact
            <3>3. w \in Seq(Nat)
                  BY <1>1, <2>2, <3>1 DEF QueryTypeOK
            <3>4. Len(w) \in Nat /\ w \in [1 .. Len(w) -> DOMAIN stored]
                  BY <3>2, <3>3
            <3>5. Walk(w, Len(w))' /\ Stand(w, Len(w))' = query.goal
                  BY <1>2, <3>2, <3>4
            <3> QED BY <1>1, <1>2, <3>1, <3>2, <3>5
      <2> QED BY <1>1, <2>1, <2>2 DEF PathExact
<1>10. DepthExact => DepthExact'
      <2> SUFFICES ASSUME DepthExact  PROVE DepthExact'
          OBVIOUS
      <2>1. PICK n \in Nodes : /\ Reaches(DOMAIN stored, n, deepest)
                               /\ \A d \in 0 .. deepest - 1 : ~Reaches(Old, n, d)
            BY DEF DepthExact
      <2>2. Reaches(DOMAIN stored, n, deepest)' /\ \A d \in 0 .. deepest' - 1 : ~Reaches(Old, n, d)'
            <3>1. \A d \in 0 .. deepest - 1 : d \in Nat
                  BY <1>3
            <3> QED BY <1>1, <1>2, <1>3, <2>1, <3>1
      <2>3. ASSUME NEW m \in Nodes, NEW d \in 0 .. query'.before, Reaches(Old, m, d)'
            PROVE  \E e \in 0 .. deepest' : Reaches(DOMAIN stored, m, e)'
            <3>1. d \in Nat /\ d \in 0 .. query.before
                  BY <1>1, <1>3
            <3>2. PICK e \in 0 .. deepest : Reaches(DOMAIN stored, m, e)
                  BY <1>2, <2>3, <3>1 DEF DepthExact
            <3>3. e \in Nat
                  BY <1>3
            <3> QED BY <1>1, <1>2, <3>2, <3>3
      <2> QED BY <2>2, <2>3 DEF DepthExact
<1> QED BY <1>1, <1>4, <1>7, <1>8, <1>9, <1>10 DEF QueryInv, QueriesExact, Searching, Open

LEMMA BeginKeeps ==
    ASSUME QueryInv, NEW kind \in {"trace", "reverse_trace", "find_path", "summary"},
           NEW start \in Nodes, NEW goal \in Nodes, NEW limit \in Nat, Begin(kind, start, goal, limit)
    PROVE  QueryInv'
<1>1. /\ QueryTypeOK /\ stored' = stored
      /\ query' = [kind |-> kind, start |-> start, goal |-> goal, limit |-> limit, before |-> Len(stored)]
      /\ queue' = Root(start) /\ visited' = <<>> /\ trail' = <<>> /\ deepest' = 0
      /\ stage' = IF kind = "find_path" /\ start = goal THEN "done" ELSE "search"
      /\ answer' = IF kind = "find_path" /\ start = goal THEN << <<>> >> ELSE <<>>
      BY DEF Begin, QueryInv
<1>2. /\ query'.kind = kind /\ query'.start = start /\ query'.goal = goal /\ query'.limit = limit
      /\ query'.before = Len(stored)
      BY <1>1
<1>3. QueryTypeOK'
      <2>1. Root(start) \in Seq(Entries) /\ DOMAIN <<>> = {} /\ <<>> \in Seq(Notes)
            BY Fresh
      <2>2. Len(stored) \in 0 .. Len(stored) /\ stored \in Seq(Edges)
            BY <1>1, Lists
      <2>3. answer' # <<>> => answer'[1] = <<>>
            BY <1>1
      <2>4. answer' # <<>> => answer'[1] \in Seq(Nat)
            <3>1. <<>> \in Seq(Nat)
                  BY Fresh
            <3> QED BY <2>3, <3>1
      <2>5. stage' \in {"idle", "search", "measure", "done"}
            BY <1>1
      <2> QED BY <1>1, <1>2, <2>1, <2>2, <2>4, <2>5 DEF QueryTypeOK
<1>4. CASE kind = "find_path" /\ start = goal
      <2>1. stage' = "done" /\ answer' = << <<>> >> /\ answer' # <<>> /\ answer'[1] = <<>>
            BY <1>1, <1>4
      <2>2. Len(<<>>) = 0 /\ DOMAIN <<>> = {}
            OBVIOUS
      <2>3. Walk(<<>>, 0)' /\ Stand(<<>>, 0)' = query'.goal
            BY <1>2, <1>4 DEF Walk, Stand
      <2>4. \A d \in 0 .. limit : 0 <= d
            OBVIOUS
      <2>5. PathExact'
            BY <1>2, <2>1, <2>2, <2>3, <2>4 DEF PathExact
      <2> QED BY <1>2, <1>3, <1>4, <2>1, <2>5 DEF QueryInv, Searching, Open, QueriesExact
<1>5. CASE ~(kind = "find_path" /\ start = goal)
      <2>1. stage' = "search" /\ answer' = <<>>
            BY <1>1, <1>5
      <2>2. FreshState'
            BY <1>1, <1>2, <1>3, <1>5, <2>1 DEF FreshState, Root
      <2>3. Searching'
            BY <2>2, FreshSearch, PTL
      <2> QED BY <1>3, <2>1, <2>3 DEF QueryInv, QueriesExact
<1> QED BY <1>4, <1>5

LEMMA QueryInitially == ProvenanceInit => QueryInv
<1> SUFFICES ASSUME ProvenanceInit  PROVE QueryInv
    OBVIOUS
<1>1. /\ stored = <<>> /\ stage = "idle" /\ queue = <<>> /\ visited = <<>>
      /\ trail = <<>> /\ answer = <<>> /\ deepest = 0
      BY DEF ProvenanceInit
<1>2. /\ query.kind = "trace" /\ query.start \in Nodes /\ query.goal \in Nodes
      /\ query.limit = 0 /\ query.before = 0
      BY DEF ProvenanceInit
<1>3. Len(<<>>) = 0 /\ DOMAIN <<>> = {} /\ \A S : <<>> \in Seq(S)
      OBVIOUS
<1>4. QueryTypeOK
      BY <1>1, <1>2, <1>3 DEF QueryTypeOK
<1> QED BY <1>1, <1>4 DEF QueryInv, Searching, Open, QueriesExact

\* Every step keeps the inductive invariant.
LEMMA QueryStep == QueryInv /\ [ProvenanceNext]_provenanceVars => QueryInv'
<1> SUFFICES ASSUME QueryInv, [ProvenanceNext]_provenanceVars  PROVE QueryInv'
    OBVIOUS
<1>1. CASE StoreEdge
      BY <1>1, StoreEdgeKeeps
<1>2. ASSUME NEW start \in Nodes, NEW limit \in Depths,
             \/ Begin("trace", start, start, limit)
             \/ Begin("reverse_trace", start, start, limit)
             \/ \E goal \in Nodes : Begin("find_path", start, goal, limit)
             \/ Begin("summary", start, start, TraceDepth)
      PROVE  QueryInv'
      <2>1. limit \in Nat /\ TraceDepth \in Nat
            BY ProvenanceAssumption
      <2> QED BY <1>2, <2>1, BeginKeeps
<1>3. CASE Reader
      BY <1>3, AdvanceKeeps, HitKeeps, MeasureKeeps, ReturnKeeps DEF Reader
<1>4. CASE UNCHANGED provenanceVars
      <2>1. UNCHANGED <<stored, query, stage, queue, visited, trail, answer, deepest>>
            BY <1>4 DEF provenanceVars
      <2>2. QueryTypeOK'
            BY <2>1 DEF QueryInv, QueryTypeOK
      <2>3. Searching => Searching'
            BY <2>1 DEF Searching, Open, InOrder, Walked, Followed, Collected, Measured, Reaches, Walk,
                        Stand, Near, Far, Old, Inside, Covered, Seen, Waiting, Collecting
      <2>4. /\ \A r : Near(r)' = Near(r)
            /\ Old' = Old /\ (DOMAIN stored)' = DOMAIN stored
            /\ \A w, d : Walk(w, d)' <=> Walk(w, d)
            /\ \A w, i : Stand(w, i)' = Stand(w, i)
            /\ \A from, n, d : Reaches(from, n, d)' <=> Reaches(from, n, d)
            BY <2>1, SameRows
      <2>5. TrailExact => TrailExact'
            BY <2>1, <2>4 DEF TrailExact
      <2>6. PathExact => PathExact'
            BY <2>1, <2>4 DEF PathExact
      <2>7. DepthExact => DepthExact'
            BY <2>1, <2>4 DEF DepthExact
      <2>8. QueriesExact => QueriesExact'
            BY <2>1, <2>5, <2>6, <2>7 DEF QueriesExact
      <2> QED BY <2>1, <2>2, <2>3, <2>5, <2>8 DEF QueryInv
<1> QED BY <1>1, <1>2, <1>3, <1>4 DEF ProvenanceNext

\* What a query answers is exact while pipelines store edges (provenance/store.py: trace,
\* audit_trail, reverse_trace, find_path and summary): nearest first, nothing twice, nothing
\* that is not there, at least what there was when it began, and no path is shorter.
THEOREM QueriesAreExact == ProvenanceSpec => []QueriesExact
<1>1. QueryInv => QueriesExact
      BY DEF QueryInv
<1> QED BY <1>1, QueryInitially, QueryStep, PTL DEF ProvenanceSpec
=============================================================================
