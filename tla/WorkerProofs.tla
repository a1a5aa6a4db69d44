---------------------------- MODULE WorkerProofs ----------------------------
(***************************************************************************)
(* Proofs about Worker for every number of jobs, workers and threads, and  *)
(* about BenchmarkRunner, a client of such a queue.                        *)
(***************************************************************************)
EXTENDS BenchmarkRunner, ListLemmas, FiniteSetTheorems

-----------------------------------------------------------------------------
(* What each operation of the queue does to the list of pending jobs.      *)

LEMMA SubmitPending ==
    ASSUME QueueTypeOK, Distinct(pending), known \subseteq ToSet(submitted),
           NEW j \in Jobs, Submit(j)
    PROVE  /\ pending' \in Seq(known')
           /\ ToSet(pending') = ToSet(pending) \union {j}
           /\ Distinct(pending')
           /\ submitted' \in Seq(Jobs)
           /\ ToSet(submitted') = ToSet(submitted) \union {j}
           /\ j \notin known /\ j \notin ToSet(pending)
<1>1. pending \in Seq(known') /\ j \in known' /\ submitted \in Seq(Jobs)
  BY SeqMonotonic DEF QueueTypeOK, Submit
<1>2. j \notin known /\ j \notin ToSet(pending)
  BY ToSetElements DEF QueueTypeOK, Submit
<1>3. PICK k \in 1..(Len(pending) + 1) : pending' = InsertAt(pending, k, j)
  BY DEF Submit
<1>4. pending' \in Seq(known')
  BY <1>1, <1>3, InsertAtProperties
<1>5. ToSet(pending') = ToSet(pending) \union {j} /\ Distinct(pending')
  BY <1>1, <1>2, <1>3, InsertAtElements
<1>6. submitted' = Append(submitted, j) /\ submitted' \in Seq(Jobs)
  BY <1>1 DEF Submit
<1>7. ToSet(submitted') = ToSet(submitted) \union {j}
  <2>1. /\ Len(submitted') = Len(submitted) + 1
        /\ \A i \in 1..Len(submitted) : submitted'[i] = submitted[i]
        /\ submitted'[Len(submitted) + 1] = j
    BY <1>1, <1>6
  <2>2. /\ \A x : x \in ToSet(submitted) <=> \E i \in 1..Len(submitted) : submitted[i] = x
        /\ \A x : x \in ToSet(submitted') <=> \E i \in 1..Len(submitted') : submitted'[i] = x
    BY <1>1, <1>6, ToSetElements
  <2>3. ASSUME NEW x \in ToSet(submitted') PROVE x \in ToSet(submitted) \union {j}
    <3>1. PICK i \in 1..Len(submitted') : submitted'[i] = x
      BY <2>2
    <3> QED
      BY <1>1, <2>1, <2>2, <3>1
  <2>4. ASSUME NEW x \in ToSet(submitted) PROVE x \in ToSet(submitted')
    <3>1. PICK i \in 1..Len(submitted) : submitted[i] = x
      BY <2>2
    <3> QED
      BY <1>1, <2>1, <2>2, <3>1
  <2>5. j \in ToSet(submitted')
    BY <1>1, <2>1, <2>2
  <2> QED
    BY <2>3, <2>4, <2>5
<1> QED
  BY <1>2, <1>4, <1>5, <1>6, <1>7

LEMMA FetchPending ==
    ASSUME QueueTypeOK, Distinct(pending), NEW j \in Jobs, Fetch(j)
    PROVE  /\ j \in known /\ j \in ToSet(pending)
           /\ pending' \in Seq(known')
           /\ ToSet(pending') = ToSet(pending) \ {j}
           /\ Distinct(pending')
<1>1. pending \in Seq(known) /\ pending # <<>> /\ j = Head(pending) /\ pending' = Tail(pending)
  BY DEF QueueTypeOK, Fetch
<1>2. /\ j \in ToSet(pending) /\ Tail(pending) \in Seq(known)
      /\ ToSet(Tail(pending)) = ToSet(pending) \ {j} /\ Distinct(Tail(pending))
  BY <1>1, TailElements
<1>3. j \in known
  BY <1>1, <1>2, ToSetElements
<1> QED
  BY <1>1, <1>2, <1>3 DEF Fetch

LEMMA CancelPending ==
    ASSUME QueueTypeOK, Distinct(pending), NEW j \in Jobs, Cancel(j)
    PROVE  /\ pending' \in Seq(known')
           /\ ToSet(pending') = ToSet(pending) \ {j}
           /\ Distinct(pending')
<1>1. pending \in Seq(known) /\ known' = known
  BY DEF QueueTypeOK, Cancel
<1>2. CASE \E i \in 1..Len(pending) : pending[i] = j
  <2> DEFINE first(i) == pending[i] = j /\ \A k \in 1..(i - 1) : pending[k] # j
             pos == CHOOSE i \in 1..Len(pending) : first(i)
  <2>1. \E i \in 1..Len(pending) : first(i)
    <3>1. PICK i \in 1..Len(pending) : pending[i] = j
      BY <1>2
    <3>2. \A k \in 1..(i - 1) : pending[k] # j
      BY <1>1, <3>1 DEF Distinct
    <3> QED
      BY <3>1, <3>2
  <2>2. pos \in 1..Len(pending) /\ pending[pos] = j
    BY <2>1
  <2>3. pending' = RemoveAt(pending, pos)
    BY <1>2 DEF Cancel
  <2> HIDE DEF pos
  <2> QED
    BY <1>1, <2>2, <2>3, RemoveAtProperties, RemoveAtElements
<1>3. CASE ~\E i \in 1..Len(pending) : pending[i] = j
  BY <1>1, <1>3, ToSetElements DEF Cancel
<1> QED
  BY <1>2, <1>3

-----------------------------------------------------------------------------
(* The inductive invariant.  NoJobLost says a known job is always somewhere;  *)
(* HeldJobsUnreported and PendingIsFresh say what is still open for it there. *)

IInv ==
    /\ TypeOK
    /\ HeldJobsUnreported
    /\ ExclusiveExecution
    /\ PendingIsFresh
    /\ NoJobLost

LEMMA InitIInv == Init => IInv
<1> SUFFICES ASSUME Init PROVE IInv
  OBVIOUS
<1> USE DEF Init, QueueInit
<1>1. ToSet(pending) = {} /\ ToSet(submitted) = {}
  BY DEF ToSet
<1>2. TypeOK
  BY DEF TypeOK, QueueTypeOK, PCs, Holding
<1>3. HeldJobsUnreported
  BY DEF HeldJobsUnreported, Holding
<1>4. ExclusiveExecution /\ PendingIsFresh /\ NoJobLost
  BY <1>1 DEF ExclusiveExecution, PendingIsFresh, NoJobLost, Holding
<1> QED
  BY <1>2, <1>3, <1>4 DEF IInv

LEMMA SubmitIInv == ASSUME IInv, NEW j \in Jobs, ClientSubmit(j) PROVE IInv'
<1> USE DEF IInv
<1>1. /\ QueueTypeOK /\ Distinct(pending) /\ known \subseteq ToSet(submitted) /\ Submit(j)
  BY DEF TypeOK, PendingIsFresh, Distinct, HeldJobsUnreported, ClientSubmit
<1>2. /\ pending' \in Seq(known')
      /\ ToSet(pending') = ToSet(pending) \union {j}
      /\ Distinct(pending')
      /\ submitted' \in Seq(Jobs)
      /\ ToSet(submitted') = ToSet(submitted) \union {j}
      /\ j \notin known /\ j \notin ToSet(pending)
  BY <1>1, SubmitPending
<1>3. /\ known' = known \union {j} /\ j \notin ToSet(submitted)
      /\ UNCHANGED <<started, finished, result, threadVars>>
  BY DEF Submit, ClientSubmit
<1>4. TypeOK'
  BY <1>1, <1>2, <1>3 DEF TypeOK, QueueTypeOK, threadVars, Holding
<1>5. HeldJobsUnreported'
  BY <1>2, <1>3 DEF HeldJobsUnreported, threadVars, Holding
<1>6. ExclusiveExecution'
  BY <1>2, <1>3 DEF ExclusiveExecution, HeldJobsUnreported, threadVars, Holding
<1>7. PendingIsFresh'
  BY <1>1, <1>2, <1>3 DEF PendingIsFresh, HeldJobsUnreported, QueueTypeOK, Distinct
<1>8. NoJobLost'
  BY <1>2, <1>3 DEF NoJobLost, threadVars, Holding
<1> QED
  BY <1>4, <1>5, <1>6, <1>7, <1>8

LEMMA CancelIInv == ASSUME IInv, NEW j \in Jobs, ClientCancel(j) PROVE IInv'
<1> USE DEF IInv
<1>1. /\ QueueTypeOK /\ Distinct(pending) /\ Cancel(j)
  BY DEF TypeOK, PendingIsFresh, Distinct, ClientCancel
<1>2. /\ pending' \in Seq(known')
      /\ ToSet(pending') = ToSet(pending) \ {j}
      /\ Distinct(pending')
  BY <1>1, CancelPending
<1>3. /\ j \in known /\ finished' = finished \union {j}
      /\ result' = [result EXCEPT ![j] = "cancelled"]
      /\ UNCHANGED <<known, started, submitted, threadVars>>
  BY DEF Cancel, ClientCancel
<1>4. "cancelled" \in Outcomes /\ "cancelled" # None
  BY <1>1, NoneAssumption DEF Outcomes
<1>5. TypeOK'
  BY <1>1, <1>2, <1>3, <1>4 DEF TypeOK, QueueTypeOK, threadVars, Holding
<1>6. HeldJobsUnreported'
  BY <1>1, <1>3, <1>4 DEF HeldJobsUnreported, QueueTypeOK, TypeOK, threadVars, Holding
<1>7. ExclusiveExecution'
  BY <1>2, <1>3 DEF ExclusiveExecution, threadVars, Holding
<1>8. PendingIsFresh'
  BY <1>1, <1>2, <1>3 DEF PendingIsFresh, QueueTypeOK, Distinct
<1>9. NoJobLost'
  BY <1>1, <1>2, <1>3, <1>4 DEF NoJobLost, QueueTypeOK, threadVars, Holding
<1> QED
  BY <1>5, <1>6, <1>7, <1>8, <1>9

LEMMA ClearIInv == ASSUME IInv, ClientClear PROVE IInv'
<1> USE DEF IInv
<1>1. /\ known' = {} /\ started' = {} /\ finished' = {} /\ pending' = <<>>
      /\ result' = [j \in Jobs |-> None]
      /\ UNCHANGED <<submitted, threadVars>>
  BY DEF ClientClear, Clear
<1>2. ToSet(pending') = {} /\ pending' \in Seq(known') /\ Len(pending') = 0
  BY <1>1 DEF ToSet
<1>3. TypeOK'
  BY <1>1, <1>2 DEF TypeOK, QueueTypeOK, threadVars, Holding
<1>4. HeldJobsUnreported'
  BY <1>1 DEF HeldJobsUnreported, TypeOK, threadVars, Holding
<1>5. ExclusiveExecution' /\ PendingIsFresh' /\ NoJobLost'
  BY <1>1, <1>2 DEF ExclusiveExecution, PendingIsFresh, NoJobLost, threadVars, Holding
<1> QED
  BY <1>3, <1>4, <1>5

\* The steps that leave the queue alone and give no thread a job or an outcome.
LEMMA IdleIInv ==
    ASSUME IInv, UNCHANGED <<queueVars, job, outcome>>,
           TypeOK',
           \A t \in Threads : Holding(t)' <=> Holding(t)
    PROVE  IInv'
<1> USE DEF IInv, queueVars
<1>1. HeldJobsUnreported'
  BY DEF HeldJobsUnreported
<1>2. ExclusiveExecution' /\ PendingIsFresh' /\ NoJobLost'
  BY DEF ExclusiveExecution, PendingIsFresh, NoJobLost
<1> QED
  BY <1>1, <1>2

LEMMA WorkerIInv ==
    ASSUME IInv, NEW w \in Workers, Start(w) \/ Stop(w) \/ \E ty \in Types : RegisterHandler(w, ty)
    PROVE  IInv'
<1>1. CASE Start(w)
  <2>1. TypeOK' /\ \A t \in Threads : Holding(t)' <=> Holding(t)
    BY <1>1, WorkersAssumption
    DEF IInv, Start, TypeOK, QueueTypeOK, queueVars, Holding, PCs
  <2> QED
    BY <1>1, <2>1, IdleIInv DEF Start
<1>2. CASE Stop(w)
  <2>1. TypeOK' /\ \A t \in Threads : Holding(t)' <=> Holding(t)
    BY <1>2 DEF IInv, Stop, TypeOK, QueueTypeOK, queueVars, Holding
  <2> QED
    BY <1>2, <2>1, IdleIInv DEF Stop
<1>3. CASE \E ty \in Types : RegisterHandler(w, ty)
  <2>1. TypeOK' /\ \A t \in Threads : Holding(t)' <=> Holding(t)
    BY <1>3 DEF IInv, RegisterHandler, TypeOK, QueueTypeOK, queueVars, Holding
  <2> QED
    BY <1>3, <2>1, IdleIInv DEF RegisterHandler
<1> QED
  BY <1>1, <1>2, <1>3

\* The steps of a thread between two calls of the queue.
LEMMA LocalIInv ==
    ASSUME IInv, NEW t \in Threads,
           CheckLoop(t) \/ FetchNothing(t) \/ CountUnhandled(t)
    PROVE  IInv'
<1>0. owner[t] \in Workers \/ pc[t] = "unborn"
  BY DEF IInv, TypeOK
<1>1. CASE CheckLoop(t)
  <2>1. TypeOK' /\ \A u \in Threads : Holding(u)' <=> Holding(u)
    BY <1>1 DEF IInv, CheckLoop, TypeOK, QueueTypeOK, queueVars, Holding, PCs
  <2> QED
    BY <1>1, <2>1, IdleIInv DEF CheckLoop
<1>2. CASE FetchNothing(t)
  <2>1. TypeOK' /\ \A u \in Threads : Holding(u)' <=> Holding(u)
    BY <1>2 DEF IInv, FetchNothing, TypeOK, QueueTypeOK, queueVars, Holding, PCs
  <2> QED
    BY <1>2, <2>1, IdleIInv DEF FetchNothing
<1>3. CASE CountUnhandled(t)
  <2>1. TypeOK' /\ \A u \in Threads : Holding(u)' <=> Holding(u)
    BY <1>0, <1>3 DEF IInv, CountUnhandled, TypeOK, QueueTypeOK, queueVars, Holding, PCs
  <2> QED
    BY <1>3, <2>1, IdleIInv DEF CountUnhandled
<1> QED
  BY <1>1, <1>2, <1>3

\* The outcome of a job, by its handler or for want of one.
LEMMA ExecuteIInv ==
    ASSUME IInv, NEW t \in Threads, NoHandler(t) \/ RunHandler(t)
    PROVE  IInv'
<1> USE DEF IInv
<1>1. PICK o \in {"no_handler", "succeeded", "raised"} :
         /\ pc[t] = "execute"
         /\ pc' = [pc EXCEPT ![t] = "report"]
         /\ outcome' = [outcome EXCEPT ![t] = o]
         /\ UNCHANGED <<queueVars, running, handlers, owner, job>>
  BY DEF NoHandler, RunHandler
<1>2. processed' \in [Workers -> Nat]
  BY DEF NoHandler, RunHandler, TypeOK
<1>3. o \in Outcomes /\ o # None
  BY NoneAssumption DEF Outcomes
<1>4. \A u \in Threads : Holding(u)' <=> Holding(u)
  BY <1>1 DEF Holding, TypeOK
<1>5. TypeOK'
  BY <1>1, <1>2, <1>3, <1>4 DEF TypeOK, QueueTypeOK, queueVars, Holding, PCs
<1>6. HeldJobsUnreported'
  BY <1>1, <1>4 DEF HeldJobsUnreported, queueVars
<1>7. ExclusiveExecution' /\ PendingIsFresh' /\ NoJobLost'
  BY <1>1, <1>4 DEF ExclusiveExecution, PendingIsFresh, NoJobLost, queueVars
<1> QED
  BY <1>5, <1>6, <1>7

LEMMA FetchIInv == ASSUME IInv, NEW t \in Threads, FetchJob(t) PROVE IInv'
<1> USE DEF IInv
<1>1. PICK j \in Jobs : Fetch(j) /\ job' = [job EXCEPT ![t] = j]
  BY DEF FetchJob
<1>2. /\ QueueTypeOK /\ Distinct(pending)
  BY DEF TypeOK, PendingIsFresh, Distinct
<1>3. /\ j \in known /\ j \in ToSet(pending)
      /\ pending' \in Seq(known')
      /\ ToSet(pending') = ToSet(pending) \ {j}
      /\ Distinct(pending')
  BY <1>1, <1>2, FetchPending
<1>4. /\ pc[t] = "fetch" /\ pc' = [pc EXCEPT ![t] = "execute"]
      /\ started' = started \union {j}
      /\ UNCHANGED <<known, finished, result, submitted, running, processed, handlers, owner, outcome>>
  BY <1>1 DEF FetchJob, Fetch
<1>5. TypeOK'
  BY <1>1, <1>2, <1>3, <1>4, NoneAssumption DEF TypeOK, QueueTypeOK, Holding, PCs
<1>6. \A u \in Threads : Holding(u)' <=> (Holding(u) \/ u = t)
  BY <1>4 DEF Holding, TypeOK
<1>7. \A u \in Threads : job'[u] = IF u = t THEN j ELSE job[u]
  BY <1>1 DEF TypeOK
<1>8. HeldJobsUnreported'
  BY <1>2, <1>3, <1>4, <1>6, <1>7 DEF HeldJobsUnreported, PendingIsFresh, QueueTypeOK
<1>9. ExclusiveExecution'
  BY <1>3, <1>6, <1>7 DEF ExclusiveExecution
<1>10. PendingIsFresh'
  BY <1>2, <1>3, <1>4 DEF PendingIsFresh, Distinct
<1>11. NoJobLost'
  <2> SUFFICES ASSUME NEW i \in known
               PROVE  \/ i \in ToSet(pending')
                      \/ \E u \in Threads : Holding(u)' /\ job'[u] = i
                      \/ result'[i] # None
    BY <1>4 DEF NoJobLost
  <2>1. CASE i = j
    BY <1>6, <1>7, <2>1
  <2>2. CASE i # j
    <3>1. ~Holding(t)
      BY <1>4 DEF Holding
    <3> QED
      BY <1>3, <1>4, <1>6, <1>7, <2>2, <3>1 DEF NoJobLost
  <2> QED
    BY <2>1, <2>2
<1> QED
  BY <1>5, <1>8, <1>9, <1>10, <1>11

LEMMA ReportIInv == ASSUME IInv, NEW t \in Threads, Report(t) PROVE IInv'
<1> USE DEF IInv
<1> DEFINE j == job[t]
<1>1. /\ pc[t] = "report" /\ Holding(t) /\ j \in Jobs
      /\ outcome[t] \in Outcomes /\ outcome[t] # None
  BY DEF Report, TypeOK, Holding
<1>2. /\ known' = known /\ started' = started /\ pending' = pending /\ submitted' = submitted
      /\ finished' = IF j \in known THEN finished \union {j} ELSE finished
      /\ result' = IF j \in known THEN [result EXCEPT ![j] = outcome[t]] ELSE result
      /\ UNCHANGED <<running, processed, handlers, owner>>
      /\ job' = [job EXCEPT ![t] = None]
      /\ outcome' = [outcome EXCEPT ![t] = None]
      /\ \E p \in {"count", "check"} : pc' = [pc EXCEPT ![t] = p]
  BY DEF Report, Complete
<1>3. \A u \in Threads : Holding(u)' <=> (Holding(u) /\ u # t)
  BY <1>2 DEF Holding, TypeOK
<1>4. \A u \in Threads : u # t => job'[u] = job[u]
  BY <1>2 DEF TypeOK
<1>5. TypeOK'
  BY <1>1, <1>2, <1>3 DEF TypeOK, QueueTypeOK, Holding, PCs
<1>6. \A u \in Threads : Holding(u)' => job[u] # j
  BY <1>1, <1>3 DEF ExclusiveExecution
<1>7. HeldJobsUnreported'
  BY <1>1, <1>2, <1>3, <1>4, <1>6 DEF HeldJobsUnreported, TypeOK, QueueTypeOK
<1>8. ExclusiveExecution'
  BY <1>2, <1>3, <1>4 DEF ExclusiveExecution
<1>9. PendingIsFresh'
  <2>1. j \notin ToSet(pending)
    BY <1>1 DEF ExclusiveExecution
  <2> QED
    BY <1>1, <1>2, <2>1 DEF PendingIsFresh, TypeOK, QueueTypeOK
<1>10. NoJobLost'
  <2> SUFFICES ASSUME NEW i \in known
               PROVE  \/ i \in ToSet(pending)
                      \/ \E u \in Threads : Holding(u)' /\ job'[u] = i
                      \/ result'[i] # None
    BY <1>2 DEF NoJobLost
  <2>1. i \in Jobs
    BY DEF TypeOK, QueueTypeOK
  <2>2. CASE i = j
    BY <1>1, <1>2, <2>1, <2>2 DEF TypeOK, QueueTypeOK
  <2>3. CASE i # j
    BY <1>2, <1>3, <1>4, <2>1, <2>3 DEF NoJobLost, TypeOK, QueueTypeOK
  <2> QED
    BY <2>2, <2>3
<1> QED
  BY <1>5, <1>7, <1>8, <1>9, <1>10

LEMMA NextIInv == ASSUME IInv, [Next]_vars PROVE IInv'
<1>1. ASSUME NEW j \in Jobs, ClientSubmit(j) \/ ClientCancel(j) PROVE IInv'
  BY <1>1, SubmitIInv, CancelIInv
<1>2. CASE ClientClear
  BY <1>2, ClearIInv
<1>3. ASSUME NEW w \in Workers,
             Start(w) \/ Stop(w) \/ \E ty \in Types : RegisterHandler(w, ty)
      PROVE  IInv'
  BY <1>3, WorkerIInv
<1>4. ASSUME NEW t \in Threads, ThreadStep(t) PROVE IInv'
  BY <1>4, LocalIInv, ExecuteIInv, FetchIInv, ReportIInv DEF ThreadStep
<1>5. CASE UNCHANGED vars
  <2>1. TypeOK' /\ \A t \in Threads : Holding(t)' <=> Holding(t)
    BY <1>5 DEF IInv, vars, queueVars, threadVars, TypeOK, QueueTypeOK, Holding
  <2> QED
    BY <1>5, <2>1, IdleIInv DEF vars, threadVars
<1> QED
  BY <1>1, <1>2, <1>3, <1>4, <1>5 DEF Next

LEMMA SpecIInv == Spec => []IInv
<1>1. Init => IInv
  BY InitIInv
<1>2. IInv /\ [Next]_vars => IInv'
  BY NextIInv
<1> QED
  BY <1>1, <1>2, PTL DEF Spec

-----------------------------------------------------------------------------
(* The theorems.                                                           *)

\* Every variable of the queue, the workers and the threads keeps its type.
THEOREM TypeCorrect == Spec => []TypeOK
<1>1. IInv => TypeOK
  BY DEF IInv
<1> QED
  BY <1>1, SpecIInv, PTL

\* No job is ever executed by two threads, however workers are stopped and
\* started and jobs cancelled while they run.
THEOREM ExecutionIsExclusive == Spec => []ExclusiveExecution
<1>1. IInv => ExclusiveExecution
  BY DEF IInv
<1> QED
  BY <1>1, SpecIInv, PTL

\* No submitted job falls between fetch and complete.
THEOREM JobsAreNotLost == Spec => [](NoJobLost /\ PendingIsFresh)
<1>1. IInv => NoJobLost /\ PendingIsFresh
  BY DEF IInv
<1> QED
  BY <1>1, SpecIInv, PTL

\* A result a worker reported is replaced by nothing but clear().
THEOREM ResultsAreFinal == Spec => ResultIsFinal
<1> DEFINE Final == \A j \in Jobs :
              result[j] \notin {None, "cancelled"} => result'[j] \in {result[j], None}
<1>1. IInv /\ [Next]_vars => [Final]_vars
  <2> SUFFICES ASSUME IInv, [Next]_vars, NEW j \in Jobs,
                      result[j] \notin {None, "cancelled"}
               PROVE  result'[j] \in {result[j], None}
    OBVIOUS
  <2> USE DEF IInv, TypeOK, QueueTypeOK
  <2>1. ASSUME NEW i \in Jobs, ClientSubmit(i) PROVE result'[j] = result[j]
    BY <2>1 DEF ClientSubmit, Submit
  <2>2. ASSUME NEW i \in Jobs, ClientCancel(i) PROVE result'[j] = result[j]
    BY <2>2 DEF ClientCancel, Cancel, HeldJobsUnreported
  <2>3. CASE ClientClear
    BY <2>3 DEF ClientClear, Clear
  <2>4. ASSUME NEW w \in Workers,
               Start(w) \/ Stop(w) \/ \E ty \in Types : RegisterHandler(w, ty)
        PROVE  result'[j] = result[j]
    BY <2>4 DEF Start, Stop, RegisterHandler, queueVars
  <2>5. ASSUME NEW t \in Threads, ThreadStep(t) PROVE result'[j] = result[j]
    <3>1. CASE Report(t)
      <4>1. Holding(t)
        BY <3>1 DEF Report, Holding
      <4>2. job[t] # j
        BY <4>1 DEF HeldJobsUnreported
      <4> QED
        BY <3>1, <4>2 DEF Report, Complete
    <3>2. CASE FetchJob(t)
      BY <3>2 DEF FetchJob, Fetch
    <3>3. CASE CheckLoop(t) \/ FetchNothing(t) \/ NoHandler(t) \/ RunHandler(t) \/ CountUnhandled(t)
      BY <3>3 DEF CheckLoop, FetchNothing, NoHandler, RunHandler, CountUnhandled, queueVars
    <3> QED
      BY <2>5, <3>1, <3>2, <3>3 DEF ThreadStep
  <2>6. CASE UNCHANGED vars
    BY <2>6 DEF vars, queueVars
  <2> QED
    BY <2>1, <2>2, <2>3, <2>4, <2>5, <2>6 DEF Next
<1> QED
  BY <1>1, SpecIInv, PTL DEF Spec, ResultIsFinal

-----------------------------------------------------------------------------
(* The workers and their queue implement the abstract TaskQueue.  A report    *)
(* completes its job, or stutters where the job was cancelled or cleared       *)
(* while the handler ran.                                                      *)

\* The three sets of the queue decide the abstract status of a job.
LEMMA AbstractState ==
    ASSUME QueueTypeOK
    PROVE  \A j \in Jobs :
             Status(j) = IF j \notin known THEN "unknown"
                         ELSE IF j \in finished THEN "completed"
                         ELSE IF j \in started THEN "running" ELSE "pending"
BY DEF QueueTypeOK, Status

LEMMA InitRefines == Init => Contract!Init
BY DEF Init, QueueInit, Status, Contract!Init

LEMMA UnchangedRefines ==
    ASSUME UNCHANGED <<known, started, finished, result>>
    PROVE  UNCHANGED Contract!vars
BY DEF Contract!vars, Status

\* A new identifier is unknown to the queue, and only an unfinished job is cancelled.
LEMMA ClientRefines ==
    ASSUME IInv, IInv', NEW j \in Jobs, ClientSubmit(j) \/ ClientCancel(j)
    PROVE  Contract!Next
<1> USE DEF IInv
<1>0. QueueTypeOK /\ QueueTypeOK'
  BY DEF TypeOK
<1>1. /\ \A i \in Jobs : Status(i) = IF i \notin known THEN "unknown"
                         ELSE IF i \in finished THEN "completed"
                         ELSE IF i \in started THEN "running" ELSE "pending"
      /\ \A i \in Jobs : Status(i)' = IF i \notin known' THEN "unknown"
                         ELSE IF i \in finished' THEN "completed"
                         ELSE IF i \in started' THEN "running" ELSE "pending"
  BY <1>0, AbstractState DEF QueueTypeOK, Status
<1> DEFINE S == [i \in Jobs |-> Status(i)]
           A == {i \in Jobs : result[i] # None}
<1>2. CASE ClientSubmit(j)
  <2>1. /\ j \notin known /\ known' = known \union {j}
        /\ UNCHANGED <<started, finished, result>>
    BY <1>2 DEF ClientSubmit, Submit, HeldJobsUnreported
  <2>2. S[j] = "unknown" /\ S' = [S EXCEPT ![j] = "pending"] /\ A' = A
    BY <1>0, <1>1, <2>1 DEF QueueTypeOK
  <2> QED
    BY <2>2 DEF Contract!Next, Contract!Submit
<1>3. CASE ClientCancel(j)
  <2>1. /\ j \in known /\ j \notin finished /\ finished' = finished \union {j}
        /\ result' = [result EXCEPT ![j] = "cancelled"]
        /\ UNCHANGED <<known, started>>
    BY <1>3 DEF ClientCancel, Cancel
  <2>2. S[j] \in {"pending", "running"} /\ S' = [S EXCEPT ![j] = "completed"]
    <3>1. Status(j) \in {"pending", "running"}
      BY <1>1, <2>1
    <3>2. \A i \in Jobs : Status(i)' = IF i = j THEN "completed" ELSE Status(i)
      BY <1>1, <2>1
    <3> HIDE DEF IInv
    <3> QED
      BY <3>1, <3>2
  <2>3. A' = A \union {j}
    BY <1>0, <2>1, NoneAssumption DEF QueueTypeOK, Outcomes
  <2> QED
    BY <2>2, <2>3 DEF Contract!Next, Contract!Cancel, Contract!Settle
<1> QED
  BY <1>2, <1>3

LEMMA ClearRefines == ASSUME ClientClear PROVE Contract!Next
<1>1. /\ known' = {} /\ started' = {} /\ finished' = {}
      /\ result' = [j \in Jobs |-> None]
  BY DEF ClientClear, Clear
<1>2. \A j \in Jobs : Status(j)' = "unknown" /\ result'[j] = None
  BY <1>1 DEF Status
<1>3. Contract!Clear
  BY <1>2 DEF Contract!Clear
<1> QED
  BY <1>3 DEF Contract!Next

\* A fetched job was pending, because a waiting job is untouched (PendingIsFresh).
LEMMA FetchRefines ==
    ASSUME IInv, IInv', NEW t \in Threads, FetchJob(t)
    PROVE  Contract!Next
<1> USE DEF IInv
<1>0. QueueTypeOK /\ QueueTypeOK' /\ Distinct(pending)
  BY DEF TypeOK, PendingIsFresh, Distinct
<1>1. PICK j \in Jobs : Fetch(j)
  BY DEF FetchJob
<1>2. j \in known /\ j \notin started /\ j \notin finished
  BY <1>0, <1>1, FetchPending DEF PendingIsFresh
<1>3. started' = started \union {j} /\ UNCHANGED <<known, finished, result>>
  BY <1>1 DEF Fetch
<1> DEFINE S == [i \in Jobs |-> Status(i)]
           A == {i \in Jobs : result[i] # None}
<1>4. Status(j) = "pending"
  BY <1>2 DEF Status
<1>5. \A i \in Jobs : Status(i)' = IF i = j THEN "running" ELSE Status(i)
  BY <1>2, <1>3 DEF Status
<1>6. S[j] = "pending" /\ S' = [S EXCEPT ![j] = "running"] /\ A' = A
  BY <1>3, <1>4, <1>5
<1> QED
  BY <1>6 DEF Contract!Next, Contract!Fetch

\* A job in hand that is still known was started (HeldJobsUnreported), so its
\* report completes a running job unless a cancellation did so before.
LEMMA ReportRefines ==
    ASSUME IInv, IInv', NEW t \in Threads, Report(t)
    PROVE  Contract!Next \/ UNCHANGED Contract!vars
<1> USE DEF IInv
<1> DEFINE j == job[t]
           S == [i \in Jobs |-> Status(i)]
           A == {i \in Jobs : result[i] # None}
<1>1. /\ QueueTypeOK /\ Holding(t) /\ j \in Jobs
      /\ outcome[t] # None
  BY DEF Report, TypeOK, Holding
<1>2. /\ finished' = IF j \in known THEN finished \union {j} ELSE finished
      /\ result' = IF j \in known THEN [result EXCEPT ![j] = outcome[t]] ELSE result
      /\ UNCHANGED <<known, started>>
  BY DEF Report, Complete
<1>3. CASE j \notin known
  BY <1>2, <1>3, UnchangedRefines
<1>4. CASE j \in finished
  <2>1. j \in known /\ finished' = finished /\ result[j] # None
    BY <1>1, <1>2, <1>4 DEF QueueTypeOK, HeldJobsUnreported
  <2>2. S' = S
    BY <1>2, <2>1 DEF Status
  <2>3. A' = A
    BY <1>1, <1>2, <2>1 DEF QueueTypeOK
  <2> QED
    BY <2>2, <2>3 DEF Contract!vars
<1>5. CASE j \in known /\ j \notin finished
  <2>1. j \in started
    BY <1>1, <1>5 DEF HeldJobsUnreported
  <2>2. S[j] = "running" /\ S' = [S EXCEPT ![j] = "completed"]
    BY <1>1, <1>2, <1>5, <2>1 DEF Status
  <2>3. A' = A \union {j}
    BY <1>1, <1>2, <1>5 DEF QueueTypeOK
  <2> QED
    BY <1>1, <2>2, <2>3 DEF Contract!Next, Contract!Complete, Contract!Settle
<1> QED
  BY <1>3, <1>4, <1>5

\* To its callers the queue with its workers is the abstract queue: a status only
\* moves forward and get_result answers exactly for the completed jobs, whatever
\* the threads, the cancellations and clear() interleave to.
THEOREM QueueKeepsContract == Spec => ImplementsTaskQueue
<1>1. IInv /\ IInv' /\ [Next]_vars => [Contract!Next]_(Contract!vars)
  <2> SUFFICES ASSUME IInv, IInv', [Next]_vars
               PROVE  Contract!Next \/ UNCHANGED Contract!vars
    OBVIOUS
  <2>1. ASSUME NEW j \in Jobs, ClientSubmit(j) \/ ClientCancel(j) PROVE Contract!Next
    BY <2>1, ClientRefines
  <2>2. CASE ClientClear
    BY <2>2, ClearRefines
  <2>3. ASSUME NEW w \in Workers,
               Start(w) \/ Stop(w) \/ \E ty \in Types : RegisterHandler(w, ty)
        PROVE  UNCHANGED Contract!vars
    BY <2>3, UnchangedRefines DEF Start, Stop, RegisterHandler, queueVars
  <2>4. ASSUME NEW t \in Threads, ThreadStep(t)
        PROVE  Contract!Next \/ UNCHANGED Contract!vars
    <3>1. CASE FetchJob(t)
      BY <3>1, FetchRefines
    <3>2. CASE Report(t)
      BY <3>2, ReportRefines
    <3>3. CASE CheckLoop(t) \/ FetchNothing(t) \/ NoHandler(t) \/ RunHandler(t) \/ CountUnhandled(t)
      BY <3>3, UnchangedRefines
      DEF CheckLoop, FetchNothing, NoHandler, RunHandler, CountUnhandled, queueVars
    <3> QED
      BY <2>4, <3>1, <3>2, <3>3 DEF ThreadStep
  <2>5. CASE UNCHANGED vars
    BY <2>5, UnchangedRefines DEF vars, queueVars
  <2> QED
    BY <2>1, <2>2, <2>3, <2>4, <2>5 DEF Next
<1> QED
  BY <1>1, InitRefines, SpecIInv, PTL DEF Spec, ImplementsTaskQueue, Contract!Spec

-----------------------------------------------------------------------------
(* The order of service.                                                   *)

\* Precedes after a step.
WillPrecede(i, k) ==
    \/ Priority[i] < Priority[k]
    \/ /\ Priority[i] = Priority[k]
       /\ \E a, b \in 1..Len(submitted') : a < b /\ submitted'[a] = i /\ submitted'[b] = k

LEMMA OrderWillHold ==
    ASSUME \A i, k \in 1..Len(pending') : i < k => WillPrecede(pending'[i], pending'[k])
    PROVE  ServiceOrder'
BY DEF ServiceOrder, Precedes, WillPrecede

LEMMA PrecedesKept ==
    ASSUME submitted \in Seq(Jobs), NEW x \in Jobs,
           submitted' = Append(submitted, x) \/ submitted' = submitted,
           NEW i, NEW k, Precedes(i, k)
    PROVE  WillPrecede(i, k)
<1>1. \A a \in 1..Len(submitted) : a \in 1..Len(submitted') /\ submitted'[a] = submitted[a]
  OBVIOUS
<1> QED
  BY <1>1 DEF Precedes, WillPrecede

\* A list that lost elements keeps the order of those it still has.
LEMMA SublistOrder ==
    ASSUME ServiceOrder, submitted' = submitted, NEW f,
           \A i, k \in 1..Len(pending') : i < k => f[i] < f[k],
           \A i \in 1..Len(pending') : f[i] \in 1..Len(pending) /\ pending'[i] = pending[f[i]]
    PROVE  ServiceOrder'
<1>1. ASSUME NEW i \in 1..Len(pending'), NEW k \in 1..Len(pending'), i < k
      PROVE  WillPrecede(pending'[i], pending'[k])
  <2>1. Precedes(pending[f[i]], pending[f[k]])
    BY <1>1 DEF ServiceOrder
  <2> QED
    BY <2>1 DEF Precedes, WillPrecede
<1> QED
  BY <1>1, OrderWillHold

LEMMA SubmitOrder ==
    ASSUME IInv, ServiceOrder, NEW j \in Jobs, Submit(j)
    PROVE  ServiceOrder'
<1>0. /\ pending \in Seq(known) /\ known \subseteq Jobs /\ submitted \in Seq(Jobs)
      /\ known \subseteq ToSet(submitted)
  BY DEF IInv, TypeOK, QueueTypeOK, HeldJobsUnreported
<1>1. PICK p \in 1..(Len(pending) + 1) :
         IsInsertionPoint(pending, p, j) /\ pending' = InsertAt(pending, p, j)
  BY DEF Submit
<1>2. pending \in Seq(Jobs) /\ submitted' = Append(submitted, j)
  BY <1>0, SeqMonotonic DEF Submit
<1>3. /\ Len(pending') = Len(pending) + 1
      /\ \A i \in 1..(Len(pending) + 1) :
            pending'[i] = IF i < p THEN pending[i] ELSE IF i = p THEN j ELSE pending[i - 1]
  BY <1>1, <1>2, InsertAtProperties, SMTT(30)
<1>4. \A i \in 1..Len(pending) : \E a \in 1..Len(submitted) : submitted[a] = pending[i]
  <2> TAKE i \in 1..Len(pending)
  <2>1. pending[i] \in ToSet(submitted)
    BY <1>0
  <2> QED
    BY <1>0, <2>1, ToSetElements
<1>5. ASSUME NEW i \in 1..(Len(pending) + 1), NEW k \in 1..(Len(pending) + 1), i < k
      PROVE  WillPrecede(pending'[i], pending'[k])
  <2>0. i \in Int /\ k \in Int /\ p \in Int /\ Len(pending) \in Nat
    BY <1>2
  <2>1. CASE i # p /\ k # p
    <3> DEFINE a == IF i < p THEN i ELSE i - 1
               b == IF k < p THEN k ELSE k - 1
    <3>1. a \in 1..Len(pending) /\ b \in 1..Len(pending) /\ a < b
      BY <1>5, <2>0, <2>1
    <3>2. pending'[i] = pending[a] /\ pending'[k] = pending[b]
      BY <1>3, <2>0, <2>1
    <3> HIDE DEF a, b
    <3>3. Precedes(pending[a], pending[b])
      BY <3>1 DEF ServiceOrder
    <3> QED
      BY <1>0, <1>2, <3>2, <3>3, PrecedesKept
  <2>2. CASE k = p
    <3>1. i \in 1..Len(pending) /\ i < p
      BY <1>5, <2>0, <2>2
    <3>2. pending'[i] = pending[i] /\ pending'[k] = j
      BY <1>3, <2>0, <2>2, <3>1
    <3>3. pending[i] \in Jobs /\ Priority[pending[i]] <= Priority[j]
      BY <1>1, <1>2, <3>1 DEF IsInsertionPoint
    <3>4. PICK a \in 1..Len(submitted) : submitted[a] = pending[i]
      BY <1>4, <3>1
    <3>5. /\ a \in 1..Len(submitted') /\ Len(submitted) + 1 \in 1..Len(submitted')
          /\ a < Len(submitted) + 1
          /\ submitted'[a] = pending[i] /\ submitted'[Len(submitted) + 1] = j
      BY <1>0, <1>2, <3>4
    <3>6. Priority[pending[i]] < Priority[j] \/ Priority[pending[i]] = Priority[j]
      BY <3>3, PriorityAssumption
    <3> QED
      BY <3>2, <3>5, <3>6 DEF WillPrecede
  <2>3. CASE i = p
    <3>1. k - 1 \in 1..Len(pending) /\ ~(k - 1 < p)
      BY <1>5, <2>0, <2>3
    <3>2. pending'[k] = pending[k - 1] /\ pending'[i] = j
      BY <1>3, <1>5, <2>0, <2>3
    <3>3. pending[k - 1] \in Jobs /\ ~(Priority[pending[k - 1]] <= Priority[j])
      BY <1>1, <1>2, <3>1 DEF IsInsertionPoint
    <3>4. Priority[j] < Priority[pending[k - 1]]
      BY <3>3, PriorityAssumption
    <3> QED
      BY <3>2, <3>4 DEF WillPrecede
  <2> QED
    BY <2>1, <2>2, <2>3
<1> QED
  BY <1>3, <1>5, OrderWillHold

LEMMA NextOrder == ASSUME IInv, ServiceOrder, [Next]_vars PROVE ServiceOrder'
<1>0. pending \in Seq(known) /\ submitted \in Seq(Jobs)
  BY DEF IInv, TypeOK, QueueTypeOK
<1>1. ASSUME NEW j \in Jobs, ClientSubmit(j) PROVE ServiceOrder'
  BY <1>1, SubmitOrder DEF ClientSubmit
<1>2. ASSUME NEW j \in Jobs, ClientCancel(j) PROVE ServiceOrder'
  <2>1. CASE \E i \in 1..Len(pending) : pending[i] = j
    <3> DEFINE pos == CHOOSE i \in 1..Len(pending) :
                         pending[i] = j /\ \A k \in 1..(i - 1) : pending[k] # j
               f == [i \in 1..(Len(pending) - 1) |-> IF i < pos THEN i ELSE i + 1]
    <3>1. pos \in 1..Len(pending)
      <4>1. PICK i \in 1..Len(pending) : pending[i] = j
        BY <2>1
      <4>2. \A k \in 1..(i - 1) : pending[k] # j
        BY <1>0, <4>1 DEF IInv, PendingIsFresh
      <4> QED
        BY <4>1, <4>2
    <3>2. pending' = RemoveAt(pending, pos) /\ submitted' = submitted
      BY <1>2, <2>1 DEF ClientCancel, Cancel
    <3> HIDE DEF pos
    <3>3. /\ Len(pending') = Len(pending) - 1
          /\ \A i \in 1..(Len(pending) - 1) : pending'[i] = pending[f[i]]
      BY <1>0, <3>1, <3>2, RemoveAtProperties
    <3>4. \A i, k \in 1..Len(pending') : i < k => f[i] < f[k]
      BY <1>0, <3>1, <3>3
    <3>5. \A i \in 1..Len(pending') : f[i] \in 1..Len(pending)
      BY <1>0, <3>1, <3>3
    <3> HIDE DEF f
    <3> QED
      BY <3>2, <3>3, <3>4, <3>5, SublistOrder
  <2>2. CASE ~\E i \in 1..Len(pending) : pending[i] = j
    BY <1>2, <2>2 DEF ClientCancel, Cancel, ServiceOrder, Precedes
  <2> QED
    BY <2>1, <2>2
<1>3. CASE ClientClear
  BY <1>3 DEF ClientClear, Clear, ServiceOrder
<1>4. ASSUME NEW t \in Threads, FetchJob(t) PROVE ServiceOrder'
  <2> DEFINE f == [i \in 1..(Len(pending) - 1) |-> i + 1]
  <2>1. pending # <<>> /\ pending' = Tail(pending) /\ submitted' = submitted
    BY <1>4 DEF FetchJob, Fetch
  <2>2. /\ Len(pending') = Len(pending) - 1
        /\ \A i \in 1..Len(pending') : pending'[i] = pending[i + 1]
    BY <1>0, <2>1
  <2>3. /\ \A i, k \in 1..Len(pending') : i < k => f[i] < f[k]
        /\ \A i \in 1..Len(pending') : f[i] \in 1..Len(pending) /\ pending'[i] = pending[f[i]]
    BY <1>0, <2>2
  <2> HIDE DEF f
  <2> QED
    BY <2>1, <2>3, SublistOrder
<1>5. CASE UNCHANGED <<pending, submitted>>
  BY <1>5 DEF ServiceOrder, Precedes
<1>6. ASSUME NEW w \in Workers,
             Start(w) \/ Stop(w) \/ \E ty \in Types : RegisterHandler(w, ty)
      PROVE  ServiceOrder'
  BY <1>5, <1>6 DEF Start, Stop, RegisterHandler, queueVars
<1>7. ASSUME NEW t \in Threads, ThreadStep(t) PROVE ServiceOrder'
  BY <1>4, <1>5, <1>7
  DEF ThreadStep, CheckLoop, FetchNothing, NoHandler, RunHandler, Report, Complete,
      CountUnhandled, queueVars
<1>8. CASE UNCHANGED vars
  BY <1>5, <1>8 DEF vars, queueVars
<1> QED
  BY <1>1, <1>2, <1>3, <1>6, <1>7, <1>8 DEF Next

\* However jobs are submitted, fetched and cancelled, the next job fetched is of the
\* lowest priority value that waits, and of those the first submitted.
THEOREM ServiceIsOrdered == Spec => []ServiceOrder
<1>1. Init => ServiceOrder
  BY DEF Init, QueueInit, ServiceOrder
<1>2. IInv /\ ServiceOrder /\ [Next]_vars => ServiceOrder'
  BY NextOrder
<1> QED
  BY <1>1, <1>2, SpecIInv, PTL DEF Spec

-----------------------------------------------------------------------------
(* max_jobs.  A thread past the test of the limit is the one job by which it  *)
(* may overrun it, until the job is counted.                                  *)

InFlight(w) ==
    {t \in ThreadsOf(w) : \/ pc[t] \in {"fetch", "execute", "count"}
                          \/ pc[t] = "report" /\ outcome[t] = "no_handler"}

WithinLimit ==
    /\ \A t \in Threads : pc[t] = "unborn" => owner[t] = None
    /\ MaxJobs # None => \A w \in Workers :
          IF ThreadsOf(w) = {} THEN processed[w] = 0
          ELSE processed[w] + Cardinality(InFlight(w)) < MaxJobs + Cardinality(ThreadsOf(w))

LEMMA ThreadCounts ==
    ASSUME NEW w
    PROVE  /\ IsFiniteSet(ThreadsOf(w)) /\ Cardinality(ThreadsOf(w)) \in Nat
           /\ IsFiniteSet(InFlight(w)) /\ Cardinality(InFlight(w)) \in Nat
           /\ Cardinality(InFlight(w)) <= Cardinality(ThreadsOf(w))
<1>1. IsFiniteSet(ThreadsOf(w))
  BY ThreadsAssumption, FS_Subset DEF ThreadsOf
<1>2. InFlight(w) \in SUBSET ThreadsOf(w)
  BY DEF InFlight
<1>3. IsFiniteSet(InFlight(w)) /\ Cardinality(InFlight(w)) <= Cardinality(ThreadsOf(w))
  BY <1>1, <1>2, FS_Subset
<1> QED
  BY <1>1, <1>3, FS_CardinalityType

LEMMA WillCount ==
    ASSUME NEW w
    PROVE  /\ IsFiniteSet(InFlight(w)') /\ Cardinality(InFlight(w)') \in Nat
           /\ Cardinality(InFlight(w)') <= Cardinality(ThreadsOf(w)')
<1>1. IsFiniteSet(ThreadsOf(w)')
  BY ThreadsAssumption, FS_Subset DEF ThreadsOf
<1>2. InFlight(w)' \in SUBSET ThreadsOf(w)'
  BY DEF InFlight
<1>3. IsFiniteSet(InFlight(w)') /\ Cardinality(InFlight(w)') <= Cardinality(ThreadsOf(w)')
  BY <1>1, <1>2, FS_Subset
<1> QED
  BY <1>3, FS_CardinalityType

\* A step of one thread: it gives up its place, trades it for a counted job, or takes
\* one after testing the limit.
LEMMA ThreadLimit ==
    ASSUME TypeOK, WithinLimit, NEW t \in Threads, NEW w \in Workers, owner[t] = w,
           UNCHANGED owner, pc[t] # "unborn", pc'[t] # "unborn",
           \A u \in Threads : u # t => pc'[u] = pc[u] /\ outcome'[u] = outcome[u],
           \A v \in Workers : v # w => processed'[v] = processed[v],
           \/ /\ processed' = processed
              /\ t \in InFlight(w)' => t \in InFlight(w)
           \/ /\ processed'[w] = processed[w] + 1
              /\ t \in InFlight(w) /\ t \notin InFlight(w)'
           \/ /\ processed' = processed
              /\ ~LimitReached(w)
    PROVE  WithinLimit'
<1>1. t \in ThreadsOf(w)
  BY DEF ThreadsOf
<1>2. \A v : ThreadsOf(v)' = ThreadsOf(v)
  BY DEF ThreadsOf
<1>3. /\ \A v \in Workers : v # w => InFlight(v)' = InFlight(v)
      /\ \A u \in Threads : u # t => (u \in InFlight(w)' <=> u \in InFlight(w))
  BY <1>2 DEF InFlight, ThreadsOf
<1>4. \A u \in Threads : pc'[u] = "unborn" => owner'[u] = None
  BY DEF WithinLimit
<1>5. ASSUME MaxJobs # None, NEW v \in Workers
      PROVE  IF ThreadsOf(v)' = {} THEN processed'[v] = 0
             ELSE processed'[v] + Cardinality(InFlight(v)') < MaxJobs + Cardinality(ThreadsOf(v)')
  <2>0. MaxJobs \in Nat /\ processed[v] \in Nat
    BY <1>5, MaxJobsAssumption DEF TypeOK
  <2>1. CASE v # w
    <3>1. processed'[v] = processed[v]
      BY <2>1
    <3> QED
      BY <1>2, <1>3, <1>5, <2>1, <3>1 DEF WithinLimit
  <2>2. CASE v = w
    <3>1. processed[w] + Cardinality(InFlight(w)) < MaxJobs + Cardinality(ThreadsOf(w))
      BY <1>1, <1>5 DEF WithinLimit
    <3>2. ThreadsOf(w)' = ThreadsOf(w) /\ ThreadsOf(w) # {}
      BY <1>1, <1>2
    <3>3. CASE processed' = processed /\ (t \in InFlight(w)' => t \in InFlight(w))
      <4>1. InFlight(w)' \in SUBSET InFlight(w)
        BY <1>3, <3>3 DEF InFlight, ThreadsOf
      <4>2. Cardinality(InFlight(w)') <= Cardinality(InFlight(w))
        BY <4>1, ThreadCounts, FS_Subset
      <4> QED
        BY <2>0, <2>2, <3>1, <3>2, <3>3, <4>2, ThreadCounts, WillCount
    <3>4. CASE /\ processed'[w] = processed[w] + 1
               /\ t \in InFlight(w) /\ t \notin InFlight(w)'
      <4>1. InFlight(w)' = InFlight(w) \ {t}
        BY <1>3, <3>4 DEF InFlight, ThreadsOf
      <4>2. Cardinality(InFlight(w)') = Cardinality(InFlight(w)) - 1
        BY <3>4, <4>1, ThreadCounts, FS_RemoveElement
      <4> QED
        BY <2>0, <2>2, <3>1, <3>2, <3>4, <4>2, ThreadCounts
    <3>5. CASE processed' = processed /\ ~LimitReached(w)
      <4>1. processed[w] < MaxJobs
        BY <1>5, <2>0, <2>2, <3>5 DEF LimitReached
      <4> QED
        BY <2>0, <2>2, <3>2, <3>5, <4>1, ThreadCounts, WillCount
    <3> QED
      BY <3>3, <3>4, <3>5
  <2> QED
    BY <2>1, <2>2
<1> QED
  BY <1>4, <1>5 DEF WithinLimit

\* start() gives the worker one more thread, and that thread no place yet.
LEMMA StartLimit ==
    ASSUME TypeOK, WithinLimit, NEW w \in Workers, Start(w)
    PROVE  WithinLimit'
<1>1. PICK t \in Threads : /\ pc[t] = "unborn"
                           /\ pc' = [pc EXCEPT ![t] = "check"]
                           /\ owner' = [owner EXCEPT ![t] = w]
  BY DEF Start
<1>2. owner[t] = None /\ UNCHANGED <<processed, outcome>>
  BY <1>1 DEF WithinLimit, Start
<1>3. /\ \A u \in Threads : u # t => pc'[u] = pc[u] /\ owner'[u] = owner[u]
      /\ pc'[t] = "check" /\ owner'[t] = w
  BY <1>1 DEF TypeOK
<1>4. \A v \in Workers : /\ ThreadsOf(v)' = IF v = w THEN ThreadsOf(v) \union {t} ELSE ThreadsOf(v)
                         /\ InFlight(v)' = InFlight(v)
                         /\ t \notin ThreadsOf(v)
  BY <1>2, <1>3, WorkersAssumption DEF ThreadsOf, InFlight
<1>5. \A u \in Threads : pc'[u] = "unborn" => owner'[u] = None
  BY <1>3 DEF WithinLimit
<1>6. ASSUME MaxJobs # None, NEW v \in Workers
      PROVE  IF ThreadsOf(v)' = {} THEN processed'[v] = 0
             ELSE processed'[v] + Cardinality(InFlight(v)') < MaxJobs + Cardinality(ThreadsOf(v)')
  <2>1. MaxJobs \in Nat /\ processed[v] \in Nat
    BY <1>6, MaxJobsAssumption DEF TypeOK
  <2>2. IF ThreadsOf(v) = {} THEN processed[v] = 0
        ELSE processed[v] + Cardinality(InFlight(v)) < MaxJobs + Cardinality(ThreadsOf(v))
    BY <1>6 DEF WithinLimit
  <2>3. CASE v # w
    BY <1>2, <1>4, <2>2, <2>3
  <2>4. CASE v = w
    <3>1. Cardinality(ThreadsOf(v)') = Cardinality(ThreadsOf(v)) + 1
      BY <1>4, <2>4, ThreadCounts, FS_AddElement
    <3>2. ThreadsOf(v)' # {}
      BY <1>4, <2>4
    <3>3. Cardinality(ThreadsOf(v)) \in Nat /\ Cardinality(InFlight(v)) \in Nat
      BY ThreadCounts
    <3>4. CASE ThreadsOf(v) = {}
      <4>1. Cardinality(InFlight(v)) <= Cardinality(ThreadsOf(v))
        BY ThreadCounts
      <4> QED
        BY <1>2, <1>4, <2>1, <2>2, <3>1, <3>2, <3>3, <3>4, <4>1
    <3>5. CASE ThreadsOf(v) # {}
      BY <1>2, <1>4, <2>1, <2>2, <3>1, <3>2, <3>3, <3>5
    <3> QED
      BY <3>4, <3>5
  <2> QED
    BY <2>3, <2>4
<1> QED
  BY <1>5, <1>6 DEF WithinLimit

LEMMA StepLimit ==
    ASSUME TypeOK, WithinLimit, NEW t \in Threads, ThreadStep(t)
    PROVE  WithinLimit'
<1> DEFINE w == owner[t]
<1>1. pc[t] # "unborn" /\ w \in Workers
  BY DEF ThreadStep, CheckLoop, FetchNothing, FetchJob, NoHandler, RunHandler, Report,
         CountUnhandled, TypeOK
<1>2. PICK v \in Workers : owner[t] = v
  BY <1>1
<1>3. owner' = owner
  BY DEF ThreadStep, CheckLoop, FetchNothing, FetchJob, NoHandler, RunHandler, Report,
         CountUnhandled
<1>4. /\ \A u \in Threads : u # t => pc'[u] = pc[u] /\ outcome'[u] = outcome[u]
      /\ \A x \in Workers : x # v => processed'[x] = processed[x]
      /\ pc'[t] # "unborn"
  BY <1>2 DEF ThreadStep, CheckLoop, FetchNothing, FetchJob, NoHandler, RunHandler, Report,
         CountUnhandled, TypeOK
<1>5. /\ t \in InFlight(v) <=> \/ pc[t] \in {"fetch", "execute", "count"}
                               \/ pc[t] = "report" /\ outcome[t] = "no_handler"
      /\ t \in InFlight(v)' <=> \/ pc'[t] \in {"fetch", "execute", "count"}
                                \/ pc'[t] = "report" /\ outcome'[t] = "no_handler"
  BY <1>2, <1>3 DEF InFlight, ThreadsOf
<1> HIDE DEF w
<1>6. CASE CheckLoop(t)
  <2>1. processed' = processed /\ ((pc'[t] = "fetch" /\ ~LimitReached(v)) \/ pc'[t] = "dead")
    BY <1>2, <1>6 DEF CheckLoop, TypeOK
  <2> QED
    BY <1>1, <1>2, <1>3, <1>4, <1>5, <2>1, ThreadLimit
<1>7. CASE FetchNothing(t)
  <2>1. processed' = processed /\ pc'[t] = "check"
    BY <1>7 DEF FetchNothing, TypeOK
  <2> QED
    BY <1>1, <1>2, <1>3, <1>4, <1>5, <2>1, ThreadLimit
<1>8. CASE FetchJob(t)
  <2>1. processed' = processed /\ pc[t] = "fetch"
    BY <1>8 DEF FetchJob
  <2> QED
    BY <1>1, <1>2, <1>3, <1>4, <1>5, <2>1, ThreadLimit
<1>9. CASE NoHandler(t)
  <2>1. processed' = processed /\ pc[t] = "execute"
    BY <1>9 DEF NoHandler
  <2> QED
    BY <1>1, <1>2, <1>3, <1>4, <1>5, <2>1, ThreadLimit
<1>10. CASE RunHandler(t)
  <2>1. /\ processed'[v] = processed[v] + 1 /\ pc[t] = "execute"
        /\ pc'[t] = "report" /\ outcome'[t] # "no_handler"
    BY <1>2, <1>10 DEF RunHandler, TypeOK
  <2> QED
    BY <1>1, <1>2, <1>3, <1>4, <1>5, <2>1, ThreadLimit
<1>11. CASE Report(t)
  <2>1. /\ processed' = processed /\ pc[t] = "report"
        /\ pc'[t] = IF outcome[t] = "no_handler" THEN "count" ELSE "check"
    BY <1>11 DEF Report, TypeOK
  <2> QED
    BY <1>1, <1>2, <1>3, <1>4, <1>5, <2>1, ThreadLimit
<1>12. CASE CountUnhandled(t)
  <2>1. processed'[v] = processed[v] + 1 /\ pc[t] = "count" /\ pc'[t] = "check"
    BY <1>2, <1>12 DEF CountUnhandled, TypeOK
  <2> QED
    BY <1>1, <1>2, <1>3, <1>4, <1>5, <2>1, ThreadLimit
<1> QED
  BY <1>6, <1>7, <1>8, <1>9, <1>10, <1>11, <1>12 DEF ThreadStep

LEMMA NextLimit == ASSUME TypeOK, WithinLimit, [Next]_vars PROVE WithinLimit'
<1>1. CASE UNCHANGED <<processed, pc, owner, outcome>>
  BY <1>1 DEF WithinLimit, ThreadsOf, InFlight
<1>2. ASSUME NEW j \in Jobs, ClientSubmit(j) \/ ClientCancel(j) PROVE WithinLimit'
  BY <1>1, <1>2 DEF ClientSubmit, ClientCancel, threadVars
<1>3. ASSUME NEW w \in Workers, Stop(w) \/ \E ty \in Types : RegisterHandler(w, ty)
      PROVE  WithinLimit'
  BY <1>1, <1>3 DEF Stop, RegisterHandler
<1>4. CASE ClientClear \/ UNCHANGED vars
  BY <1>1, <1>4 DEF ClientClear, vars, threadVars
<1> QED
  BY <1>2, <1>3, <1>4, StartLimit, StepLimit DEF Next

\* Threads left over by a stop() whose join timed out take a worker past max_jobs by at
\* most one job each, for all of them but one.
THEOREM OverrunIsBounded == Spec => []BoundedOverrun
<1>1. Init => WithinLimit
  BY WorkersAssumption DEF Init, WithinLimit, ThreadsOf
<1>2. TypeOK /\ WithinLimit /\ [Next]_vars => WithinLimit'
  BY NextLimit
<1>3. TypeOK /\ WithinLimit => BoundedOverrun
  <2> SUFFICES ASSUME TypeOK, WithinLimit, MaxJobs # None, NEW w \in Workers,
                      processed[w] > MaxJobs
               PROVE  processed[w] < MaxJobs + Cardinality(ThreadsOf(w))
    BY DEF BoundedOverrun
  <2>1. MaxJobs \in Nat /\ processed[w] \in Nat
    BY MaxJobsAssumption DEF TypeOK
  <2>2. IF ThreadsOf(w) = {} THEN processed[w] = 0
        ELSE processed[w] + Cardinality(InFlight(w)) < MaxJobs + Cardinality(ThreadsOf(w))
    BY DEF WithinLimit
  <2>3. Cardinality(ThreadsOf(w)) \in Nat /\ Cardinality(InFlight(w)) \in Nat
    BY ThreadCounts
  <2> QED
    BY <2>1, <2>2, <2>3
<1> QED
  BY <1>1, <1>2, <1>3, TypeCorrect, PTL DEF Spec

-----------------------------------------------------------------------------
(* run() of the benchmark runner, a client of the queue with workers.  What   *)
(* the queue answered to it once is settled: Settled says what stays true of  *)
(* a job whose outcome o somebody has read.                                   *)

Settled(j, o) ==
    /\ j \in ToSet(submitted)
    /\ j \notin ToSet(pending)
    /\ j \in known => result[j] # None /\ o \in {result[j], "cancelled"}
    /\ \A t \in Threads : Holding(t) /\ job[t] = j => o = "cancelled"

LEMMA ClientSettled ==
    ASSUME IInv, NEW j \in Jobs, NEW o, Settled(j, o),
           \/ \E i \in Jobs : ClientSubmit(i) \/ ClientCancel(i)
           \/ ClientClear
    PROVE  Settled(j, o)'
<1> USE DEF IInv
<1>1. ASSUME NEW i \in Jobs, ClientSubmit(i) PROVE Settled(j, o)'
  <2>1. /\ QueueTypeOK /\ Distinct(pending) /\ known \subseteq ToSet(submitted) /\ Submit(i)
    BY <1>1 DEF TypeOK, PendingIsFresh, Distinct, HeldJobsUnreported, ClientSubmit
  <2>2. /\ ToSet(pending') = ToSet(pending) \union {i}
        /\ ToSet(submitted') = ToSet(submitted) \union {i}
    BY <2>1, SubmitPending
  <2>3. /\ i \notin ToSet(submitted) /\ known' = known \union {i} /\ result' = result
        /\ UNCHANGED <<pc, job>>
    BY <1>1 DEF ClientSubmit, Submit, threadVars
  <2>4. i # j
    BY <2>3 DEF Settled
  <2> QED
    BY <2>2, <2>3, <2>4 DEF Settled, Holding
<1>2. ASSUME NEW i \in Jobs, ClientCancel(i) PROVE Settled(j, o)'
  <2>1. /\ QueueTypeOK /\ Distinct(pending) /\ Cancel(i)
    BY <1>2 DEF TypeOK, PendingIsFresh, Distinct, ClientCancel
  <2>2. ToSet(pending') = ToSet(pending) \ {i}
    BY <2>1, CancelPending
  <2>3. /\ i \in known /\ i \notin finished
        /\ result' = [result EXCEPT ![i] = "cancelled"]
        /\ UNCHANGED <<known, submitted, pc, job>>
    BY <1>2 DEF ClientCancel, Cancel, threadVars
  <2>4. i # j
    BY <2>3 DEF Settled, HeldJobsUnreported
  <2>5. result'[j] = result[j]
    BY <2>1, <2>3, <2>4 DEF QueueTypeOK
  <2> QED
    BY <2>2, <2>3, <2>5 DEF Settled, Holding
<1>3. CASE ClientClear
  <2>1. known' = {} /\ pending' = <<>> /\ UNCHANGED <<submitted, pc, job>>
    BY <1>3 DEF ClientClear, Clear, threadVars
  <2>2. ToSet(pending') = {}
    BY <2>1 DEF ToSet
  <2> QED
    BY <2>1, <2>2 DEF Settled, Holding
<1> QED
  BY <1>1, <1>2, <1>3

LEMMA NextSettled ==
    ASSUME IInv, [Next]_vars, NEW j \in Jobs, NEW o, Settled(j, o)
    PROVE  Settled(j, o)'
<1> USE DEF IInv
<1>1. ASSUME NEW t \in Threads, FetchJob(t) PROVE Settled(j, o)'
  <2>1. PICK i \in Jobs : Fetch(i) /\ job' = [job EXCEPT ![t] = i]
    BY <1>1 DEF FetchJob
  <2>2. QueueTypeOK /\ Distinct(pending)
    BY DEF TypeOK, PendingIsFresh, Distinct
  <2>3. i \in ToSet(pending) /\ ToSet(pending') = ToSet(pending) \ {i}
    BY <2>1, <2>2, FetchPending
  <2>4. /\ UNCHANGED <<known, result, submitted>>
        /\ pc' = [pc EXCEPT ![t] = "execute"]
    BY <1>1, <2>1 DEF FetchJob, Fetch
  <2>5. i # j
    BY <2>3 DEF Settled
  <2>6. \A u \in Threads : Holding(u)' /\ job'[u] = j => Holding(u) /\ job[u] = j
    BY <2>1, <2>4, <2>5 DEF Holding, TypeOK
  <2> QED
    BY <2>3, <2>4, <2>6 DEF Settled
<1>2. ASSUME NEW t \in Threads, Report(t) PROVE Settled(j, o)'
  <2>1. /\ Holding(t) /\ outcome[t] # None /\ outcome[t] \in Outcomes /\ job[t] \in Jobs
    BY <1>2 DEF Report, TypeOK, Holding
  <2>2. /\ known' = known /\ pending' = pending /\ submitted' = submitted
        /\ result' = IF job[t] \in known THEN [result EXCEPT ![job[t]] = outcome[t]] ELSE result
        /\ job' = [job EXCEPT ![t] = None]
        /\ \E p \in {"count", "check"} : pc' = [pc EXCEPT ![t] = p]
    BY <1>2 DEF Report, Complete
  <2>3. \A u \in Threads : Holding(u)' /\ job'[u] = j => Holding(u) /\ job[u] = j
    BY <2>2 DEF Holding, TypeOK
  <2>4. j \in known => result'[j] # None /\ o \in {result'[j], "cancelled"}
    <3>1. CASE job[t] = j
      <4>1. o = "cancelled"
        BY <2>1, <3>1 DEF Settled
      <4>2. j \in known => result'[j] = outcome[t]
        BY <2>2, <3>1 DEF TypeOK, QueueTypeOK
      <4> QED
        BY <2>1, <4>1, <4>2
    <3>2. CASE job[t] # j
      <4>1. result'[j] = result[j]
        BY <2>2, <3>2 DEF TypeOK, QueueTypeOK
      <4> QED
        BY <4>1 DEF Settled
    <3> QED
      BY <3>1, <3>2
  <2> QED
    BY <2>2, <2>3, <2>4 DEF Settled
<1>3. ASSUME UNCHANGED <<queueVars, job>>, \A t \in Threads : Holding(t)' <=> Holding(t)
      PROVE  Settled(j, o)'
  BY <1>3 DEF Settled, queueVars
<1>4. ASSUME NEW w \in Workers,
             Start(w) \/ Stop(w) \/ \E ty \in Types : RegisterHandler(w, ty)
      PROVE  UNCHANGED <<queueVars, job>> /\ \A t \in Threads : Holding(t)' <=> Holding(t)
  BY <1>4 DEF Start, Stop, RegisterHandler, Holding, TypeOK
<1>5. ASSUME NEW t \in Threads,
             CheckLoop(t) \/ FetchNothing(t) \/ NoHandler(t) \/ RunHandler(t) \/ CountUnhandled(t)
      PROVE  UNCHANGED <<queueVars, job>> /\ \A u \in Threads : Holding(u)' <=> Holding(u)
  BY <1>5 DEF CheckLoop, FetchNothing, NoHandler, RunHandler, CountUnhandled, Holding, TypeOK
<1>6. CASE UNCHANGED vars
  BY <1>3, <1>6 DEF vars, threadVars, Holding
<1> QED
  BY <1>1, <1>2, <1>3, <1>4, <1>5, <1>6, ClientSettled DEF Next, ThreadStep

\* Whatever run() does to the queue and its workers, another client and other
\* users of workers could do; and it reads an answer after it was given.
RunnerInv ==
    /\ IInv
    /\ seen \in [Batch -> Outcomes \union {None}]
    /\ \A j \in Batch : seen[j] # None => Settled(j, seen[j])
    /\ stage \in {"stop", "returned"} => Awaited = {}

LEMMA InitRunnerInv == RunnerInit => RunnerInv
BY InitIInv DEF RunnerInit, RunnerInv

LEMMA RunnerIsClient ==
    ASSUME [RunnerNext]_<<vars, runnerVars>>
    PROVE  [Next]_vars
<1> USE BenchAssumption
<1>1. ASSUME NEW j \in Batch, SubmitTask(j) \/ Poll(j) \/ PollRaises(j) PROVE [Next]_vars
  BY <1>1 DEF SubmitTask, Poll, PollRaises, Next, ClientSubmit
<1>2. ASSUME NEW w \in Bench, StartWorker(w) \/ StopWorker(w) PROVE [Next]_vars
  BY <1>2 DEF StartWorker, StopWorker, Next
<1>3. CASE Advance
  BY <1>3 DEF Advance
<1>4. CASE OthersStep
  BY <1>4 DEF OthersStep, Next
<1>5. ASSUME NEW t \in Threads, ThreadStep(t) PROVE [Next]_vars
  BY <1>5 DEF Next
<1> QED
  BY <1>1, <1>2, <1>3, <1>4, <1>5 DEF RunnerNext, RunnerStep

LEMMA NextRunnerInv ==
    ASSUME RunnerInv, [RunnerNext]_<<vars, runnerVars>>
    PROVE  RunnerInv'
<1> USE BenchAssumption DEF RunnerInv
<1>0. [Next]_vars
  BY RunnerIsClient
<1>1. IInv'
  BY <1>0, NextIInv
<1>2. ASSUME NEW j \in Batch, NEW o, seen[j] = o, o # None PROVE Settled(j, o)'
  <2>1. Settled(j, o)
    BY <1>2
  <2> QED
    BY <1>0, <2>1, NextSettled
<1>3. \/ seen' = seen /\ (stage' \in {"stop", "returned"} => stage \in {"stop", "returned"} \/ Awaited = {})
      \/ \E i \in Batch : Poll(i)
  BY DEF RunnerNext, RunnerStep, SubmitTask, PollRaises, StartWorker, StopWorker, Advance,
         OthersStep, runnerVars
<1>4. CASE seen' = seen /\ (stage' \in {"stop", "returned"} => stage \in {"stop", "returned"} \/ Awaited = {})
  <2>1. ASSUME NEW j \in Batch, seen'[j] # None PROVE Settled(j, seen[j])'
    <3>1. PICK o : o = seen[j]
      OBVIOUS
    <3>2. Settled(j, o)'
      BY <1>2, <1>4, <2>1, <3>1
    <3> QED
      BY <1>4, <3>1, <3>2 DEF Settled
  <2> QED
    BY <1>1, <1>4, <2>1 DEF Awaited
<1>5. ASSUME NEW i \in Batch, Poll(i) PROVE RunnerInv'
  <2>1. /\ stage = "poll" /\ stage' = stage /\ result[i] # None
        /\ seen' = [seen EXCEPT ![i] = result[i]]
        /\ UNCHANGED vars
    BY <1>5 DEF Poll
  <2>2. PICK r \in Outcomes : r = result[i]
    BY <2>1 DEF IInv, TypeOK, QueueTypeOK
  <2>3. Settled(i, r)
    BY <2>1, <2>2 DEF Settled, IInv, TypeOK, QueueTypeOK, HeldJobsUnreported, PendingIsFresh
  <2>4. Settled(i, r)'
    BY <1>0, <2>3, NextSettled
  <2>5. ASSUME NEW j \in Batch, seen'[j] # None PROVE Settled(j, seen[j])'
    <3>1. PICK o : o = seen'[j]
      OBVIOUS
    <3>2. Settled(j, o)'
      <4>1. CASE j = i
        BY <2>1, <2>2, <2>4, <3>1, <4>1
      <4>2. CASE j # i
        <5>1. seen[j] = o
          BY <2>1, <3>1, <4>2
        <5> QED
          BY <1>2, <2>5, <3>1, <5>1
      <4> QED
        BY <4>1, <4>2
    <3> QED
      BY <3>1, <3>2 DEF Settled
  <2> QED
    BY <1>1, <2>1, <2>2, <2>5
<1> QED
  BY <1>3, <1>4, <1>5

LEMMA SpecRunnerInv == RunnerSpec => []RunnerInv
<1>1. RunnerInit => RunnerInv
  BY InitRunnerInv
<1>2. RunnerInv /\ [RunnerNext]_<<vars, runnerVars>> => RunnerInv'
  BY NextRunnerInv
<1> QED
  BY <1>1, <1>2, PTL DEF RunnerSpec

\* The report of a batch rests on what the queue answers to the end, and leaves none of
\* its jobs behind but cancelled ones, whoever else uses the queue meanwhile.
THEOREM ReportsAreFinal == RunnerSpec => []ReportIsFinal
<1>1. RunnerInv => ReportIsFinal
  BY DEF RunnerInv, Settled, Awaited, ReportIsFinal
<1> QED
  BY <1>1, SpecRunnerInv, PTL
=============================================================================
