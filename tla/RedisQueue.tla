----------------------------- MODULE RedisQueue -----------------------------
(***************************************************************************)
(* RedisQueue of src/vsrs/distributed/redis_queue.py, shared by worker     *)
(* threads and clients without a lock.  A Redis command is atomic, a       *)
(* method is a sequence of commands on copies of what it read, and between *)
(* any two of them the process may die or the connection fail.  Operators  *)
(* named Faulty... carry one plausible slip each, for the properties to    *)
(* notice; no specification uses them.                                     *)
(***************************************************************************)
EXTENDS Naturals, Sequences, SequencesExt

CONSTANTS
    Jobs,        \* the identifiers submitted, each once
    Workers,     \* threads in Worker._run_loop
    Clients,     \* threads submitting and cancelling jobs
    None         \* Python's None

ASSUME NamesAssumption ==
    /\ Workers \intersect Clients = {}
    /\ None \notin Jobs
    /\ \A marks \in SUBSET {"started", "completed"} : None # marks

Procs == Workers \union Clients

VARIABLES
    data,        \* jobs_key: the marks of a stored job, or None
    results,     \* results_key: whose answer a job has, or None
    queue,       \* queue_key, the next job to be popped first
    running,     \* _running of each worker
    pc,          \* the next command of each process
    job,         \* the job a method works on, or None
    copy,        \* the copy of its record a method has, or None
    submitted,   \* history: the jobs whose submission began
    broken,      \* history: jobs whose method was cut short by a failure
    cleared      \* history: whether clear was called

shared == <<data, results, queue>>
local == <<pc, job, copy>>
history == <<submitted, broken, cleared>>
vars == <<shared, running, local, history>>

\* The marks started_at and completed_at.
Marks == {"started", "completed"}

Init ==
    /\ data = [j \in Jobs |-> None]
    /\ results = [j \in Jobs |-> None]
    /\ queue = <<>>
    /\ running = [w \in Workers |-> TRUE]
    /\ pc = [p \in Procs |-> IF p \in Workers THEN "check" ELSE "idle"]
    /\ job = [p \in Procs |-> None]
    /\ copy = [p \in Procs |-> None]
    /\ submitted = {}
    /\ broken = {}
    /\ cleared = FALSE

\* Process p goes on to its next command, or returns with nothing in hand.
GoTo(p, place) == pc' = [pc EXCEPT ![p] = place]

Return(p) ==
    /\ GoTo(p, IF p \in Workers THEN "check" ELSE "idle")
    /\ job' = [job EXCEPT ![p] = None]
    /\ copy' = [copy EXCEPT ![p] = None]

Queued(j) == \E i \in 1..Len(queue) : queue[i] = j

\* HSET jobs_key of the copy process p has.
Store(p) == data' = [data EXCEPT ![job[p]] = copy[p]]

Answer(p, who) == results' = [results EXCEPT ![job[p]] = who]

\* HGET jobs_key: process p reads job j and marks its copy.
Load(p, j, mark, place) ==
    /\ GoTo(p, place)
    /\ job' = [job EXCEPT ![p] = j]
    /\ copy' = [copy EXCEPT ![p] = data[j] \union {mark}]

-----------------------------------------------------------------------------
(* A client submits, cancels and clears.                                   *)

\* submit stores the job before its identifier is in the queue, ...
SubmitStore(c, j) ==
    /\ pc[c] = "idle"
    /\ j \notin submitted
    /\ submitted' = submitted \union {j}
    /\ data' = [data EXCEPT ![j] = {}]
    /\ job' = [job EXCEPT ![c] = j]
    /\ GoTo(c, "push")
    /\ UNCHANGED <<results, queue, running, copy, broken, cleared>>

\* ... where LPUSH puts it behind every other: priorities are not looked at.
SubmitPush(c) ==
    /\ pc[c] = "push"
    /\ queue' = Append(queue, job[c])
    /\ Return(c)
    /\ UNCHANGED <<data, results, running, history>>

\* cancel of a stored and unfinished job; any other cancel returns False.
CancelLoad(c, j) ==
    /\ pc[c] = "idle"
    /\ data[j] # None
    /\ "completed" \notin data[j]
    /\ Load(c, j, "completed", "cancel_store")
    /\ UNCHANGED <<shared, running, history>>

\* Answering for a job without storing it as completed.
FaultyCancelStore(c) ==
    /\ pc[c] = "cancel_store"
    /\ GoTo(c, "cancel_answer")
    /\ UNCHANGED <<shared, running, job, copy, history>>

CancelStore(c) ==
    /\ pc[c] = "cancel_store"
    /\ Store(c)
    /\ GoTo(c, "cancel_answer")
    /\ UNCHANGED <<results, queue, running, job, copy, history>>

CancelAnswer(c) ==
    /\ pc[c] = "cancel_answer"
    /\ Answer(c, "cancel")
    /\ GoTo(c, "remove")
    /\ UNCHANGED <<data, queue, running, job, copy, history>>

\* LREM: an identifier is pushed once, so there is at most one to remove.
CancelRemove(c) ==
    /\ pc[c] = "remove"
    /\ queue' = IF Queued(job[c])
                THEN RemoveAt(queue, CHOOSE i \in 1..Len(queue) : queue[i] = job[c])
                ELSE queue
    /\ Return(c)
    /\ UNCHANGED <<data, results, running, history>>

\* clear: one DEL of the three keys.
Clear ==
    /\ data' = [j \in Jobs |-> None]
    /\ results' = [j \in Jobs |-> None]
    /\ queue' = <<>>
    /\ cleared' = TRUE
    /\ UNCHANGED <<running, local, submitted, broken>>

-----------------------------------------------------------------------------
(* A worker: fetch, the handler, complete.                                 *)

\* stop: the caller waits five seconds for the thread, then no longer.
Stop(w) ==
    /\ running' = [running EXCEPT ![w] = FALSE]
    /\ UNCHANGED <<shared, local, history>>

CheckLoop(w) ==
    /\ pc[w] = "check"
    /\ GoTo(w, IF running[w] THEN "pop" ELSE "dead")
    /\ UNCHANGED <<shared, running, job, copy, history>>

\* Reading the end of the list without removing it.
FaultyPop(w) ==
    /\ pc[w] = "pop"
    /\ queue # <<>>
    /\ job' = [job EXCEPT ![w] = Head(queue)]
    /\ GoTo(w, "read")
    /\ UNCHANGED <<shared, running, copy, history>>

\* BRPOP with timeout 0 waits until there is a job.
Pop(w) ==
    /\ pc[w] = "pop"
    /\ queue # <<>>
    /\ job' = [job EXCEPT ![w] = Head(queue)]
    /\ queue' = Tail(queue)
    /\ GoTo(w, "read")
    /\ UNCHANGED <<data, results, running, copy, history>>

\* fetch and complete read the record again, and return when there is none.
Read(w, mark, from, to) ==
    /\ pc[w] = from
    /\ IF data[job[w]] = None THEN Return(w) ELSE Load(w, job[w], mark, to)
    /\ UNCHANGED <<shared, running, history>>

\* Not starting a job when the worker was stopped while it waited.
FaultyFetchRead(w) == IF running[w] THEN Read(w, "started", "read", "mark")
                      ELSE pc[w] = "read" /\ Return(w) /\ UNCHANGED <<shared, running, history>>

FetchRead(w) == Read(w, "started", "read", "mark")

FetchStore(w) ==
    /\ pc[w] = "mark"
    /\ Store(w)
    /\ GoTo(w, "execute")
    /\ UNCHANGED <<results, queue, running, job, copy, history>>

\* The handler returns or raises.
Execute(w) ==
    /\ pc[w] = "execute"
    /\ GoTo(w, "load")
    /\ UNCHANGED <<shared, running, job, copy, history>>

CompleteRead(w) == Read(w, "completed", "load", "store")

\* Returning when the record is stored.
FaultyCompleteStore(w) ==
    /\ pc[w] = "store"
    /\ Store(w)
    /\ Return(w)
    /\ UNCHANGED <<results, queue, running, history>>

CompleteStore(w) ==
    /\ pc[w] = "store"
    /\ Store(w)
    /\ GoTo(w, "answer")
    /\ UNCHANGED <<results, queue, running, job, copy, history>>

CompleteAnswer(w) ==
    /\ pc[w] = "answer"
    /\ Answer(w, "worker")
    /\ Return(w)
    /\ UNCHANGED <<data, queue, running, history>>

-----------------------------------------------------------------------------
(* Failures.                                                               *)

\* complete returns silently when the ping before it fails.
CompleteUnavailable(w) ==
    /\ pc[w] = "load"
    /\ broken' = broken \union {job[w]}
    /\ Return(w)
    /\ UNCHANGED <<shared, running, submitted, cleared>>

\* The process dies in the middle of a method, or the connection does and the
\* command raises: out of the worker's loop, or out of the client's call.
Fail(p) ==
    /\ pc[p] \notin {"idle", "dead"}
    /\ broken' = IF job[p] = None THEN broken ELSE broken \union {job[p]}
    /\ GoTo(p, IF p \in Workers THEN "dead" ELSE "idle")
    /\ job' = [job EXCEPT ![p] = None]
    /\ copy' = [copy EXCEPT ![p] = None]
    /\ UNCHANGED <<shared, running, submitted, cleared>>

ClientStep(c) == SubmitPush(c) \/ CancelStore(c) \/ CancelAnswer(c) \/ CancelRemove(c)

WorkerStep(w) ==
    \/ CheckLoop(w) \/ Pop(w) \/ FetchRead(w) \/ FetchStore(w)
    \/ Execute(w) \/ CompleteRead(w) \/ CompleteStore(w) \/ CompleteAnswer(w)

Next ==
    \/ \E c \in Clients :
          ClientStep(c) \/ \E j \in Jobs : SubmitStore(c, j) \/ CancelLoad(c, j)
    \/ Clear
    \/ \E w \in Workers : WorkerStep(w) \/ Stop(w) \/ CompleteUnavailable(w)
    \/ \E p \in Procs : Fail(p)

\* Threads are scheduled, handlers return and Redis answers, unless they fail.
Spec ==
    /\ Init /\ [][Next]_vars
    /\ \A w \in Workers : WF_vars(WorkerStep(w))
    /\ \A c \in Clients : WF_vars(ClientStep(c))

-----------------------------------------------------------------------------
(* Properties.                                                             *)

WorkerPlaces == {"check", "pop", "read", "mark", "execute", "load", "store", "answer", "dead"}
ClientPlaces == {"idle", "push", "cancel_store", "cancel_answer", "remove"}

\* Every variable has its type, and a worker between fetch and complete has a job.
TypeOK ==
    /\ data \in [Jobs -> {None} \union (SUBSET Marks)]
    /\ results \in [Jobs -> {"worker", "cancel", None}]
    /\ queue \in Seq(Jobs)
    /\ running \in [Workers -> BOOLEAN]
    /\ pc \in [Procs -> WorkerPlaces \union ClientPlaces]
    /\ \A w \in Workers : pc[w] \in WorkerPlaces
    /\ \A c \in Clients : pc[c] \in ClientPlaces
    /\ job \in [Procs -> Jobs \union {None}]
    /\ copy \in [Procs -> {None} \union (SUBSET Marks)]
    /\ submitted \subseteq Jobs /\ broken \subseteq Jobs /\ cleared \in BOOLEAN
    /\ \A p \in Procs : job[p] = None <=> pc[p] \in {"idle", "check", "pop", "dead"}

Held(j) == \E w \in Workers : job[w] = j

\* The processes that have a job's turn: its worker, and who is about to queue it.
Carries(p) == IF p \in Workers THEN job[p] # None ELSE pc[p] = "push"

\* A job is at one place: once in the queue, or in the hands of one process on its
\* way to it or from it; whatever cancels, clears and failures happen between two
\* commands.
OneHolder ==
    /\ \A i, k \in 1..Len(queue) : queue[i] = queue[k] => i = k
    /\ \A p \in Procs : Carries(p) => ~Queued(job[p])
    /\ \A p, q \in Procs : Carries(p) /\ Carries(q) /\ job[p] = job[q] => p = q

Unfinished(j) == data[j] # None /\ "completed" \notin data[j]

\* A stored unfinished job is on its way into the queue, in it, or with a worker:
\* commands of different processes never drop one between them, only a failure in
\* the middle of a method on that job does.
NoJobLost ==
    \A j \in Jobs :
        Unfinished(j) =>
            \/ Queued(j) \/ j \in broken
            \/ \E p \in Procs : Carries(p) /\ job[p] = j

\* get_status and get_result contradict each other (an answer for a job that is
\* stored as unfinished) only while a worker has the job: a fetch that overtook a
\* cancel has overwritten it and will complete it again.
ContradictionIsTransient ==
    \A j \in Jobs : Unfinished(j) /\ results[j] # None => Held(j) \/ j \in broken

\* A queued job is answered, unless a failure or a clear comes between or no worker
\* is left.
QueuedIsAnswered ==
    \A j \in Jobs :
        Queued(j) ~> \/ results[j] # None
                     \/ j \in broken \/ cleared
                     \/ \A w \in Workers : pc[w] = "dead"

\* "Signal the worker to stop after current job" (worker.py), with a fetch that
\* answers "None if queue is empty" (base.py): a stopped worker leaves its loop.
StopTakesEffect == \A w \in Workers : ~running[w] ~> pc[w] = "dead"
=============================================================================
