------------------------------- MODULE Worker -------------------------------
(***************************************************************************)
(* The workers of src/vsrs/distributed/worker.py over one InMemoryQueue.   *)
(* A worker starts a thread running _run_loop each time start() finds it   *)
(* not running; stop() only clears _running and waits at most five seconds *)
(* for the thread, so a thread may still run when the worker is started    *)
(* again.  Clients submit and cancel jobs and clear the queue meanwhile.   *)
(***************************************************************************)
EXTENDS InMemoryQueue

CONSTANTS
    Workers,       \* the Worker objects sharing the queue
    Threads,       \* bound: the threads start() may create altogether
    Types,         \* task types
    TypeOf,        \* a job's task_type
    MaxJobs        \* max_jobs of every worker, or None for unlimited

ASSUME TypeOfAssumption == TypeOf \in [Jobs -> Types]
ASSUME MaxJobsAssumption == MaxJobs \in Nat \union {None} /\ None \notin Nat
ASSUME WorkersAssumption == None \notin Workers
ASSUME ThreadsAssumption == IsFiniteSet(Threads)

VARIABLES
    running,       \* _running of each worker
    processed,     \* _jobs_processed of each worker
    handlers,      \* the task types each worker has a handler for
    pc,            \* where each thread is in _run_loop
    owner,         \* the worker a thread belongs to; None before it is created
    job,           \* the job a thread holds, or None
    outcome        \* the result a thread is about to report, or None

threadVars == <<running, processed, handlers, pc, owner, job, outcome>>
vars == <<queueVars, threadVars>>

\* "unborn": not created; "check": at the loop condition; "fetch": about to call
\* process_one; "execute": in _execute_job before the handler's outcome is known;
\* "report": about to call queue.complete; "count": a job without handler is
\* reported but not counted yet; "dead": left the loop.
PCs == {"unborn", "check", "fetch", "execute", "report", "count", "dead"}

Alive(t) == pc[t] \notin {"unborn", "dead"}

Holding(t) == pc[t] \in {"execute", "report"}

Init ==
    /\ QueueInit
    /\ running = [w \in Workers |-> FALSE]
    /\ processed = [w \in Workers |-> 0]
    /\ handlers \in [Workers -> SUBSET Types]
    /\ pc = [t \in Threads |-> "unborn"]
    /\ owner = [t \in Threads |-> None]
    /\ job = [t \in Threads |-> None]
    /\ outcome = [t \in Threads |-> None]

-----------------------------------------------------------------------------
(* Slips the properties must notice, named like those of InMemoryQueue.    *)

\* Testing max_jobs one job too late.
FaultyLimitReached(w) == MaxJobs # None /\ processed[w] > MaxJobs

\* Looking at max_jobs only, never at _running.
FaultyCheckLoop(t) ==
    /\ pc[t] = "check"
    /\ pc' = [pc EXCEPT ![t] =
                 IF MaxJobs # None /\ processed[owner[t]] >= MaxJobs THEN "dead" ELSE "fetch"]
    /\ UNCHANGED <<queueVars, running, processed, handlers, owner, job, outcome>>

\* Dropping the result of a worker that was told to stop.
FaultyReportDrops(t) ==
    /\ pc[t] = "report"
    /\ IF running[owner[t]] THEN Complete(job[t], outcome[t]) ELSE UNCHANGED queueVars
    /\ pc' = [pc EXCEPT ![t] = IF outcome[t] = "no_handler" THEN "count" ELSE "check"]
    /\ job' = [job EXCEPT ![t] = None]
    /\ outcome' = [outcome EXCEPT ![t] = None]
    /\ UNCHANGED <<running, processed, handlers, owner>>

\* Going round the loop with the reported job still in hand.
FaultyReportKeepsJob(t) ==
    /\ pc[t] = "report"
    /\ Complete(job[t], outcome[t])
    /\ pc' = [pc EXCEPT ![t] = IF outcome[t] = "no_handler" THEN "count" ELSE "check"]
    /\ outcome' = [outcome EXCEPT ![t] = None]
    /\ UNCHANGED <<running, processed, handlers, owner, job>>

-----------------------------------------------------------------------------
(* The callers of a worker.                                                *)

RegisterHandler(w, ty) ==
    /\ handlers' = [handlers EXCEPT ![w] = @ \union {ty}]
    /\ UNCHANGED <<queueVars, running, processed, pc, owner, job, outcome>>

\* start: returns at once when _running is set, else creates a thread.
Start(w) ==
    /\ ~running[w]
    /\ running' = [running EXCEPT ![w] = TRUE]
    /\ \E t \in Threads :
          /\ pc[t] = "unborn"
          /\ pc' = [pc EXCEPT ![t] = "check"]
          /\ owner' = [owner EXCEPT ![t] = w]
    /\ UNCHANGED <<queueVars, processed, handlers, job, outcome>>

\* stop: clear the flag; the join may return before the thread has left the loop.
Stop(w) ==
    /\ running' = [running EXCEPT ![w] = FALSE]
    /\ UNCHANGED <<queueVars, processed, handlers, pc, owner, job, outcome>>

-----------------------------------------------------------------------------
(* One thread in _run_loop.                                                *)

LimitReached(w) == MaxJobs # None /\ processed[w] >= MaxJobs

\* The loop condition and the max_jobs test.  Leaving the loop at the limit
\* does not clear _running.
CheckLoop(t) ==
    /\ pc[t] = "check"
    /\ pc' = [pc EXCEPT ![t] =
                 IF running[owner[t]] /\ ~LimitReached(owner[t])
                 THEN "fetch" ELSE "dead"]
    /\ UNCHANGED <<queueVars, running, processed, handlers, owner, job, outcome>>

\* process_one on an empty queue: sleep and go round the loop.
FetchNothing(t) ==
    /\ pc[t] = "fetch"
    /\ pending = <<>>
    /\ pc' = [pc EXCEPT ![t] = "check"]
    /\ UNCHANGED <<queueVars, running, processed, handlers, owner, job, outcome>>

FetchJob(t) ==
    /\ pc[t] = "fetch"
    /\ \E j \in Jobs :
          /\ Fetch(j)
          /\ job' = [job EXCEPT ![t] = j]
    /\ pc' = [pc EXCEPT ![t] = "execute"]
    /\ UNCHANGED <<running, processed, handlers, owner, outcome>>

\* No handler for the task type: the failure is reported first, counted later.
NoHandler(t) ==
    /\ pc[t] = "execute"
    /\ TypeOf[job[t]] \notin handlers[owner[t]]
    /\ outcome' = [outcome EXCEPT ![t] = "no_handler"]
    /\ pc' = [pc EXCEPT ![t] = "report"]
    /\ UNCHANGED <<queueVars, running, processed, handlers, owner, job>>

\* The handler returns or raises; the job is counted before it is reported.
RunHandler(t) ==
    /\ pc[t] = "execute"
    /\ TypeOf[job[t]] \in handlers[owner[t]]
    /\ \E o \in {"succeeded", "raised"} : outcome' = [outcome EXCEPT ![t] = o]
    /\ processed' = [processed EXCEPT ![owner[t]] = @ + 1]
    /\ pc' = [pc EXCEPT ![t] = "report"]
    /\ UNCHANGED <<queueVars, running, handlers, owner, job>>

Report(t) ==
    /\ pc[t] = "report"
    /\ Complete(job[t], outcome[t])
    /\ pc' = [pc EXCEPT ![t] = IF outcome[t] = "no_handler" THEN "count" ELSE "check"]
    /\ job' = [job EXCEPT ![t] = None]
    /\ outcome' = [outcome EXCEPT ![t] = None]
    /\ UNCHANGED <<running, processed, handlers, owner>>

CountUnhandled(t) ==
    /\ pc[t] = "count"
    /\ processed' = [processed EXCEPT ![owner[t]] = @ + 1]
    /\ pc' = [pc EXCEPT ![t] = "check"]
    /\ UNCHANGED <<queueVars, running, handlers, owner, job, outcome>>

ThreadStep(t) ==
    \/ CheckLoop(t)
    \/ FetchNothing(t)
    \/ FetchJob(t)
    \/ NoHandler(t)
    \/ RunHandler(t)
    \/ Report(t)
    \/ CountUnhandled(t)

-----------------------------------------------------------------------------
(* The clients of the queue.                                               *)

ClientSubmit(j) == Submit(j) /\ UNCHANGED threadVars

ClientCancel(j) == Cancel(j) /\ UNCHANGED threadVars

ClientClear == Clear /\ UNCHANGED threadVars

Next ==
    \/ \E j \in Jobs : ClientSubmit(j) \/ ClientCancel(j)
    \/ ClientClear
    \/ \E w \in Workers : Start(w) \/ Stop(w)
    \/ \E w \in Workers, ty \in Types : RegisterHandler(w, ty)
    \/ \E t \in Threads : ThreadStep(t)

Spec == Init /\ [][Next]_vars

\* The interpreter schedules every runnable thread, and handlers return: a
\* thread that can take a step eventually does.  Nothing is assumed of clients.
FairSpec == Spec /\ \A t \in Threads : WF_vars(ThreadStep(t))

-----------------------------------------------------------------------------
(* Properties.                                                             *)

\* Every variable has its type, and a thread has an owner from its creation on,
\* a job while it executes and reports, an outcome while it reports.
TypeOK ==
    /\ QueueTypeOK
    /\ running \in [Workers -> BOOLEAN]
    /\ processed \in [Workers -> Nat]
    /\ handlers \in [Workers -> SUBSET Types]
    /\ pc \in [Threads -> PCs]
    /\ owner \in [Threads -> Workers \union {None}]
    /\ job \in [Threads -> Jobs \union {None}]
    /\ outcome \in [Threads -> Outcomes \union {None}]
    /\ \A t \in Threads :
          /\ pc[t] # "unborn" => owner[t] # None
          /\ Holding(t) <=> job[t] # None
          /\ pc[t] = "report" <=> outcome[t] # None

\* A job is executed by at most one thread, even by two threads of one worker
\* that was stopped and started again, and a job in hand is not pending.
ExclusiveExecution ==
    /\ \A t, u \in Threads : Holding(t) /\ Holding(u) /\ job[t] = job[u] => t = u
    /\ \A t \in Threads : Holding(t) => job[t] \notin ToSet(pending)

\* _pending lists each job once, before any worker touched it: a pending job was
\* neither started nor completed and has no result.
PendingIsFresh ==
    /\ \A i, k \in 1..Len(pending) : pending[i] = pending[k] => i = k
    /\ \A j \in ToSet(pending) : j \notin started /\ j \notin finished /\ result[j] = None

\* A known job is never lost: it is pending, in the hands of a thread, or has a
\* result; whatever happens between fetch and complete.
NoJobLost ==
    \A j \in known :
        \/ j \in ToSet(pending)
        \/ \E t \in Threads : Holding(t) /\ job[t] = j
        \/ result[j] # None

\* Whoever still holds a job may report it: its identifier is in use, no result
\* but a cancellation was stored for it yet, and if the queue was not cleared
\* meanwhile its started_at is set.  completed_at and the result go together.
HeldJobsUnreported ==
    /\ known \subseteq ToSet(submitted)
    /\ \A j \in Jobs : j \in finished <=> result[j] # None
    /\ \A t \in Threads : Holding(t) =>
          /\ job[t] \in ToSet(submitted)
          /\ result[job[t]] \in {None, "cancelled"}
          /\ job[t] \in known => job[t] \in started

\* _pending is in service order, lower priority values first and jobs of equal
\* priority in the order they were submitted, so the next job fetched is the one
\* every other waiting job has to wait for.
Precedes(i, j) ==
    \/ Priority[i] < Priority[j]
    \/ /\ Priority[i] = Priority[j]
       /\ \E a, b \in 1..Len(submitted) : a < b /\ submitted[a] = i /\ submitted[b] = j

ServiceOrder ==
    \A i, k \in 1..Len(pending) : i < k => Precedes(pending[i], pending[k])

\* max_jobs with threads left over by a stop() whose join timed out: each such
\* thread passed the test of the limit on its own, so a worker overruns max_jobs
\* by at most one job for every thread but the last that was ever started for it.
ThreadsOf(w) == {t \in Threads : owner[t] = w}

BoundedOverrun ==
    MaxJobs # None =>
        \A w \in Workers :
            processed[w] > MaxJobs => processed[w] < MaxJobs + Cardinality(ThreadsOf(w))

\* A result reported by a worker is final: only clear() removes it, and no second
\* report, cancel or stale completion replaces it.
ResultIsFinal ==
    [][\A j \in Jobs :
          result[j] \notin {None, "cancelled"} => result'[j] \in {result[j], None}]_vars

\* The queue implements the life cycle TaskQueue promises: a status never moves
\* back, and get_result answers exactly for the completed jobs.
\* To its callers the queue with its workers is the abstract queue of TaskQueue.
Contract == INSTANCE TaskQueue WITH
    status <- [j \in Jobs |-> Status(j)],
    answered <- {j \in Jobs : result[j] # None}

\* Workers and queue keep the contract of a task queue: a job goes from unknown to
\* pending, running and completed, and answers are only given as it says.
ImplementsTaskQueue == Contract!Spec

\* A submitted job gets a result, unless the queue is cleared or no thread is
\* left to serve it.
SubmittedIsAnswered ==
    \A j \in Jobs :
        j \in known ~> \/ j \notin known
                        \/ result[j] # None
                        \/ \A t \in Threads : ~Alive(t)

\* stop() takes effect: the worker's threads leave their loop, or it is started
\* again first.
StopTakesEffect ==
    \A w \in Workers :
        ~running[w] ~> running[w] \/ \A t \in ThreadsOf(w) : ~Alive(t)
=============================================================================
