----------------------------- MODULE WorkerPool -----------------------------
(***************************************************************************)
(* The worker pool of src/vsrs/distributed/pool.py: a table of Worker      *)
(* objects under one reentrant lock, changed by its users, by the scaler   *)
(* and health threads and by the callers of process_job_on_worker, while   *)
(* the thread of every started worker serves the shared queue without      *)
(* telling the pool.  A body under the lock is one atomic step.            *)
(***************************************************************************)
EXTENDS Naturals, FiniteSets

CONSTANTS
    Jobs,          \* jobs submitted to the queue
    Callers,       \* threads calling process_job_on_worker
    Requests,      \* resource amounts a caller may ask for
    Capacity,      \* a worker's capacity; one dimension stands for the four
    CustomIds,     \* worker ids users choose; other workers get a fresh id
    Stoppers,      \* threads calling stop()
    Scalers,       \* bound: scaler threads start() may create
    Healths,       \* bound: health threads start() may create
    MaxObjs,       \* bound: Worker objects created
    MinWorkers, MaxWorkers, ScaleUp, ScaleDown,    \* PoolConfig
    Timeouts,      \* whether heartbeats may be late
    None           \* Python's None

ASSUME ConfigAssumption ==
    /\ MinWorkers \in Nat /\ MaxWorkers \in Nat /\ MinWorkers <= MaxWorkers
    /\ ScaleUp \in Nat /\ ScaleDown \in Nat
    /\ Capacity \in Nat /\ Requests \subseteq Nat
    /\ MaxObjs \in Nat /\ Timeouts \in BOOLEAN
    /\ IsFiniteSet(CustomIds)

Objs == 1..MaxObjs
Ids == Objs \union CustomIds        \* the n-th worker's generated id is n
Loops == Scalers \union Healths

ASSUME NamesAssumption ==
    /\ None \notin Ids /\ CustomIds \intersect Objs = {}
    /\ None \notin Callers /\ None \notin Jobs
    /\ Scalers \intersect Healths = {}

VARIABLES
    running,       \* _running
    stopping,      \* the threads inside stop() that have released the lock for its joins
    emptied,       \* history: a stop() took the table of the pool that is running
    created,       \* _worker_counter
    pool,          \* _workers: the object registered under an id, or None
    info,          \* the WorkerInfo of every object
    looping,       \* _running of the Worker behind an object
    wthread,       \* where the thread of that Worker is
    hand,          \* the queue job it holds, or None
    status,        \* the queue's answer to get_status, as in TaskQueue
    call,          \* the process_job_on_worker calls in progress
    loop,          \* where the scaler and health threads are
    userAdded,     \* history: add_worker calls by users since the last stop
    userRemoved    \* history: remove_worker calls by users since the last stop

vars == <<running, stopping, emptied, created, pool, info, looping, wthread, hand, status,
          call, loop, userAdded, userRemoved>>

Members == {pool[i] : i \in Ids} \ {None}
Size == Cardinality({i \in Ids : pool[i] # None})
Pending == {j \in Jobs : status[j] = "pending"}
Idle(o) == info[o].state = "idle"

\* A new WorkerInfo: idle, all of its capacity available, a fresh heartbeat.
NewInfo(id) ==
    [id |-> id, state |-> "idle", available |-> Capacity, job |-> None, late |-> FALSE]

NoCall == [obj |-> None, req |-> 0]

Init ==
    /\ running = FALSE
    /\ stopping = {}
    /\ emptied = FALSE
    /\ created = 0
    /\ pool = [i \in Ids |-> None]
    /\ info = [o \in Objs |-> NewInfo(o)]
    /\ looping = [o \in Objs |-> FALSE]
    /\ wthread = [o \in Objs |-> "none"]
    /\ hand = [o \in Objs |-> None]
    /\ status = [j \in Jobs |-> "unknown"]
    /\ call = [c \in Callers |-> NoCall]
    /\ loop = [l \in Loops |-> "unborn"]
    /\ userAdded = 0
    /\ userRemoved = 0

-----------------------------------------------------------------------------
(* Adding and removing workers.  An operator named Faulty... is the         *)
(* definition without the prefix, with one plausible slip a property must   *)
(* notice; no specification uses it.                                        *)

\* remove_worker on every member in gone, then n times add_worker with a
\* generated id.  Draining only passes through a state on the way to stopped.
\* A removed worker's thread is told to stop; an added one is not started.
Reshape(gone, n) ==
    /\ created + n <= MaxObjs
    /\ created' = created + n
    /\ pool' = [i \in Ids |-> IF i \in (created + 1)..(created + n) THEN i
                              ELSE IF pool[i] \in gone THEN None ELSE pool[i]]
    /\ info' = [o \in Objs |-> IF o \in gone
                               THEN [info[o] EXCEPT !.state = "stopped"] ELSE info[o]]

StopLooping(gone) == looping' = [o \in Objs |-> looping[o] /\ o \notin gone]

AddWorker ==
    /\ Reshape({}, 1)
    /\ userAdded' = userAdded + 1
    /\ UNCHANGED <<running, stopping, emptied, looping, wthread, hand, status, call, loop,
                   userRemoved>>

\* add_worker with an id of the user's: an object registered under it before is
\* replaced without being stopped.
AddNamedWorker(id) ==
    /\ created < MaxObjs
    /\ created' = created + 1
    /\ pool' = [pool EXCEPT ![id] = created + 1]
    /\ info' = [info EXCEPT ![created + 1] = NewInfo(id)]
    /\ userAdded' = userAdded + 1
    /\ UNCHANGED <<running, stopping, emptied, looping, wthread, hand, status, call, loop,
                   userRemoved>>

RemoveWorker(id) ==
    /\ pool[id] # None
    /\ Reshape({pool[id]}, 0)
    /\ StopLooping({pool[id]})
    /\ userRemoved' = userRemoved + 1
    /\ UNCHANGED <<running, stopping, emptied, wthread, hand, status, call, loop,
                   userAdded>>

-----------------------------------------------------------------------------
(* Jobs: the queue's workers, and callers reserving a worker themselves.   *)

\* A worker gets a state, resources and a job, and with them a fresh heartbeat.
Renew(o, state, available, job) ==
    [info EXCEPT ![o] = [id |-> info[o].id, state |-> state, available |-> available,
                         job |-> job, late |-> FALSE]]

SubmitJob(j) ==
    /\ status[j] = "unknown"
    /\ status' = [status EXCEPT ![j] = "pending"]
    /\ UNCHANGED <<running, stopping, emptied, created, pool, info, looping, wthread,
                   hand, call, loop, userAdded, userRemoved>>

\* process_job_on_worker up to the execution: an idle worker that fits is
\* reserved.  Any such worker may be the first one in the table.
Assign(c, req) ==
    /\ call[c] = NoCall
    /\ \E o \in Members :
          /\ Idle(o)
          /\ info[o].available >= req
          /\ info' = Renew(o, "busy", info[o].available - req, c)
          /\ call' = [call EXCEPT ![c] = [obj |-> o, req |-> req]]
    /\ UNCHANGED <<running, stopping, emptied, created, pool, looping, wthread, hand,
                   status, loop, userAdded, userRemoved>>

\* Freeing the worker without giving its resources back.
FaultyRelease(c) ==
    /\ call[c] # NoCall
    /\ LET o == pool[info[call[c].obj].id] IN
          info' = IF o = None THEN info
                  ELSE Renew(o, "idle", info[o].available, None)
    /\ call' = [call EXCEPT ![c] = NoCall]
    /\ UNCHANGED <<running, stopping, emptied, created, pool, looping, wthread, hand,
                   status, loop, userAdded, userRemoved>>

\* Freeing the worker only after an execution that did not raise.
FaultyReleaseOnSuccess(c) ==
    /\ call[c] # NoCall
    /\ LET o == pool[info[call[c].obj].id] IN
          \/ UNCHANGED info
          \/ info' = IF o = None THEN info
                     ELSE Renew(o, "idle", info[o].available + call[c].req, None)
    /\ call' = [call EXCEPT ![c] = NoCall]
    /\ UNCHANGED <<running, stopping, emptied, created, pool, looping, wthread, hand,
                   status, loop, userAdded, userRemoved>>

\* After the execution, also a failed one: release_worker looks the id up again.
Release(c) ==
    /\ call[c] # NoCall
    /\ LET o == pool[info[call[c].obj].id] IN
          info' = IF o = None THEN info
                  ELSE Renew(o, "idle", info[o].available + call[c].req, None)
    /\ call' = [call EXCEPT ![c] = NoCall]
    /\ UNCHANGED <<running, stopping, emptied, created, pool, looping, wthread, hand,
                   status, loop, userAdded, userRemoved>>

\* The loop of a started worker (module Worker has the details).
CheckRunning(o) ==
    /\ wthread[o] = "check"
    /\ wthread' = [wthread EXCEPT ![o] = IF looping[o] THEN "fetch" ELSE "dead"]
    /\ UNCHANGED <<hand, status>>

\* Reading the next job while leaving it pending.
FaultyFetchJob(o) ==
    /\ wthread[o] = "fetch"
    /\ UNCHANGED status
    /\ IF Pending = {}
       THEN wthread' = [wthread EXCEPT ![o] = "check"] /\ UNCHANGED hand
       ELSE \E j \in Pending :
            /\ wthread' = [wthread EXCEPT ![o] = "execute"]
            /\ hand' = [hand EXCEPT ![o] = j]

FetchJob(o) ==
    /\ wthread[o] = "fetch"
    /\ IF Pending = {}
       THEN /\ wthread' = [wthread EXCEPT ![o] = "check"]
            /\ UNCHANGED <<hand, status>>
       ELSE \E j \in Pending :
            /\ wthread' = [wthread EXCEPT ![o] = "execute"]
            /\ hand' = [hand EXCEPT ![o] = j]
            /\ status' = [status EXCEPT ![j] = "running"]

FinishJob(o) ==
    /\ wthread[o] = "execute"
    /\ wthread' = [wthread EXCEPT ![o] = "check"]
    /\ hand' = [hand EXCEPT ![o] = None]
    /\ status' = [status EXCEPT ![hand[o]] = "completed"]

WorkerStep(o) ==
    /\ CheckRunning(o) \/ FetchJob(o) \/ FinishJob(o)
    /\ UNCHANGED <<running, stopping, emptied, created, pool, info, looping, call, loop,
                   userAdded, userRemoved>>

-----------------------------------------------------------------------------
(* The scaler, the health check and heartbeats.                            *)

LoopCheck(l) ==
    /\ loop[l] = "check"
    /\ loop' = [loop EXCEPT ![l] = IF running THEN "act" ELSE "dead"]
    /\ UNCHANGED <<running, stopping, emptied, created, pool, info, looping, wthread,
                   hand, status, call, userAdded, userRemoved>>

\* _check_scaling adds a worker to a pool below its maximum when the queue is
\* long, else removes an idle one from a pool above its minimum when it is short.
ScalingUp == Cardinality(Pending) > ScaleUp /\ Size < MaxWorkers

\* Scaling down a pool that is at its minimum already.
FaultyScalingDown ==
    /\ ~ScalingUp
    /\ Cardinality(Pending) <= ScaleDown
    /\ Size >= MinWorkers
    /\ \E o \in Members : Idle(o)

ScalingDown ==
    /\ ~ScalingUp
    /\ Cardinality(Pending) <= ScaleDown
    /\ Size > MinWorkers
    /\ \E o \in Members : Idle(o)

CheckScaling ==
    \/ ScalingUp /\ Reshape({}, 1) /\ UNCHANGED looping
    \/ ScalingDown /\ \E o \in Members : Idle(o) /\ Reshape({o}, 0) /\ StopLooping({o})
    \/ ~ScalingUp /\ ~ScalingDown /\ UNCHANGED <<created, pool, info, looping>>

\* Replacing a worker without stopping the one it replaces.
FaultyCheckHealth ==
    LET late == {o \in Members : info[o].late} IN
    IF Size <= MaxWorkers
    THEN Reshape(late, Cardinality(late)) /\ UNCHANGED looping
    ELSE /\ info' = [o \in Objs |-> IF o \in late
                                    THEN [info[o] EXCEPT !.state = "unhealthy"] ELSE info[o]]
         /\ UNCHANGED <<created, pool, looping>>

\* _check_health replaces every member whose heartbeat is late, as long as the
\* table is not longer than max_workers, else it only marks them.
CheckHealth ==
    LET late == {o \in Members : info[o].late} IN
    IF Size <= MaxWorkers
    THEN Reshape(late, Cardinality(late)) /\ StopLooping(late)
    ELSE /\ info' = [o \in Objs |-> IF o \in late
                                    THEN [info[o] EXCEPT !.state = "unhealthy"] ELSE info[o]]
         /\ UNCHANGED <<created, pool, looping>>

LoopAct(l) ==
    /\ loop[l] = "act"
    /\ IF l \in Scalers THEN CheckScaling ELSE CheckHealth
    /\ loop' = [loop EXCEPT ![l] = "check"]
    /\ UNCHANGED <<running, stopping, emptied, wthread, hand, status, call, userAdded,
                   userRemoved>>

LoopStep(l) == LoopCheck(l) \/ LoopAct(l)

\* Taking every worker that answers again for an idle one.
FaultyHeartbeat(id) ==
    /\ pool[id] # None
    /\ LET w == info[pool[id]] IN
          info' = Renew(pool[id], IF w.state = "unhealthy" THEN "idle" ELSE w.state,
                        w.available, w.job)
    /\ UNCHANGED <<running, stopping, emptied, created, pool, looping, wthread, hand,
                   status, call, loop, userAdded, userRemoved>>

Heartbeat(id) ==
    /\ pool[id] # None
    /\ LET w == info[pool[id]] IN
          info' = Renew(pool[id], IF w.state # "unhealthy" THEN w.state
                                  ELSE IF w.job = None THEN "idle" ELSE "busy",
                        w.available, w.job)
    /\ UNCHANGED <<running, stopping, emptied, created, pool, looping, wthread, hand,
                   status, call, loop, userAdded, userRemoved>>

\* heartbeat_timeout seconds pass without a heartbeat, assignment or release.
Expire(o) ==
    /\ Timeouts
    /\ o \in Members
    /\ info' = [info EXCEPT ![o].late = TRUE]
    /\ UNCHANGED <<running, stopping, emptied, created, pool, looping, wthread, hand,
                   status, call, loop, userAdded, userRemoved>>

-----------------------------------------------------------------------------
(* start() and stop(), called by any threads.  stop() holds the lock twice, *)
(* not in between: a start() may fall into the gap, or another stop().      *)

\* start: fill up to min_workers, start every worker not running, and create
\* the scaler and health threads; threads of an earlier start may still sleep.  A
\* stop() about to join a thread that is assigned but not yet started raises.
Start ==
    /\ ~running
    /\ running' = TRUE
    /\ Reshape({}, IF Size < MinWorkers THEN MinWorkers - Size ELSE 0)
    /\ LET begun == {o \in Objs : ~looping[o] /\ \E i \in Ids : pool'[i] = o} IN
          /\ looping' = [o \in Objs |-> looping[o] \/ o \in begun]
          /\ wthread' = [o \in Objs |-> IF o \in begun THEN "check" ELSE wthread[o]]
    /\ \E s \in Scalers, h \in Healths :
          /\ loop[s] = "unborn" /\ loop[h] = "unborn"
          /\ loop' = [loop EXCEPT ![s] = "check", ![h] = "check"]
    /\ \E raised \in SUBSET stopping : stopping' = stopping \ raised
    /\ UNCHANGED <<emptied, hand, status, call, userAdded, userRemoved>>

\* stop clears the flag, waits at most five seconds for each of the two threads, ...
StopBegin(t) ==
    /\ t \notin stopping
    /\ stopping' = stopping \union {t}
    /\ running' = FALSE
    /\ emptied' = FALSE
    /\ UNCHANGED <<created, pool, info, looping, wthread, hand, status, call, loop,
                   userAdded, userRemoved>>

\* ... then stops every worker there is by now and empties the table.
StopFinish(t) ==
    /\ t \in stopping
    /\ stopping' = stopping \ {t}
    /\ emptied' = running
    /\ Reshape(Members, 0)
    /\ StopLooping(Members)
    /\ userAdded' = 0
    /\ userRemoved' = 0
    /\ UNCHANGED <<running, wthread, hand, status, call, loop>>

Next ==
    \/ AddWorker
    \/ \E id \in CustomIds : AddNamedWorker(id)
    \/ \E id \in Ids : RemoveWorker(id) \/ Heartbeat(id)
    \/ \E j \in Jobs : SubmitJob(j)
    \/ \E c \in Callers : Release(c) \/ \E req \in Requests : Assign(c, req)
    \/ \E o \in Objs : WorkerStep(o) \/ Expire(o)
    \/ \E l \in Loops : LoopStep(l)
    \/ Start
    \/ \E t \in Stoppers : StopBegin(t) \/ StopFinish(t)

Spec == Init /\ [][Next]_vars

\* Every thread of the interpreter is scheduled: the workers', the pool's two,
\* the callers' (handlers return) and those inside stop(), whose joins are timed.
FairSpec ==
    /\ Spec
    /\ \A o \in Objs : WF_vars(WorkerStep(o))
    /\ \A l \in Loops : WF_vars(LoopStep(l))
    /\ \A c \in Callers : WF_vars(Release(c))
    /\ \A t \in Stoppers : WF_vars(StopFinish(t))

-----------------------------------------------------------------------------
(* Properties.                                                             *)

\* Every variable has its type.
TypeOK ==
    /\ running \in BOOLEAN
    /\ stopping \subseteq Stoppers
    /\ emptied \in BOOLEAN /\ (emptied => running)
    /\ created \in 0..MaxObjs
    /\ pool \in [Ids -> Objs \union {None}]
    /\ info \in [Objs -> [id : Ids, state : {"idle", "busy", "unhealthy", "stopped"},
                          available : Nat, job : Callers \union {None}, late : BOOLEAN]]
    /\ looping \in [Objs -> BOOLEAN]
    /\ wthread \in [Objs -> {"none", "check", "fetch", "execute", "dead"}]
    /\ hand \in [Objs -> Jobs \union {None}]
    /\ status \in [Jobs -> {"unknown", "pending", "running", "completed"}]
    /\ call \in [Callers -> [obj : Objs \union {None}, req : Requests \union {0}]]
    /\ loop \in [Loops -> {"unborn", "check", "act", "dead"}]
    /\ userAdded \in Nat /\ userRemoved \in Nat
    /\ \A o \in Objs : wthread[o] = "execute" <=> hand[o] # None

CallsOn(o) == {c \in Callers : call[c].obj = o}

\* A worker in the pool serves at most one caller, the one it records, and only
\* a worker nobody holds is offered as idle; through replacements, late
\* heartbeats and removals in the middle of a call.
ExclusiveAssignment ==
    \A o \in Members :
        /\ \A c \in Callers : call[c].obj = o <=> info[o].job = c
        /\ Idle(o) => CallsOn(o) = {}

\* A worker's available resources are its capacity less what its caller holds:
\* nothing leaks and nothing is given back twice.
ResourcesConserved ==
    \A o \in Members :
        info[o].available = IF info[o].job = None THEN Capacity
                            ELSE Capacity - call[info[o].job].req

\* A worker that left the table, by any route, has been told to stop: no thread
\* serves the queue behind the pool's back.
NoOrphanWorker == \A o \in Objs : looping[o] => o \in Members

\* The scaler and the health check, also those left over from an earlier start,
\* keep a running pool between min_workers and max_workers, up to what users
\* added and removed by hand, and unless a stop() that began before the start
\* takes the table away from it (see MinWorkersMaintained).
PoolWithinBounds ==
    /\ Size <= MaxWorkers + userAdded
    /\ running /\ ~emptied => Size + userRemoved >= MinWorkers

\* What PoolConfig promises of a pool that is "Thread-safe: all operations protected by
\* a lock" (pool.py:212): min_workers is the "Minimum number of workers to maintain"
\* (pool.py:172), less those a user removed.  The second half of an overtaken stop()
\* breaks it.
MinWorkersMaintained == running => Size + userRemoved >= MinWorkers

\* A queue job is in the hands of exactly one worker thread while it runs.
RunningJobHeldOnce ==
    \A j \in Jobs : status[j] = "running" <=> Cardinality({o \in Objs : hand[o] = j}) = 1

\* A reserved worker becomes free again, or is no longer in the pool.
WorkerIsFreed ==
    \A o \in Objs :
        (o \in Members /\ info[o].job # None) ~> (o \notin Members \/ info[o].job = None)

\* A running pool left to itself, and not emptied by an overtaken stop(), takes every
\* submitted job: min_workers of its workers are maintained for that ("The pool
\* maintains min_workers and scales up to max_workers", docs/user-guide.md).
QueueServed ==
    \A j \in Jobs :
        status[j] = "pending" ~> \/ status[j] # "pending"
                                 \/ ~running \/ emptied
                                 \/ userAdded # 0 \/ userRemoved # 0
=============================================================================
