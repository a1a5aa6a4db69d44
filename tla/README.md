# A TLA+ model of VSRS

VSRS takes a task ("fix this bug"), retrieves evidence from a repository, lets a
reasoner propose a patch, verifies it in a sandbox, repairs it, reviews it and
stores the outcome. Around this pipeline the code has a task queue with workers
and a worker pool, a REST API with WebSocket progress, and enterprise, plugin,
fine-tuning and cost-tracking services.

This directory holds TLA+ modules of the parts whose correctness depends on the
order of steps, TLC configurations that check them on small instances, and TLAPS
proofs of what matters most for every instance. All paths below are relative to
`src/vsrs/` unless they name a doc.

## 1. Inventory

| component | state | operations | what is hard | what makes it correct |
|---|---|---|---|---|
| task queue contract `distributed/base.py` | a job's status and result | submit, fetch, complete, cancel, clear | it is only a contract: five calls by unrelated threads | a job's life is pending, running, completed, in this order |
| in-memory queue `distributed/memory.py` | jobs, results, pending list | the same, under one lock | cancels and completions in any order, sorting on submit | no job lost, none given out twice, order kept, results final |
| worker `distributed/worker.py` | running flag, counter, thread | start, stop, the thread's loop | `stop` gives up after 5 s; a second thread of the same worker | no job executed twice, `max_jobs` overrun bounded |
| worker pool `distributed/pool.py` | table of workers, their resources | add, remove, assign, release, scale, health check, heartbeat, start, stop | six kinds of thread, long calls outside the lock | exclusive assignment, resources conserved, bounds kept, queue served |
| benchmark runner `distributed/benchmark.py` | the jobs it waits for, its workers | run | no timeout, a queue others use too | the report rests on final answers; it ends |
| Redis queue `distributed/redis_queue.py` | jobs, results and a list in Redis | the same, several commands each | no lock, stale copies written back, failures between commands | one holder per job, only failures lose jobs, status and answer agree |
| task state machine `core/state.py` | the state of a run | transition | the orchestrator also writes the state itself | the table is followed |
| orchestrator `orchestrator.py` | run, report, patch, decision | seven stages | exceptions in every stage, several runs on one repository | outcome rests on the right report, isolation, settled rows |
| repair loop `repair/loop.py` | attempts | run | limits, attempts that raise | bounded, verifies what it proposes |
| sandbox `verify/sandbox.py` | worktrees, branches | create, cleanup, run a command | leftovers of earlier runs, two runs of a task, commands that hang | a run's worktree is its own; a hang is no pass |
| store `core/store.py` | ten SQLite tables | save, get, delete | a commit per save, a transaction that fails, several processes | references resolve; a run shown as finished is shown whole |
| WebSocket manager `api/websocket.py` | subscribers, history | connect, disconnect, broadcast, clear | awaits inside every operation | no subscriber misses an event |
| tenants `enterprise/tenant.py` | tenants, projects, usage records | create, delete, suspend, quota checks and records | two tables per object, a check apart from its record, a new day | books agree with the runs; a project has one owner |
| rate limiter `enterprise/ratelimit.py` | a bucket and two windows per key | check, reset, usage | concurrent requests of one key, virtual time | the limits hold |
| API keys and audit log `enterprise/auth.py`, `audit.py`, `api/auth.py` | keys, a bounded list of events | validate, create, revoke; log | append and trim in several threads | the log is an unbroken end of what was logged |
| single sign-on `enterprise/sso.py` | users, sessions in two tables | login, lookup, refresh, logout, cleanup | two tables changed one after the other, an iteration during changes | a session is found until there is a reason, and is its owner's |
| fine-tuning `finetuning/jobs.py`, `versioning.py` | jobs; a registry and files of versions | execute, cancel; create, compare, clear | two executions, a cancel during one, two managers on one directory | a status is backed by an execution, a version describes its file |
| gates and adapters `core/policy.py`, `verify/*.py`, `languages/*.py` | a registry of languages | select, run, evaluate | a tool that is missing or hangs, several languages | a verdict follows from how the tools ended |
| review `reasoning/critic.py`, categories and proposals `repair/` | none | review, categorize, propose | many findings, one decision | verified is earned |
| provenance `provenance/` | edges | link, trace, path, summary | cycles, depth limits, edges stored while a query runs | queries are exact |
| evaluation and training data `eval/`, `training/`, `finetuning/comparison.py` | none | score, report, compare, filter, build, split | empty, failing and duplicate inputs | counts add up; data is what it is labelled |

What the project leaves out (roles, plugins, the LLM client, repository
indexing, reasoning over text, configuration, user interfaces) is in section 8.

How they interact: the API or the CLI creates a run's row and calls
`Orchestrator.run` in its own thread; the stages call the sandbox, the runner,
the repair loop and the review, and write to the store as they go. Independently
of the pipeline, clients submit jobs to a `TaskQueue`; the threads of `Worker`
objects take them from it; a `WorkerPool` owns such workers, and also hands them
jobs directly in its callers' threads. API requests pass `require_api_key` (key,
rate limit, audit log) before their handler changes tenants, projects, keys or
limits. The enterprise and fine-tuning managers are objects in memory: the handlers
of one server share them, while each command of the CLI makes its own. Part of their
methods (`check_run_allowed`, `record_run_start`, `refresh_session`, the logins, the
fine-tuning classes) is called by nothing in `src/`: the modules take their callers
to be threads of a program that embeds VSRS.

## 2. Modules

| module | models | composed of |
|---|---|---|
| `TaskQueue` | the contract of a queue: one status per job | - |
| `InMemoryQueue` | `InMemoryQueue`, one action per method | - |
| `Worker` | workers and their threads over one in-memory queue, with clients | extends `InMemoryQueue`; implements `TaskQueue` |
| `BenchmarkRunner` | one `run()` of the distributed benchmark runner, among other clients and workers | extends `Worker` |
| `RedisQueue` | `RedisQueue`, one action per command, with workers and clients | - |
| `WorkerPool` | the pool, its scaler and health threads, its callers, and the threads of its workers in short | - |
| `TaskLifecycle` | the transition table of `core/state.py` | - |
| `Pipeline` | the orchestrator with repair loop, sandbox, review and the rows it stores | instantiates `TaskLifecycle` and implements it until a run fails |
| `RunStore` | the store's tables, the saves of a run one by one, what the API shows of it, `delete_run` | extends `ProvenanceGraph` |
| `Tenants` | `TenantManager` under the threads of the API | - |
| `RateLimiter`, `ApiGate` | the limiter; the way of a request through key, limiter and audit log | `ApiGate` extends `RateLimiter` |
| `SingleSignOn` | users and sessions | - |
| `WebSockets` | the subscribers of a run | - |
| `FineTuning` | jobs and dataset versions | - |
| `Verification`, `Languages` | gates, tools and reports; several languages | `Languages` extends `Verification` |
| `Review` | failure categories, repair proposals, critic, decision | - |
| `Verdicts` | verification, review and repair proposal of one change, or verification in several languages, as a state machine of one step | extends `Review`, `Languages` |
| `ProvenanceGraph` | the graph of a run | - |
| `Provenance` | the traversals of the graph, one turn of their loop at a time, while edges are stored | extends `ProvenanceGraph` |
| `Evaluation`, `Training` | scores, reports, comparisons; filters and datasets | extend `Selection`, what is kept of a list |
| `Decisions` | `Verdicts` and the other computations above, in the same form | extends `Verdicts`, `Evaluation`, `Training` |
| `ListLemmas` | facts about inserting into, removing and selecting from a sequence; induction over numbers and finite sets; sums | extends `Selection` and TLAPS |
| `WorkerProofs`, `RedisProofs`, `WorkerPoolProofs`, `PipelineProofs` | theorems; `WorkerProofs` also about `BenchmarkRunner` | extend the module they name and TLAPS, the first two `ListLemmas` |
| `ServiceProofs` | theorems about `Tenants`, `SingleSignOn`, `ApiGate` with `RateLimiter`, `WebSockets` | extends them and TLAPS |
| `StoreProofs` | theorems about `RunStore`, `FineTuning`, `Provenance` | extends them and `ListLemmas` |
| `DecisionProofs` | the theorems about `Decisions`, with `Verdicts` | extends it and `ListLemmas` |
| `MCWorker`, `MCBenchmark`, `MCRedisQueue`, `MCWorkerPool`, `MCPipeline`, `MCServices` | small instances for TLC | extend the modules they name, `MCServices` also `MCDecisions` |
| `MCDecisions` | the inputs `MCServices` gives to `Decisions` | extends `Decisions` |

Operators whose name starts with `Faulty` are a definition of the same name with
one plausible slip (a dropped guard, a missing reset). No specification uses
them; they document which mistake each property notices.

### 2.1 TaskQueue, InMemoryQueue, Worker

`pending` is `_pending`, a sequence of job names; `known` the keys of `_jobs`;
`started` and `finished` the jobs with `started_at` and `completed_at`; `result`
is `_results` with the outcome abstracted to a small set. `submitted` is history:
the identifiers in submission order. `_pending.sort` with the appended
job is the insertion at the one position a stable sort gives it. Every method
holds the queue's lock, so each is one action. Identifiers are drawn fresh by
both callers in the repository (`uuid4`), so a job is submitted once.

A thread's `pc` follows `_run_loop`: `check` (the loop condition and `max_jobs`),
`fetch`, `execute` (inside the handler), `report` (about to call
`queue.complete`), `count`. `start` creates a thread when `_running` is false;
`stop` clears the flag and may return before the thread has left its loop, which
is why one worker can have several threads. Clients submit, cancel and clear
concurrently, at every point.

`TaskQueue` says what `TaskQueue` and `JobStatus` promise to callers: a job goes
unknown, pending, running, completed; a running or pending one may be cancelled;
clear forgets. `ImplementsTaskQueue` says that workers and queue refine it with
`status` mapped from `Status` and `answered` from `result`; it is checked and proved.

`BenchmarkRunner` is a client that lives long: `stage` is the loop of `run()` it is in, or
how it ended, and `seen` the answers it has read. Its steps are calls of the queue and of
`start` and `stop`. A round in which nothing is answered, and the sleep after it, change
nothing; `PollRaises` is a result `ScoreResult.from_dict` cannot read. `OthersStep` is
everybody else who has the queue: they submit, cancel, clear, and run workers with
other handlers, which take jobs of the batch too. What the report makes of the scores
is in `Evaluation`.

### 2.2 RedisQueue

A Redis command is one action; a method is a chain of them, `pc` naming the next
command and `copy` the record a method read and will write back whole. A record
is the set of its marks `started` and `completed`; JSON and the other fields
carry over unchanged. Identifiers are pushed at one end and popped at the other, so
`queue` is first come first served whatever the priorities. `Pop` is BRPOP with
timeout 0: it waits. `Fail` is a process that dies, or a connection that makes a
command raise, anywhere inside a method (a worker's thread ends, since nothing
catches it); `CompleteUnavailable` is the silent return of `complete` when the ping
fails. `fetch` and `cancel` with Redis unavailable change nothing and are left
out. `broken` and `cleared` are history: they say what a failure or a `clear` is
to blame for. LREM removes every occurrence of an identifier; since each is pushed
once, `CancelRemove` removes the one there is. The safety properties
are proved for any number of jobs (section 5); the run has one job and the processes
contending for it.

### 2.3 WorkerPool

A worker is an object number; `pool` maps identifiers to objects, `info` holds the
`WorkerInfo` of each, `looping` its `_running`, `wthread` and `hand` its thread.
Everything between `with self._lock` and its end is one action; what runs outside
the lock (`_execute_job` in a caller, a worker's own loop, sleeping threads)
is cut at the lock. `call` records the callers inside `process_job_on_worker`:
`Assign` reserves, `Release` looks the worker up again by identifier. Resources
have one dimension, because the four are treated alike and independently. A
heartbeat is `late` or not; `Expire` makes it late at any time. `Reshape` is what
removal, scaling, replacement and `stop` have in common: some workers go, some
are added. `userAdded` and `userRemoved` are history for one property.
`start` looks at `_running` only, and `stop` holds the lock twice: `StopBegin` clears
`_running`, and `StopFinish`, after the joins, stops and removes whatever is in the table
then. `stopping` holds the threads in between, where another `start`, `stop` or
`add_worker` may come. `emptied` is history: such a late `StopFinish` took the table of a
pool that runs. `_pending_resources` is never read and left out, as are the success counters.

### 2.4 TaskLifecycle, Pipeline

`run[r]` is what one call of `Orchestrator.run` knows: its place in the code
(`pc`), the state of its `TaskStateMachine` (`sm`) and of its `TaskRun` (`state`),
the patch, where it works, the report under review, the last report, the number
of attempts. Shared are the repository's working tree, the worktrees and branches
of tasks, the sandbox's dictionary, and what is stored: of a row, its state (`row`) and
its `final_decision` (`column`), and the table of final decisions (`decisions`). A patch is the pair of its run and its
attempt number; a tree is the set of patches applied to it. What a stage
computes is left open: a diff is a change or empty, a verification
passes, fails or raises, the critic's text heuristics find nothing, something
major or a blocker. `Moved` is `sm.transition`: an invalid target makes the run
`raised`, as the exception leaves `run()`. `Create` and `Return` are the caller's
(`api/routes.py`, `cli.py`), which saves the row before and after; `SaveDecision` and
`SaveRun` store the verdict while the state is still `reviewing`, and `Conclude` announces it. `Crash` ends
every run in the process at once.

### 2.5 Threads of the server: Tenants, RateLimiter, ApiGate, SingleSignOn, FineTuning

FastAPI runs a handler written with `def` in a pool of threads, so two handlers may
meet anywhere. A step of these modules is a stretch of statements with nothing in it
that another thread can tell apart; they are cut wherever a method reads one table and
later stores in it or in another. The code requires Python 3.12, whose interpreter
changes threads only at calls and at the ends of loops: `x += 1` or an assignment of
a slice is one step, an iteration (the cleanup of sessions) is not.

`Tenants`: a thread between two parts of a method has them in `call`. A usage record
carries a number, `record`, which tells the record of a tenant from that of a later
tenant of the same name. A tenant's list of projects says how often each is on it, since
nothing depends on the order. `stale` marks a run whose check was not followed by its
record at once, and `disturbed` a project on which two methods overlapped:
both are history, and the properties say what holds without such overlaps. `RateLimiter`
is virtual time in a few ticks; the two windows differ in length only. `config` is the
`RateLimitConfig` of the limiter, chosen from `Configs` at the start and never changed. The code counts lists
of times; a recorded request is a number and a time here, so a set counts the same, which
is proved (`EachRequestRecordedOnce`). In `ApiGate` a
request is `Accept`, the token, the windows, the record, `LogAppend`, `LogTrim`, then
a handler. `SingleSignOn` numbers sessions in the order of the dictionary, which a
cleanup follows: it goes on where it was, and raises when the dictionary changed its
size. `cause` is history: why a session may be gone. In `FineTuning` a file is cut to
nothing when it is opened and has its entries when it is closed; identifiers that are
hashes are modelled by what is hashed.

### 2.6 WebSockets

Coroutines lose control at an await only: each `send_text` is a step, and `Connect`,
`Publish` and `Disconnect` are one step each since the lock is not held across an await.
A replay keeps a reference to the list it iterates over, which may grow
meanwhile or have been cleared from the table.

### 2.7 RunStore

A table is a set of rows, `Upsert` is INSERT OR REPLACE. A request that creates a run
has a script, the saves the pipeline makes for one `plan` of what its stages do, each with
its step in the order; the findings share one, since nothing depends on theirs. A save is a
commit of its own. `Abandon` is what ends a script early;
`GraphFails` is the handler around the provenance graph. A deletion is a transaction
of which nobody sees anything, as it never commits. What the routes answer are
operators over the committed tables.

### 2.8 Provenance

The table is the sequence of its rows; a query reads it with one SELECT per node, so its
state between two SELECTs is the function's local variables: `queue`, `visited`, and the list
it will return. A turn of the loop is one step, `Skip` (the `continue`s), `Hit` (the `return`
inside `find_path`) or `Follow`; `Measure` is the second loop of `summary`. A listing has no
ORDER BY, so `Follow` takes the rows of a node in any order. Between two turns `StoreEdge` may
store another edge. `trace`, `audit_trail` and the first pass of `summary` are one search that
keeps different parts of what it meets; `reverse_trace` runs against the edges. The depth at
which a node was visited, the rows there were when the query began and the paths of the
queries other than `find_path` (of which the code keeps the lengths) are history.
Queries read only, so one at a time is enough.

### 2.9 Verification, Languages, Review, Evaluation, Training

Pure functions as operators. A tool ends clean, with issues, too late or is missing, and
may be refused by the sandbox's policy; a check has a type, a status and what later
stages look for in its text. A patch has its files, and says of the texts the critic reads
only what its checks ask. `Verdicts` and `Decisions` compute each function once on an
input from a set, and compare it with a definition without the algorithm:
a counted rate with the tasks that succeeded. `AfterRepair` is the patch that is reviewed after
a successful repair, as `run()` makes it: the files of the first patch and nothing else, no
diff either. The repaired change in `Verdicts` is that patch with the report on the proposal.

A list comprehension, and a loop that skips some entries, is `Picked`: the elements of a list at
a set of places, in the order of the places. It says what `SelectSeq` says, in a form the provers
can expand; likewise a counter of a report is the size of the set of scores it counts, since
`add_result` is the only code that changes it.

## 3. Runs that pass

| run | bounds | shows |
|---|---|---|
| `worker` | 3 jobs of 2 priorities and 2 types, 1 worker, 2 threads, `max_jobs` 2 | the queue's and the workers' safety, the refinement of `TaskQueue`, and that submitted jobs are answered and `stop` takes effect |
| `benchmark` | a batch of 2 jobs, 1 worker of the runner, beside it 1 worker of somebody else or 1 job of another client, cancels and clears | reports rest on final answers, no job of the batch is left over, the runner's loop ends |
| `redis_queue` | 1 job, 2 workers, 2 clients, a failure or clear at any point | one holder, only failures lose a job, contradictions between status and answer are transient, queued jobs are answered |
| `pool_safety` | 2 callers asking for 1 of 2 units, 1 queue job, 2 objects, pool of 1, two scaler and two health threads (an overlap of two starts), one `stop` at a time and a `start` at any point of it, late heartbeats | exclusive assignment, resource conservation, pool bounds, no orphan worker, queue jobs held once |
| `pool_liveness` | 1 caller, 1 queue job, a re-used identifier, pool of 1 to 2, scaling and health check unable to add workers | reserved workers become free; the queue is served |
| `pipeline` | 2 runs of one task or two, 2 attempts, crashes, git failures | outcome, double faults, stored rows, bounded repair, nobody touches the worktree of a run of another task, states follow the life cycle, rows get a final state |
| `services` | per service: 2 tenants, 1 project, 3 runs, 2 threads, 2 days, quotas of 1 and 2; 2 keys, 2 threads, 3 requests, two configurations (1 a minute, 2 an hour, bursts of 3; 2, 2 and 1), a log of 1; 2 identities, 2 sessions, 2 callers, 4 hours; 2 sockets, 2 events, 1 clear; 1 run, 1 deletion; 1 job, 3 threads, 2 managers, 2 datasets of the same entries, 1 chosen name; 3 nodes, 5 possible edges with a cycle, a loop and two ways to a node, 3 rows (also the same edge again), limits from 0 to 3; of the computations: 5 sets of inputs, with patches of up to 4 files with one flaw, every way tools end, 5 languages, 3 tasks, 4 trajectories | the books of tenants, the limits, the log, sessions, subscribers, stored runs and training records stay consistent; queries on the graph are exact while edges are stored; verdicts follow the tools, counts add up |

Why these bounds are enough to be interesting: two threads of one worker are the
least that race; three jobs of two priorities are the least that distinguish "first
come first served" from "by priority". In the pool, two objects are the least for a
replacement or for a member beyond `max_workers`; two callers the least for a double
assignment; a capacity of 2 the least at which a leak is not yet exhaustion; requests of one
of the two units are enough, since a worker has one caller at a time. One thread
inside `stop` is enough to be overtaken by a `start`; `pool_restart` has two. Two
runs are the least that share a task, a worktree or a tree, two attempts the least
with a repair. In `benchmark` the foreign worker and the other client's
job never meet (`beside` says which there is); the theorem about the run has no such bound.
In `services` two threads overlap in every method, a third run meets a
quota that two have filled, a second request meets the window of a minute, a third that of
an hour, and in the other configuration a second one an empty bucket, a log of one
is trimmed at once, the clock passes the end of a session twice, a replay and a broadcast overlap,
three threads are two executions and a cancel; three rows are the least that make a cycle beside
another way, or two ways to one node, and each may come before or during a query. The services share no state,
so the run lets one of them move at a time instead of multiplying their states.
`Threads`, `MaxObjs`, `Scalers`, `Healths`, `Stoppers`, `Days`, `Creations`, `Requests`, `Horizon`,
`Sessions`, `LastHour`, `Events`, `Clears` and `MaxRows` bound how often something may happen.
`MayCrash`, `Timeouts` and `GitMayFail` switch an environment on. In `pipeline`, where a
liveness property forbids TLC's symmetry, `OrderedSpec` fixes which of the two runs and
tasks comes first instead. Deadlock is not checked: everything rightly stops when all is
done and the bounds are used up.

### Properties

* `ExclusiveExecution`, `NoJobLost`: each known job is in exactly one place (the pending
  list, one thread's hands, the results), through cancels, clears and restarts.
* `ServiceOrder`: the pending list is by priority, then by submission.
* `ResultIsFinal`: no step but `clear` or a late completion of a cancelled job
  replaces a reported result.
* `BoundedOverrun`: `max_jobs` is overrun at most by the threads in flight.
* `TypeOK`: in `worker`; of the Redis queue, the pool and the pipeline it is proved.
* `ImplementsTaskQueue`: refinement of the contract.
* `SubmittedIsAnswered`, `StopTakesEffect`: liveness of queue and worker.
* `ReportIsFinal`, `RunEnds`: a benchmark run reports what the queue still
  answers, when nothing of its batch is under way but what was cancelled, and it does end.
* `OneHolder`, `NoJobLost`, `ContradictionIsTransient`, `QueuedIsAnswered`: the same
  questions asked of the Redis queue, where they do not follow from a lock.
* `ExclusiveAssignment`, `ResourcesConserved`, `NoOrphanWorker`,
  `RunningJobHeldOnce`, `WorkerIsFreed`, `QueueServed`: the pool. `PoolWithinBounds`: never
  more than `max_workers` and those users added; not fewer than `min_workers`, less those
  users removed, while the pool runs and no overtaken `stop` emptied it (`pool_restart`
  shows that this happens). `QueueServed` has the same exception.
* `OutcomeFollowsEvidence`: a final state rests on the report about the patch that
  is returned. `RaisesOnlyAfterDoubleFault`: only a repair that raised followed by a
  review that raised makes `run()` raise. `StoreAgrees`: the state of a row is a result
  only once it was announced; the verdict is stored before that, and a crash may leave it
  in a row whose run announced nothing, but it is never another than the one announced, and
  the table of decisions has one whenever a row has. `RepairBounded`. `WorktreeIntact`: no run
  of another task takes a run's worktree; two runs of one task at a time do, which it leaves
  out. `RunSettles`.
  `FollowsLifecycleUnlessFailed`: until its machine fails, a run refines `TaskLifecycle`, also
  where the orchestrator assigns its state itself.
* `RunQuotaHeld`: the usage record counts exactly the runs in flight and those of the
  day, and runs that started on a fresh check stay within both quotas; a start on a stale
  check may overrun them. `ProjectsIsolated`: the table of projects and the tenants' lists
  agree about each project on which no two methods overlapped; after an overlap they may not.
* `LimitsHold`: requests that met no other of their key stay within both windows, and no more
  of them than `burst_size` are let through at one time. That a bucket is not refilled
  is neither required nor forbidden.
  `AuditKeepsNewest`: the log is an unbroken end of everything logged.
* `SessionsAccounted`: both tables find a session until somebody has a reason to take it
  away, and it leads to the identity its provider asserted.
* `NoEventMissed`: nothing falls between replay and broadcast; only their overlap doubles.
* `StoredRunsComplete`: references resolve in every committed state, and the routes show
  a run with a result whole (but for the export, see section 4).
* `TrainingRecordsTrue`: a job's status is backed by an execution; a version with a computed
  identifier describes its file.
* `VerdictFollowsTools`, `EvaluationAddsUp`: the computations. Of a change in several languages
  the first says only how report and checks hang together; which tool has what part in
  the verdict it says where all files are of one language. A tool that is missing in a sandbox
  counts as failed, not as missing.
* `QueriesExact`: a query finds at least what there was when it began, nothing that is
  not there, nearest first and nothing twice; a path is no longer than any there was; the depth
  of a summary is the distance of a node.

### Fairness

`worker`, `benchmark` and `pool_liveness` assume weak fairness of each
thread's steps: they are operating-system threads and none waits for a condition
another can keep false (the lock is held for short bodies only). It includes that
a handler returns, since the code puts no limit on it, and for the
pool that `release_worker` is reached, which a `finally` guarantees.
In `redis_queue` and `redis_stop` it includes that Redis answers or the command
fails; `Pop` is only due while the queue is not empty.
A `stop` in its joins goes on, since they are given a timeout.
`pipeline` assumes weak fairness of each run's stages. The checks they run have a timeout; the
calls of git (`verify/patcher.py:275,308`, `verify/sandbox.py:154,169`,
`orchestrator.py:448`) have none, and are assumed to return. Submitting, cancelling, starting, stopping, late
heartbeats and crashes are never fair. `services` states no fairness: its properties are
safety properties.

## 4. Runs that find a violation

Each states what a doc, comment or docstring says and the code does not do; the
quotations are in `PROJECT.json` under `findings`. The two of the pipeline suppose the
default critic (`DefaultCritic`).

| run | what TLC shows |
|---|---|
| `redis_stop` | a worker waiting on the empty Redis queue never notices that it was stopped |
| `pool_scaled_up_served` | workers added by scaling are never started; scaling down may remove the one that was |
| `pool_restart` | a `start` that comes while a `stop` waits for its threads loses its workers to that `stop`: the pool runs with none |
| `pipeline_rerun` | the second run of a task patches the repository itself |
| `pipeline_repair_tree` | a repair attempt is verified on a tree without its patch |

The model shows more of the kind, for which there is no run.

* Queue and pool: a job cancelled while it runs ends with the worker's result; `max_jobs`
  is counted per object and not per start; the replacement of an unhealthy worker is not
  started either (`_check_health`); `stop` ignores its `drain` argument;
  `release_worker` after its worker's identifier was re-used overfills the new worker; the
  report "with results from all benchmark tasks" leaves out those that did not succeed.
* Pipeline: a failed run (its repair or review raised) still becomes rejected or needs_review,
  which the transition table forbids; `_stage_patch` gives a patch no falsification check, for which `Critic` has a
  major finding, so with the default critic no run ends verified; a second decision of a
  task replaces the first; a run whose repair attempts are used up ends rejected or
  needs_review, where `docs/user-guide.md` says failed; a repaired patch has an empty
  diff and is never saved, so its findings refer to no row.
* Gates: neither the CLI nor the API gives a task its required gates, and an empty list
  passes; the gates `GatePolicyEngine` selects include some that no runner runs; in
  several languages the last check of a type decides for all.
* Services: a bucket is never refilled, where `enterprise/ratelimit.py:3` speaks of a token
  bucket and a refusal says to retry after a second (line 151), and a request that a window
  refuses has spent its token; deleting and re-creating a tenant clears its usage; a refresh revives an expired
  session; a cleanup that meets a login raises; every broadcast from a run the API
  started raises in a thread without an event loop and is swallowed.
* Store: `delete_run` names tables that do not exist and always raises once the run has a
  patch, and otherwise at its last but one statement; `export_run` reads
  `RunEvent.metadata`, which does not exist, so that GET `/runs/{id}/export`
  (`docs/api-reference.md:256`, and `TestExport` in `tests/test_api.py` with a run that has no
  events) fails for every run the pipeline made; after a crash a row and the table of decisions
  may show a verdict nobody announced; a connection is refused when its request moves to another
  thread.
* Training: `create_version` ignores `deduplicate`; a file that two managers rewrite under
  one chosen name is described by neither; a cancelled job becomes completed when its
  executor returns; a task without patches is scored under an empty name.

## 5. Proofs

`WorkerProofs` proves, for any sets of jobs, workers, threads, types and
any priorities and `max_jobs`:

* `TypeCorrect`: `Spec => []TypeOK`;
* `ExecutionIsExclusive`: `Spec => []ExclusiveExecution`;
* `JobsAreNotLost`: `Spec => []NoJobLost`;
* `ResultsAreFinal`: the action property `ResultIsFinal`;
* `QueueKeepsContract`: `Spec => ImplementsTaskQueue`, the refinement of `TaskQueue`;
* `ServiceIsOrdered`: `Spec => []ServiceOrder`;
* `OverrunIsBounded`: `Spec => []BoundedOverrun`;
* `ReportsAreFinal`: `RunnerSpec => []ReportIsFinal`, for any batch and any workers of the runner.

Assumptions: the named `ASSUME`s of `InMemoryQueue` and `Worker`, which
say that `None` is not a job, worker or outcome, that the functions have their
types and that the bound on threads is finite; and `BenchAssumption`, that a batch is
of jobs and the runner's workers are workers.

Argument. None of the first three invariants is inductive alone. That no two threads
hold a job depends on a pending job being in nobody's hands and on the pending list
having no duplicates; that in turn depends on a submitted identifier being fresh;
that no job is lost depends on a thread holding what is started and not finished.
`IInv` is the conjunction of type correctness, the exclusive
hold, freshness and distinctness of the pending list, and the statement that every
known job is somewhere; it was checked by TLC first, then proved initial and preserved by each
action, one step per action. What removing, inserting and taking the head of a
sequence do to its elements and to distinctness is in `ListLemmas`. The temporal
theorems follow by the temporal rule from initiality, preservation and
implication.

The refinement uses the same invariant: a fetched job is pending in the contract because
`PendingIsFresh` says it was not touched, a reported one running because
`HeldJobsUnreported` says a known job in hand was started. Each step of a client,
`FetchJob` and `Report` maps to the step of the contract of that name, a report of a cancelled or
forgotten job and every other step of a thread to a stutter. `ServiceOrder` is preserved
because a new job is inserted after every job it does not precede, and is the last of
those submitted. `OverrunIsBounded` rests on `WithinLimit`: the jobs counted and the
threads past the test of the limit are together fewer than `max_jobs` and the threads
there are. A step of a thread keeps that sum, or starts from a worker below its limit.

About `BenchmarkRunner`: each step of `run()` and of the others is one of `Worker` or a
stutter (`RunnerIsClient`), so `IInv` holds there too. `Settled` says what stays true of a
job once an outcome of it was read: it never waits again, it is in a thread's hands only if
it was cancelled, and its answer changes only then or with `clear`. It holds when
`Poll` reads an answer, because of `IInv`, and every step of `Worker` preserves it.

`WorkerPoolProofs` proves, for any configuration, callers, requests, jobs, leftover
threads and threads inside `stop`:

* `TypeCorrect`: `Spec => []TypeOK`;
* `RunningJobsAreHeldOnce`: `Spec => []RunningJobHeldOnce`;
* `PoolStaysWithinBounds`: `Spec => []PoolWithinBounds`;
* `AssignmentIsExclusive`, `ResourcesAreConserved`, `NoWorkerIsOrphaned`:
  `GeneratedIds => (Spec => []...)` for `ExclusiveAssignment`, `ResourcesConserved` and
  `NoOrphanWorker`.

Assumptions: `ConfigAssumption` and `NamesAssumption`. `GeneratedIds` says that users let
the pool name the workers. It is needed: `add_worker` with an id in use replaces a worker
without stopping it, and a release then finds the new one.

Argument. Three invariants. `Sound` needs no premise: to type correctness it adds `Registered`
(a worker is in the table only once it is created, and has no thread before it is started,
so `start` never starts a thread that holds a job over) and `HandsSound` (a running job is
in one hand). `Assigned` is about the table: with generated ids an object is registered
under its own number or not at all, so a release finds the worker of its call or
nothing, however long the call took. What `add_worker`, `remove_worker`, scaling,
replacement, `start` and `stop` have in common is one lemma about `Reshape`, what assignment,
release and heartbeats have in common another about `Renew`. Both were
checked by TLC first. `Bounded` needs no premise either: it adds to the property that no worker is
registered under two ids (`Tidy`), so that as many ids get free as workers are removed, and
the ids of new workers are free, since a generated id names its own worker or nothing. Then
`Reshape` changes the size by what it adds less what it removes, whoever calls it. Only
`StopFinish` leaves fewer than the minimum, of a pool that does not run or is marked as `emptied`.

`PipelineProofs` proves, for any sets of runs and tasks, any number of attempts, and every
choice of `Sandboxed`, `GitMayFail`, `DefaultCritic` and `MayCrash`:

* `TypeCorrect`: `Spec => []TypeOK`;
* `OutcomesFollowEvidence`: `Spec => []OutcomeFollowsEvidence`;
* `RaisesAreDoubleFaults`: `Spec => []RaisesOnlyAfterDoubleFault`;
* `StoreAgreesWithRuns`: `Spec => []StoreAgrees`;
* `RepairIsBounded`: `Spec => []RepairBounded`;
* `WorktreesStayIntact`: `Spec => []WorktreeIntact`;
* `LifecycleIsFollowed`: `Spec => FollowsLifecycleUnlessFailed`, the refinement of `TaskLifecycle`.

Assumptions: `PipelineAssumption`, and `NamesAssumption`, that `None` is neither an outcome,
a stored decision nor a set of patches.

Argument. Most of the invariant is about one run: `Good` relates its place in the code to
its record, its row and what it announced. `OnCourse` says where the state machine is at
each place, so that every transition the code asks for is permitted until the repair has
raised, and that the final state is set only after the row is saved, on a run that is
reviewing or has failed, which is what the refinement needs. `Judged` says that from the first
verification on the report under review is that of the patch, which the repair has to keep
up on every attempt. `Recorded` says
that nothing is announced before `conclude` and that the announced outcome is the state
from then on, which is what the caller's last save writes. `Decided` is about the verdict
in the store: it is in the table of decisions before it is in the row, a row has the verdict
of its run or none, has it from `conclude` on, and the table has that of the run it names;
a decision of another run of the task replaces an entry, but leaves one. `Separate` is about several
runs: the patches in a worktree are of runs of its task, and the worktree is there as long
as no run shares the task; a run that is not created yet may still choose any task, so it does not
count. The invariant was checked by TLC first. The proof has
one lemma per kind of step about the record alone, one that every step of a run is of such
a kind, and one each for the other runs, the types, the worktrees and the crash.

`RedisProofs` proves, for any sets of jobs, workers and clients:

* `TypeCorrect`: `Spec => []TypeOK`;
* `JobsHaveOneHolder`: `Spec => []OneHolder`;
* `JobsAreNotLost`: `Spec => []NoJobLost`;
* `ContradictionsAreTransient`: `Spec => []ContradictionIsTransient`.

Assumption: `NamesAssumption`, that workers, clients, jobs and records are told
apart from each other and from `None`.

Argument. There is no lock, so the invariant has to say what every stale copy may do.
`OnlySubmitted` (nothing of a job is anywhere before its submission) is what makes a
pushed identifier new to the queue. `CopiesSound` says that only a fetch
writes back a record without `completed`. A job can
be lost only by a record becoming unfinished while nobody has the job, and such a
record is written, after the submission, by `FetchStore` alone, whose worker has it. `FinishedByWorker` says
that the record of a job whose worker is about to answer is finished: by `OneHolder` no other worker
can have overwritten it. `FinishedByCancel` says the same of a client between storing and
removing, except that a worker may hold the job and have overwritten the
record; that worker is who ends the contradiction. `IInv` is the conjunction, checked by
TLC first, then proved initial and preserved by each action.

`ServiceProofs`, about `Tenants`, proves for any sets of tenants, projects, runs and threads,
any quotas and any number of days:

* `ProjectsAreIsolated`: `TenantsSpec => []ProjectsIsolated`;
* `QuotasAlwaysHold`: `TenantsSpec => []RunQuotaHeld`.

Assumptions: `QuotaAssumption` and `ClockAssumption` (quotas are integers, bounds natural
numbers), `RunsAssumption` (clients start finitely many runs) and `NoneAssumption`, that the
absent value is no tenant, record, run or call.

Argument for the projects. A project on which no two methods overlapped is in at most one
method's hands. `Underway` says how far that method has left the row and the lists; a project in
nobody's hands is listed once by the tenant that owns it. Every method that begins on a project somebody
is at work on marks it, so the other steps leave what `Underway` says alone.

Argument for the quotas. `Numbered` tells the records apart: a record of a later tenant of
the same name has a later number, so a run that ends finds its own record, or is marked as
crossing. `Books` says that a record counts its own runs exactly; `Passes` says that a run that
was checked and not overtaken still finds room, which a start of another run, ending the
freshness of all that wait, and a turn of the day, which only makes room, keep up.
The quotas of the timely runs follow because a start counts one and was allowed for one.
The three invariants are stated about the tables as arguments, so that one lemma each about a
check, a start and an end serves the methods as well as `record_run_end` on a fresh record.

About `SingleSignOn`, it proves for any sets of identities and callers and any bounds on
sessions, lifetime and clock:

* `SessionsAreAccounted`: `SsoSpec => []SessionsAccounted`.

Assumption: `SsoAssumption`, that the three bounds are natural numbers.

Argument. What the property says of the two tables depends on what the callers in the
middle of a removal are about to do. `SsoInv` adds to type correctness: `TakenForCause`
(whatever a cleanup or a logout holds on its list has a cause, and a refresh does not take
the cause from it), `TablesAgree` (a token is taken before an identifier, and a session in
between is in some caller's hands) and `UsersLinked` (users and identities lead to each
other, also for a login that has not stored its session yet). It was checked by TLC first,
then proved initial and preserved, one lemma per action, by every step of a caller.

About `ApiGate`, it proves for any sets of threads and keys, any limits and windows, any
number of requests and any `max_events`:

* `AuditIsUnbroken`: `GateSpec => []AuditKeepsNewest`;
* `LimitsAlwaysHold`: `GateSpec => []LimitsHold`;
* `EachRequestRecordedOnce`: a request about to be recorded is not recorded yet.

Assumptions: `LimitsAssumption` and `WindowAssumption` (the limits of a configuration and the
windows are natural numbers, a window is not empty), `GateAssumption` (the threads are finitely many, the bounds
natural numbers) and `NobodyAssumption`, that the absent request is none of those served.

Argument for the log. `Kept` says point by point that the events kept are the last of those logged, and
that the list is too long by at most one event for each thread that appended one and has not
trimmed yet. An append adds its thread to those; a trim removes it and, since it cuts the
list to its limit whoever made it too long, leaves the bound true for the other
threads. Every other step leaves the log and the threads at the trim as they are.

Argument for the limits. The property is about the requests that met no other of their key,
and says what any window that ends at one of them contains. `Tracks` says which of the granted requests the
limiter has forgotten: those that are outside the window now and outside the window of every
undisturbed request still under way, which is what makes a count of the recorded ones a bound on
the granted ones when the test and the record are steps apart. `Paid` says that the granted
requests and the tokens left fit in the bucket, with one kept back for an undisturbed request
past the bucket; a count of tokens that a thread has read and not yet stored fits as well, so
storing it late does no harm. Those granted at one time are some of those granted since the
bucket was last filled, so they fit as well.

About `WebSockets`, it proves for any sets of clients and any number of events and clears:

* `NoEventIsMissed`: `SocketSpec => []NoEventMissed`.

It needs no assumption about the constants.

Argument. `AtMost` counts: what a client received of an event, plus one if it is still to be
sent, is at most one for the broadcast, if the event was published after the subscription,
plus one for the replay, if the replay is past it. It rests on a list holding each event once,
in the order of publication (`Numbered`), so a replay comes to an event once. `AtLeast` is the other half: an event in the
history that was published after the subscription is received or on a broadcast's list; one
from before is in the list the replay iterates over, which is then the current one, as a cleared list is never current
again. `Quiet` says that nothing is sent to a client before it connects and that whoever a
broadcast found closed is gone, so that dropping it unsubscribes nobody who is there. There is one lemma
per action and one for all the actions that send and publish nothing.

`StoreProofs`, about `RunStore`, proves for any sets of runs, deletions and findings:

* `StoredRunsAreComplete`: `StoreSpec => []StoredRunsComplete`.

Assumptions: `FindingsAssumption`, that a critic reports finitely many findings, and
`NoRowAssumption`, that the absent row is neither a plan nor a row that is written.

Argument. The property relates ten tables, and no formula about two of them is inductive.
`StoreInv` says that there are sets of writes, those each run has made, of which two things
are true. `Course`: they reach back to the first step of the run's script, but for the edges of
a graph that failed, and what is left to do, unless the run was abandoned, is the rest.
`Holds`: the tables hold the rows of those writes that no later one replaced, and no others.
A save moves one write from the rest to those made; a failing graph or a death only
takes from the rest; a deletion never commits. That a row with a result makes a run
complete follows: only the closing write leaves such a row, it is the last of the script, so all
the others were made (`Full`), and what the routes show is computed from the rows
they left. For the provenance edges this rests on where the edges of `BuildFromPipeline`
start and end, which is proved for the concatenation of its parts.

About `FineTuning`, it proves for any jobs, threads, managers, names and datasets:

* `TrainingRecordsStayTrue`: `TuningSpec => []TrainingRecordsTrue`.

Assumptions: `NothingAssumption`, that no thread is the absent value, and
`DatasetsAreFiles`, that a dataset is a sequence.

Argument. `JobInv` adds to the property what each execution under way has already written in
its job. `VersionInv` is about computed identifiers, which determine the content: a file is
empty or holds what its identifier says, what a call is about to register is what the
file holds unless somebody rewrites it, and who rewrites it writes the same.

About `Provenance`, it proves for any nodes, edges and depth limits and any number of rows:

* `QueriesAreExact`: `ProvenanceSpec => []QueriesExact`.

Assumption: `ProvenanceAssumption`, that edges join nodes and limits and bound are natural
numbers (the nodes need not be finitely many).

Argument. `QueryInv` relates the queue, the nodes visited, the trail and the rows. `InOrder`:
the queue is sorted by depth and spans two depths, which is what breadth first means. `Walked`:
whatever waits or was visited is reached along stored rows, in as many as it says.
`Followed`: of a node visited within the limit, every row there was at the beginning has
been followed, so its end has been visited or waits, no deeper than one row further. From
these, by induction on the length of a walk (`Nearest`), no node there was at the beginning is
visited later than its distance says, and none within the limit is left out when the queue
is empty; a row that is stored meanwhile adds walks, of which nothing is claimed, and breaks
none. `find_path` keeps of `Followed` that no row it followed led to the goal. `Measured` says
of the second pass of `summary` that the depth so far is that of some node, and the
greatest. The invariant was checked by TLC first. Induction over the natural numbers is
that of `ListLemmas` (see `DecisionProofs`).

`DecisionProofs` proves, for any changes, registries, benchmarks and trajectories of the kind
the code knows:

* `VerdictsFollowTools`: `DecisionSpec => []VerdictFollowsTools`;
* `EvaluationsAddUp`: `DecisionSpec => []EvaluationAddsUp`.

Assumptions: `ChangesAssumption` (every tool ends clean, with issues, too late or missing, a
file is good, broken or absent, and the task has a type the critic has a limit for),
`PolyglotsAssumption` (a registry holds a language once, and what is behind each check of an
adapter is a command or Python's own parser), `BenchmarksAssumption` (there is an outcome with a
list of patches for every task, every task has a type, and the distributed results come back
once each, in any order) and `TrajectoriesAssumption` (a trajectory has a list of patches and a
number of evidence items, a split takes some of ten tenths, a shuffle is a permutation). The
lists may have any length, and tasks may be added twice.

Argument for the verdicts. There is one step, so the work is in the operators. `ToolStatus` says what the status
of a check tells of its tool, `ChecksRun` which checks a report holds, each type once,
`PassedGate` that a gate that blocks nothing has a check that passed. `Decided` and
`NothingGrave` say that a verified candidate has a passing report and no finding of the
critic above minor; each condition of the property is what one of the critic's checks would
otherwise have found (`EarnedByTools`). For several languages, `AdapterTells` says that when all
the changed files are in one language a check of a type is that of its adapter.

Argument for the evaluation. `ComputedFromInput`, that a result is what is computed of the input,
is the invariant of both theorems; the rest is about counting. `BenchmarkSetLaws` says that a
benchmark set has each identifier once, so that the scores of a run match its tasks one to one
(`RunAllScores`) and a number of scores is a number of tasks (`ScoresCounted`, `ModelCount`).
The categories of a breakdown add up because each score is in one of them (`SumOfParts`). That
the deltas of the tasks add up to the difference of the successes (`ImprovesByTask`) needs
`ByTaskOf`: keyed by identifier no score is overwritten, which is false for tasks without a patch,
whose scores have no name; the property supposes patches there. A distributed rate is over a part
of the tasks that has all the successes (`EndedLaws`). For the preference pairs, an entry of an
ascending list stands at its rank (`RankInList`), so the k-th of both lists are those of one rank
(`PairsMatch`).

Neither argument could use the library's induction theorems, which take an operator as a
parameter. `ListLemmas` has induction for sets instead: a set of numbers has a least one
(`LeastNumber`, from well-foundedness), so a set with 0 and every successor is all of the numbers
(`Inductive`), so a set of subsets that is closed under adding an element has every finite one
(`FiniteInductive`). With it, the sum the library defines by a fold exists and is unique
(`SumExists`, `SumUnique`, `SumIs`), and may be computed in any order (`SumLaws`).

## 6. Only model-checked

* Liveness: `SubmittedIsAnswered`, `StopTakesEffect`, `RunEnds`, `QueuedIsAnswered`,
  `WorkerIsFreed`, `QueueServed`, `RunSettles`. Fairness and ENABLED are out of the proof
  system's reach.

Every safety and action property of the passing runs, and both refinements, are theorems of
section 5; the runs are small instances of them, and check the assumptions.

## 7. Plan

1. Done: queues and workers, pool, pipeline, services, computations; a proof of every safety
   property the passing runs check.
2. `PluginRegistry`, `CostTracker` and roles, if something begins to call them.

## 8. Not modelled

* Real time: poll intervals, the five-second joins, heartbeat timeouts are choices.
* The text of patches, prompts, findings and reports, and the heuristics over it
  (`reasoning/` but for the critic, `llm/`), which have no state.
* Repository indexing and retrieval (`repo/`, `provenance/evidence.py`): sequential parsing
  and ranking of files, where what can go wrong is in the text.
* Roles, plugins, cost tracking and the event log: tables that one caller fills and nothing
  in the pipeline or the API reads.
* Of the REST API, request and response models, benchmarks, and handlers that answer a table; of
  the command line, all but `run`: they print what the components answer.
* Of the provenance queries, those of one SELECT (`get_nodes`, `get_neighbors`, `degree`, the
  summary of the whole table), which loop over nothing that changes.
* Of the store, hypotheses and evidence contracts, which are saved and read like evidence; of
  tenants, the counters of storage and API keys, which work like those of runs.
* Of the sandbox, which commands its policy allows, environment and hashing.
* Configuration, logging, identifiers, dashboard, editor extension.
