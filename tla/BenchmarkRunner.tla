-------------------------- MODULE BenchmarkRunner ---------------------------
(***************************************************************************)
(* One call of run() of src/vsrs/distributed/benchmark.py: it submits a    *)
(* batch of jobs, starts workers of its own, asks for every result until   *)
(* it has them all, stops the workers and reports.  The queue it is given  *)
(* may have other clients and other workers, which go on meanwhile.        *)
(***************************************************************************)
EXTENDS Worker

CONSTANTS
    Batch,         \* the jobs submit_all() makes, one for each benchmark task
    Bench          \* the workers run() makes

ASSUME BenchAssumption == Batch \subseteq Jobs /\ Bench \subseteq Workers

VARIABLES
    stage,         \* where run() is: the loop it is in, or how it ended
    seen           \* the outcome run() saw of each job, None while it waits for it

runnerVars == <<stage, seen>>

\* The handler of a benchmark worker is for benchmark jobs only.
BenchTypes == {TypeOf[j] : j \in Batch}

RunnerInit ==
    /\ Init
    /\ \A w \in Bench : handlers[w] = BenchTypes
    /\ stage = "submit"
    /\ seen = [j \in Batch |-> None]

Awaited == {j \in Batch : seen[j] = None}

-----------------------------------------------------------------------------
SubmitTask(j) ==
    /\ stage = "submit" /\ j \in Batch
    /\ Submit(j)
    /\ UNCHANGED <<threadVars, runnerVars>>

StartWorker(w) ==
    /\ stage = "launch" /\ w \in Bench
    /\ Start(w)
    /\ UNCHANGED runnerVars

\* get_result of one awaited job, once it has an answer; asking before leaves no
\* trace, nor does the sleep between two rounds.
Poll(j) ==
    /\ stage = "poll" /\ j \in Awaited /\ result[j] # None
    /\ seen' = [seen EXCEPT ![j] = result[j]]
    /\ UNCHANGED <<vars, stage>>

\* The handler returned something ScoreResult.from_dict cannot read: run() raises
\* and leaves its workers running.
PollRaises(j) ==
    /\ stage = "poll" /\ j \in Awaited /\ result[j] = "succeeded"
    /\ stage' = "raised"
    /\ UNCHANGED <<vars, seen>>

StopWorker(w) ==
    /\ stage = "stop" /\ w \in Bench /\ running[w]
    /\ Stop(w)
    /\ UNCHANGED runnerVars

\* The end of each of the four loops.
Advance ==
    /\ \/ stage = "submit" /\ Batch \subseteq ToSet(submitted) /\ stage' = "launch"
       \/ stage = "launch" /\ (\A w \in Bench : running[w]) /\ stage' = "poll"
       \/ stage = "poll" /\ Awaited = {} /\ stage' = "stop"
       \/ stage = "stop" /\ (\A w \in Bench : ~running[w]) /\ stage' = "returned"
    /\ UNCHANGED <<vars, seen>>

RunnerStep ==
    \/ \E j \in Batch : SubmitTask(j) \/ Poll(j) \/ PollRaises(j)
    \/ \E w \in Bench : StartWorker(w) \/ StopWorker(w)
    \/ Advance

-----------------------------------------------------------------------------
\* Bound: the threads the workers of run() have yet to get are kept for them.
Spare ==
    Cardinality({t \in Threads : pc[t] = "unborn"})
        > IF stage \in {"submit", "launch"} THEN Cardinality({w \in Bench : ~running[w]}) ELSE 0

\* The other clients and workers of the queue.
OthersStep ==
    /\ \/ \E j \in Jobs \ Batch : ClientSubmit(j)
       \/ \E j \in Jobs : ClientCancel(j)
       \/ ClientClear
       \/ \E w \in Workers \ Bench : Start(w) /\ Spare
       \/ \E w \in Workers \ Bench : running[w] /\ Stop(w)
    /\ UNCHANGED runnerVars

RunnerNext ==
    \/ RunnerStep
    \/ OthersStep
    \/ \E t \in Threads : ThreadStep(t) /\ UNCHANGED runnerVars

RunnerSpec == RunnerInit /\ [][RunnerNext]_<<vars, runnerVars>>

\* The threads of the interpreter are scheduled, that of run() like the workers'.
FairRunner ==
    /\ RunnerSpec
    /\ WF_<<vars, runnerVars>>(RunnerStep)
    /\ \A t \in Threads : WF_<<vars, runnerVars>>(ThreadStep(t) /\ UNCHANGED runnerVars)

-----------------------------------------------------------------------------
\* What run() reports on is over and final: a job of its batch neither waits nor is
\* executed, by whichever worker, and the queue still answers what run() read; except
\* for a job that was cancelled in a worker's hands, whose answer may yet change.
ReportIsFinal ==
    stage \in {"stop", "returned"} =>
        \A j \in Batch :
            /\ j \in known => seen[j] \in {result[j], "cancelled"}
            /\ j \notin ToSet(pending)
            /\ \A t \in Threads : Holding(t) /\ job[t] = j => seen[j] = "cancelled"

\* run() ends, whoever else cancels jobs or takes them from its workers, unless
\* the queue forgets a job it waits for: there is no timeout.
RunEnds ==
    <>(\/ stage \in {"returned", "raised"}
       \/ \E j \in Awaited : j \in ToSet(submitted) /\ j \notin known)
=============================================================================
