---------------------------- MODULE MCBenchmark -----------------------------
(***************************************************************************)
(* Small instances of BenchmarkRunner: a worker of its own, and beside it  *)
(* either a worker of somebody else or a job of another client.            *)
(***************************************************************************)
EXTENDS BenchmarkRunner

CONSTANTS j1, j2, j3, t1, t2, w1, w2, benchmark

VARIABLE beside        \* what there is beside the runner, chosen initially

TheJobs == {j1, j2, j3}
ThePriority == [j \in TheJobs |-> 0]
TheType == [j \in TheJobs |-> benchmark]

OneBeside ==
    /\ beside = "worker" => j3 \notin ToSet(submitted')
    /\ beside = "job" => ~running'[w2]
    /\ UNCHANGED beside

all == <<vars, runnerVars, beside>>

MCInit == RunnerInit /\ beside \in {"worker", "job"}

MCNext == RunnerNext /\ OneBeside

MCSpec ==
    /\ MCInit /\ [][MCNext]_all
    /\ WF_all(RunnerStep /\ UNCHANGED beside)
    /\ \A t \in Threads : WF_all(ThreadStep(t) /\ UNCHANGED <<runnerVars, beside>>)
=============================================================================
