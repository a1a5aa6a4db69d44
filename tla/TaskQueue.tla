----------------------------- MODULE TaskQueue -----------------------------
(***************************************************************************)
(* What the abstract base class TaskQueue promises its callers             *)
(* (src/vsrs/distributed/base.py): the status a job's get_status reports   *)
(* only moves forward, and a job has a result exactly from the moment it   *)
(* is completed.  A queue implementation is shown to implement this module *)
(* by a refinement mapping.                                                *)
(***************************************************************************)

CONSTANT Jobs      \* the identifiers of the jobs clients may submit

VARIABLES
    status,        \* what get_status answers for each identifier
    answered       \* the jobs for which get_result answers a JobResult

vars == <<status, answered>>

\* "unknown" stands for the answer None; of the other members of JobStatus
\* TaskJob.status only ever answers these three.
Statuses == {"unknown", "pending", "running", "completed"}

TypeOK ==
    /\ status \in [Jobs -> Statuses]
    /\ answered \in SUBSET Jobs

Init ==
    /\ status = [j \in Jobs |-> "unknown"]
    /\ answered = {}

\* submit: a job the queue does not know becomes pending.
Submit(j) ==
    /\ status[j] = "unknown"
    /\ status' = [status EXCEPT ![j] = "pending"]
    /\ UNCHANGED answered

\* fetch: a worker takes a pending job.
Fetch(j) ==
    /\ status[j] = "pending"
    /\ status' = [status EXCEPT ![j] = "running"]
    /\ UNCHANGED answered

\* complete and cancel: an unfinished job gets its result.
Settle(j, from) ==
    /\ status[j] \in from
    /\ status' = [status EXCEPT ![j] = "completed"]
    /\ answered' = answered \union {j}

Complete(j) == Settle(j, {"running"})

Cancel(j) == Settle(j, {"pending", "running"})

\* clear: every job and every result is forgotten.
Clear ==
    /\ status' = [j \in Jobs |-> "unknown"]
    /\ answered' = {}

Next ==
    \/ \E j \in Jobs : Submit(j) \/ Fetch(j) \/ Complete(j) \/ Cancel(j)
    \/ Clear

Spec == Init /\ [][Next]_vars
=============================================================================
