------------------------------ MODULE Pipeline ------------------------------
(***************************************************************************)
(* The pipeline of src/vsrs/orchestrator.py with its repair loop, sandbox  *)
(* and review, for several runs of several tasks on one repository.  Runs  *)
(* are threads that share the repository, the sandbox and the store; the   *)
(* process may crash between any two steps.  What the stages compute is    *)
(* left open: any stage may succeed, fail or raise.                        *)
(***************************************************************************)
EXTENDS Naturals, FiniteSets

CONSTANTS
    Runs,            \* the runs that may be created
    Tasks,
    MaxAttempts,     \* max_repair_attempts
    Sandboxed,       \* whether the orchestrator was given a sandbox
    GitMayFail,      \* whether creating a worktree may fail for git's own reasons
    DefaultCritic,   \* whether the review uses Critic or an injected one
    MayCrash,        \* bound: whether the process may crash
    None             \* Python's None

ASSUME PipelineAssumption ==
    /\ MaxAttempts \in Nat
    /\ {Sandboxed, GitMayFail, DefaultCritic, MayCrash} \subseteq BOOLEAN

VARIABLES
    run,         \* what every orchestrator call knows, see InitialRun
    repo,        \* the patches in the working tree of the repository
    work,        \* the patches in the worktree of a task, None if it is absent
    branches,    \* the tasks whose branch exists in the repository
    worktrees,   \* the tasks the sandbox has a Worktree object for
    row,         \* the stored state of a run, None before it is created
    column,      \* the final decision stored in the row, None if there is none
    decisions,   \* the stored final decision of a task: its run and status
    announced    \* the final state of the run_complete event, None before it

vars == <<run, repo, work, branches, worktrees, row, column, decisions, announced>>

States == {"intake", "retrieving", "reasoning", "patching", "verifying", "revising",
           "reviewing", "verified", "rejected", "needs_review", "escalated", "failed"}

\* Attempt n of run r: the patch <<r, n>>.
Patches == Runs \X (1..(MaxAttempts + 1))

\* A run before the orchestrator is called: its place in the code, its task, the
\* state of its state machine and of its TaskRun, its patch (diff and attempt
\* number), where it works, the report under review, that of the last attempt, how
\* many attempts were made, how the repair ended and what the review decided.
InitialRun ==
    [pc |-> "new", task |-> None, sm |-> "intake", state |-> "intake", diff |-> None,
     attempt |-> 0, place |-> None, report |-> None, last |-> None, attempts |-> 0,
     repair |-> "none", decision |-> None]

Init ==
    /\ run = [r \in Runs |-> InitialRun]
    /\ repo = {}
    /\ work = [t \in Tasks |-> None]
    /\ branches = {}
    /\ worktrees = {}
    /\ row = [r \in Runs |-> None]
    /\ column = [r \in Runs |-> None]
    /\ decisions = [t \in Tasks |-> None]
    /\ announced = [r \in Runs |-> None]

\* None is neither an outcome, nor a stored decision, nor the patches of a tree.
ASSUME NamesAssumption ==
    /\ None \notin {"verified", "rejected", "needs_review"}
    /\ \A r \in Runs : None \notin [run : {r}, status : {"verified", "rejected", "needs_review"}]
    /\ \A tree \in SUBSET Patches : None # tree

disk == <<repo, work, branches, worktrees>>
stored == <<row, column, decisions, announced>>

Lifecycle == INSTANCE TaskLifecycle WITH state <- [r \in Runs |-> run[r].state]

-----------------------------------------------------------------------------
(* Operators named Faulty... carry one plausible slip each, for the        *)
(* properties to notice; no specification uses them.                       *)

\* The run after sm.transition(s), going on to pc; an invalid transition raises
\* out of the pipeline.
Moved(r, s, pc) ==
    IF s \in Lifecycle!Targets[run[r].sm]
    THEN [run[r] EXCEPT !.sm = s, !.state = s, !.pc = pc]
    ELSE [run[r] EXCEPT !.pc = "raised"]

Transit(r, s, pc) == run' = [run EXCEPT ![r] = Moved(r, s, pc)]

\* The caller creates the run's row, then calls the orchestrator.
Create(r) ==
    /\ run[r].pc = "new"
    /\ \E t \in Tasks : run' = [run EXCEPT ![r].pc = "intake", ![r].task = t]
    /\ row' = [row EXCEPT ![r] = "intake"]
    /\ UNCHANGED <<disk, column, decisions, announced>>

\* A missing repository fails the run without its state machine.
Intake(r) ==
    /\ run[r].pc = "intake"
    /\ \/ Transit(r, "retrieving", "retrieve")
       \/ run' = [run EXCEPT ![r].state = "failed", ![r].pc = "return"]
    /\ UNCHANGED <<disk, stored>>

\* Retrieval or the reasoner may raise.
Retrieve(r) ==
    /\ run[r].pc = "retrieve"
    /\ Transit(r, "reasoning", "reason") \/ Transit(r, "failed", "return")
    /\ UNCHANGED <<disk, stored>>

Reason(r) ==
    /\ run[r].pc = "reason"
    /\ Transit(r, "patching", "patch") \/ Transit(r, "failed", "return")
    /\ UNCHANGED <<disk, stored>>

\* The proposal becomes the patch, valid or not; there may be none, and its diff
\* may be empty, as the deterministic reasoner's is.
MakePatch(r) ==
    /\ run[r].pc = "patch"
    /\ \/ Transit(r, "failed", "return")
       \/ \E d \in {"change", "empty"} :
             run' = [run EXCEPT ![r] = [Moved(r, "verifying", "worktree")
                                           EXCEPT !.diff = d, !.attempt = 1]]
    /\ UNCHANGED <<disk, stored>>

\* create_worktree removes a worktree in its way and fails if the task's branch
\* exists, or with git itself; the stage then works in the repository.
MakeWorktree(r) ==
    LET t == run[r].task IN
    /\ run[r].pc = "worktree"
    /\ \/ /\ Sandboxed /\ t \notin branches
          /\ run' = [run EXCEPT ![r].place = "worktree", ![r].pc = "apply"]
          /\ work' = [work EXCEPT ![t] = {}]
          /\ branches' = branches \union {t}
          /\ worktrees' = worktrees \union {t}
       \/ /\ ~Sandboxed \/ t \in branches \/ GitMayFail
          /\ run' = [run EXCEPT ![r].place = "repo", ![r].pc = "apply"]
          /\ IF Sandboxed /\ t \in branches
             THEN work' = [work EXCEPT ![t] = None]
             ELSE UNCHANGED work
          /\ UNCHANGED <<branches, worktrees>>
    /\ UNCHANGED <<repo, stored>>

Tree(r) == IF run[r].place = "repo" THEN repo
           ELSE IF work[run[r].task] = None THEN {} ELSE work[run[r].task]

\* Patcher.apply, unless the diff is empty; a failure is only logged.
Apply(r) ==
    /\ run[r].pc = "apply"
    /\ run' = [run EXCEPT ![r].pc = "verify"]
    /\ \/ UNCHANGED <<repo, work>>
       \/ /\ run[r].diff = "change" /\ run[r].place = "repo"
          /\ repo' = repo \union {<<r, 1>>}
          /\ UNCHANGED work
       \/ /\ run[r].diff = "change" /\ run[r].place = "worktree"
          /\ work[run[r].task] # None
          /\ work' = [work EXCEPT ![run[r].task] = @ \union {<<r, 1>>}]
          /\ UNCHANGED repo
    /\ UNCHANGED <<branches, worktrees, stored>>

\* The report on attempt n: whether the required gates passed, and the tree the
\* checks ran on.
Report(r, n, passed) == [attempt |-> n, passed |-> passed, tree |-> Tree(r)]

Verify(r) ==
    /\ run[r].pc = "verify"
    /\ \/ Transit(r, "failed", "return")
       \/ \E passed \in BOOLEAN :
             LET next == IF passed THEN Moved(r, "reviewing", "review")
                         ELSE Moved(r, "revising", "repair")
             IN run' = [run EXCEPT ![r] = [next EXCEPT !.report = Report(r, 1, passed),
                                                       !.last = Report(r, 1, passed),
                                                       !.attempts = 1]]
    /\ UNCHANGED <<disk, stored>>

-----------------------------------------------------------------------------
(* The repair loop.                                                        *)

\* Allowing one attempt more.
FaultyAttemptsLeft(r) == run[r].attempts <= MaxAttempts

AttemptsLeft(r) == run[r].attempts < MaxAttempts

\* Adopting the repaired patch but keeping the report of the first attempt.
FaultyAdoptRepair(r, n) ==
    run' = [run EXCEPT ![r].attempts = n, ![r].last = Report(r, n, TRUE),
                       ![r].attempt = n, ![r].diff = "empty",
                       ![r].repair = "succeeded", ![r].pc = "cycle"]

\* A passing attempt becomes the patch under review, with its report and, since
\* the record of an attempt holds no diff, an empty diff.
AdoptRepair(r, n) ==
    run' = [run EXCEPT ![r].attempts = n, ![r].last = Report(r, n, TRUE),
                       ![r].report = Report(r, n, TRUE), ![r].attempt = n,
                       ![r].diff = "empty", ![r].repair = "succeeded", ![r].pc = "cycle"]

RecordFailure(r, n) ==
    run' = [run EXCEPT ![r].attempts = n, ![r].last = Report(r, n, FALSE)]

\* One attempt: a new patch is proposed and the checks run again.  The pipeline
\* passes no apply_patch_fn: the tree is not changed.
RepairAttempt(r) ==
    /\ run[r].pc = "repair"
    /\ AttemptsLeft(r)
    /\ \/ AdoptRepair(r, run[r].attempts + 1)
       \/ RecordFailure(r, run[r].attempts + 1)
    /\ UNCHANGED <<disk, stored>>

RepairExhausted(r) ==
    /\ run[r].pc = "repair"
    /\ ~AttemptsLeft(r)
    /\ run' = [run EXCEPT ![r].repair = "exhausted", ![r].pc = "cycle"]
    /\ UNCHANGED <<disk, stored>>

\* Setting the run's state, but not that of its machine.
FaultyRepairRaises(r) ==
    /\ run[r].pc = "repair"
    /\ AttemptsLeft(r)
    /\ run' = [run EXCEPT ![r].state = "failed", ![r].pc = "review", ![r].repair = "raised"]
    /\ UNCHANGED <<disk, stored>>

\* The reasoner or the runner raises: the run has failed, and goes on to review.
RepairRaises(r) ==
    /\ run[r].pc = "repair"
    /\ AttemptsLeft(r)
    /\ run' = [run EXCEPT ![r] = [Moved(r, "failed", "review") EXCEPT !.repair = "raised"]]
    /\ UNCHANGED <<disk, stored>>

CycleNext == [revising |-> "reasoning", reasoning |-> "patching",
              patching |-> "verifying", verifying |-> "reviewing"]

\* Leaving out the reasoning state.
FaultyCycle(r) ==
    /\ run[r].pc = "cycle"
    /\ LET s == IF run[r].sm = "revising" THEN "verifying" ELSE "reviewing" IN
          Transit(r, s, IF s = "reviewing" THEN "review" ELSE "cycle")
    /\ UNCHANGED <<disk, stored>>

\* After the loop, succeeded or not, the states of a whole cycle are passed
\* through one by one.
Cycle(r) ==
    /\ run[r].pc = "cycle"
    /\ LET s == CycleNext[run[r].sm] IN
          Transit(r, s, IF s = "reviewing" THEN "review" ELSE "cycle")
    /\ UNCHANGED <<disk, stored>>

-----------------------------------------------------------------------------
(* Review and the end of a run.                                            *)

\* The worst finding about a patch, where the other checks of the critic find
\* other.  Critic finds a blocker in an empty diff, and something major in every
\* patch: the pipeline never gives it a falsification check.
Worst(r, other) ==
    IF ~DefaultCritic THEN other
    ELSE IF run[r].diff = "empty" \/ other = "blocker" THEN "blocker" ELSE "major"

Verdict(r, finding) ==
    IF ~run[r].report.passed THEN "rejected"
    ELSE IF finding # "none" THEN "needs_review" ELSE "verified"

Review(r) ==
    /\ run[r].pc = "review"
    /\ \/ Transit(r, "failed", "decide")
       \/ \E other \in {"none", "major", "blocker"} :
             run' = [run EXCEPT ![r].decision = Verdict(r, Worst(r, other)),
                                ![r].pc = "decide"]
    /\ UNCHANGED <<disk, stored>>

\* save_final_decision replaces what the store has for the task.
SaveDecision(r) ==
    /\ run[r].pc = "decide"
    /\ run' = [run EXCEPT ![r].pc = "save"]
    /\ decisions' = IF run[r].decision = None THEN decisions
                    ELSE [decisions EXCEPT ![run[r].task] =
                            [run |-> r, status |-> run[r].decision]]
    /\ UNCHANGED <<disk, row, column, announced>>

Outcome(r) == IF run[r].decision = None THEN "needs_review" ELSE run[r].decision

\* Saving the state the decision calls for at once.
FaultySaveRun(r) ==
    /\ run[r].pc = "save"
    /\ run' = [run EXCEPT ![r].pc = "conclude"]
    /\ row' = [row EXCEPT ![r] = Outcome(r)]
    /\ column' = [column EXCEPT ![r] = run[r].decision]
    /\ UNCHANGED <<disk, decisions, announced>>

\* save_run, which shows the verdict but not yet the final state, ...
SaveRun(r) ==
    /\ run[r].pc = "save"
    /\ run' = [run EXCEPT ![r].pc = "conclude"]
    /\ row' = [row EXCEPT ![r] = run[r].state]
    /\ column' = [column EXCEPT ![r] = run[r].decision]
    /\ UNCHANGED <<disk, decisions, announced>>

\* ... which is then set without the state machine, and announced.
Conclude(r) ==
    /\ run[r].pc = "conclude"
    /\ run' = [run EXCEPT ![r].state = Outcome(r), ![r].pc = "cleanup"]
    /\ announced' = [announced EXCEPT ![r] = Outcome(r)]
    /\ UNCHANGED <<disk, row, column, decisions>>

\* Removing every worktree the sandbox knows.
FaultyCleanup(r) ==
    /\ run[r].pc = "cleanup"
    /\ run' = [run EXCEPT ![r].pc = "return"]
    /\ work' = [t \in Tasks |-> IF t \in worktrees THEN None ELSE work[t]]
    /\ UNCHANGED <<repo, branches, worktrees, stored>>

\* The directory of the task's worktree is removed, whichever run made it; its
\* branch and its Worktree object stay.
Cleanup(r) ==
    /\ run[r].pc = "cleanup"
    /\ run' = [run EXCEPT ![r].pc = "return"]
    /\ work' = IF run[r].task \in worktrees THEN [work EXCEPT ![run[r].task] = None] ELSE work
    /\ UNCHANGED <<repo, branches, worktrees, stored>>

\* Saving only a run that has a result.
FaultyReturn(r) ==
    /\ run[r].pc = "return"
    /\ run' = [run EXCEPT ![r].pc = "done"]
    /\ row' = IF run[r].state \in Lifecycle!ResultStates
              THEN [row EXCEPT ![r] = run[r].state] ELSE row
    /\ column' = IF run[r].state \in Lifecycle!ResultStates
                 THEN [column EXCEPT ![r] = run[r].decision] ELSE column
    /\ UNCHANGED <<disk, decisions, announced>>

\* The caller saves the run it gets back.
Return(r) ==
    /\ run[r].pc = "return"
    /\ run' = [run EXCEPT ![r].pc = "done"]
    /\ row' = [row EXCEPT ![r] = run[r].state]
    /\ column' = [column EXCEPT ![r] = run[r].decision]
    /\ UNCHANGED <<disk, decisions, announced>>

Ended == {"done", "raised", "crashed"}
InPipeline(r) == run[r].pc \notin Ended \union {"new"}

\* The process dies with its runs; nothing resumes them.
Crash ==
    /\ MayCrash
    /\ \E r \in Runs : InPipeline(r)
    /\ run' = [r \in Runs |-> IF InPipeline(r) THEN [run[r] EXCEPT !.pc = "crashed"] ELSE run[r]]
    /\ worktrees' = {}
    /\ UNCHANGED <<repo, work, branches, stored>>

Stage(r) ==
    \/ Intake(r) \/ Retrieve(r) \/ Reason(r) \/ MakePatch(r)
    \/ MakeWorktree(r) \/ Apply(r) \/ Verify(r)
    \/ RepairAttempt(r) \/ RepairExhausted(r) \/ RepairRaises(r) \/ Cycle(r)
    \/ Review(r) \/ SaveDecision(r) \/ SaveRun(r) \/ Conclude(r) \/ Cleanup(r) \/ Return(r)

Next == Crash \/ \E r \in Runs : Create(r) \/ Stage(r)

Spec == Init /\ [][Next]_vars

\* The thread of a run is scheduled, and every stage ends: the checks have a timeout,
\* the git commands of the patcher, the sandbox and the intake are assumed to return.
FairSpec == Spec /\ \A r \in Runs : WF_vars(Stage(r))

-----------------------------------------------------------------------------
(* Properties.                                                             *)

Reports == [attempt : 1..(MaxAttempts + 1), passed : BOOLEAN, tree : SUBSET Patches]
Outcomes == Lifecycle!ResultStates
Places == {"new", "intake", "retrieve", "reason", "patch", "worktree", "apply", "verify",
           "repair", "cycle", "review", "decide", "save", "conclude", "cleanup", "return"}

\* Every variable has its type.
TypeOK ==
    /\ run \in [Runs -> [pc : Places \union Ended, task : Tasks \union {None},
                         sm : States, state : States,
                         diff : {"change", "empty", None}, attempt : 0..(MaxAttempts + 1),
                         place : {"repo", "worktree", None},
                         report : Reports \union {None}, last : Reports \union {None},
                         attempts : 0..(MaxAttempts + 1),
                         repair : {"none", "succeeded", "exhausted", "raised"},
                         decision : Outcomes \union {None}]]
    /\ repo \in SUBSET Patches
    /\ work \in [Tasks -> {None} \union (SUBSET Patches)]
    /\ branches \subseteq Tasks /\ worktrees \subseteq Tasks
    /\ row \in [Runs -> States \union {None}]
    /\ column \in [Runs -> Outcomes \union {None}]
    /\ decisions \in [Tasks -> [run : Runs, status : Outcomes] \union {None}]
    /\ announced \in [Runs -> Outcomes \union {None}]

\* A run's outcome rests on the report of the very patch it returns: verified
\* only if that report passed, rejected only if it failed, and a successful repair
\* is never judged by the report it repaired.
OutcomeFollowsEvidence ==
    \A r \in Runs : announced[r] # None =>
        /\ run[r].report.attempt = run[r].attempt
        /\ announced[r] = "verified" => run[r].report.passed
        /\ announced[r] = "rejected" => ~run[r].report.passed
        /\ run[r].repair = "succeeded" => run[r].report.passed

\* The orchestrator never asks its state machine for an invalid transition, except
\* when the repair raised and the review then raises too.
RaisesOnlyAfterDoubleFault ==
    \A r \in Runs : run[r].pc = "raised" => run[r].repair = "raised"

\* What the store says of a run agrees with what the run announces.  The state of a row
\* is a result only once that result was announced.  The verdict is stored before, in
\* the row and in the table of decisions, and stays there if the process dies: but it
\* is the one that is announced if it gets that far, a run that announced a result
\* without one asked for review, and no row has a verdict while the table, which
\* keeps one per task, has none or another of the same run.
StoreAgrees ==
    \A r \in Runs :
        /\ row[r] \in Outcomes => announced[r] = row[r]
        /\ announced[r] # None =>
              announced[r] = IF column[r] = None THEN "needs_review" ELSE column[r]
        /\ column[r] # None =>
              LET d == decisions[run[r].task] IN
                 d # None /\ (d.run = r => d.status = column[r])

\* Repair stops at max_repair_attempts attempts, the first patch included (which
\* is made even when none is allowed).
RepairBounded ==
    LET most == IF MaxAttempts = 0 THEN 1 ELSE MaxAttempts IN
    \A r \in Runs :
        /\ run[r].attempts <= most
        /\ run[r].repair = "exhausted" => run[r].attempts = most /\ ~run[r].last.passed

\* From the first change to the last check, the worktree of a run is there and
\* holds nothing but the run's own patch, unless another run has the same task.
WorktreeIntact ==
    \A r \in Runs :
        /\ run[r].place = "worktree"
        /\ run[r].pc \in {"apply", "verify", "repair", "cycle"}
        /\ \A q \in Runs \ {r} : run[q].task # run[r].task
        => /\ work[run[r].task] # None
           /\ \A p \in Tree(r) : p[1] = r

\* A run with a row gets a final state in it, unless the pipeline raised or the
\* process crashed.
RunSettles ==
    \A r \in Runs :
        row[r] = "intake" ~> \/ row[r] \in Outcomes \union {"failed"}
                            \/ run[r].pc \in {"raised", "crashed"}

\* "Enforces valid state transitions for a task run" (core/state.py): the state of
\* a TaskRun, part of which the orchestrator assigns without its state machine, moves
\* along the transition table; but a run whose machine failed counts as failed, although
\* its review goes on to give it another state.
Ideal == INSTANCE TaskLifecycle WITH
    state <- [r \in Runs |-> IF run[r].sm = "failed" THEN "failed" ELSE run[r].state]

FollowsLifecycleUnlessFailed == Ideal!Spec

\* "Disposable git worktree per task" (verify/sandbox.py): with a sandbox and a
\* working git, no patch reaches the repository itself.
RepositoryUntouched == Sandboxed => repo = {}

\* "Verifies the new patch" (repair/loop.py): the tree a repair attempt is checked
\* on holds the patch of that attempt.
RepairVerifiesNewPatch ==
    \A r \in Runs :
        run[r].attempts > 1 => <<r, run[r].last.attempt>> \in run[r].last.tree
=============================================================================
