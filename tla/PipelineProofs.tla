--------------------------- MODULE PipelineProofs ---------------------------
(***************************************************************************)
(* Proofs about Pipeline for any number of runs and tasks, any number of   *)
(* attempts, and crashes.                                                  *)
(***************************************************************************)
EXTENDS Pipeline, TLAPS

-----------------------------------------------------------------------------
(* The inductive invariant: what the place of a run says of its record, of   *)
(* the row stored for it and of what was announced.                          *)

RunRecords ==
    [pc : Places \union Ended, task : Tasks \union {None}, sm : States, state : States,
     diff : {"change", "empty", None}, attempt : 0..(MaxAttempts + 1),
     place : {"repo", "worktree", None},
     report : Reports \union {None}, last : Reports \union {None},
     attempts : 0..(MaxAttempts + 1),
     repair : {"none", "succeeded", "exhausted", "raised"},
     decision : Outcomes \union {None}]

Most == IF MaxAttempts = 0 THEN 1 ELSE MaxAttempts

Beginning == {"new", "intake", "retrieve", "reason", "patch", "worktree", "apply", "verify"}
Deciding == {"decide", "save", "conclude"}

\* Up to the review the state of a run follows its state machine, and the state
\* machine is where the next transition starts.
OnCourse(x) ==
    /\ x.pc \in {"new", "intake"} => x.sm = "intake"
    /\ x.pc = "retrieve" => x.sm = "retrieving"
    /\ x.pc = "reason" => x.sm = "reasoning"
    /\ x.pc = "patch" => x.sm = "patching"
    /\ x.pc \in {"worktree", "apply", "verify"} => x.sm = "verifying" /\ x.attempt = 1
    /\ x.pc = "repair" => x.sm = "revising"
    /\ x.pc = "cycle" => x.sm \in {"revising", "reasoning", "patching", "verifying"}
    /\ x.pc = "review" => \/ x.sm = "reviewing"
                          \/ x.sm = "failed" /\ x.repair = "raised"
    /\ x.pc = "raised" => x.repair = "raised"
    /\ x.pc \in Beginning \union {"repair", "cycle", "review"} =>
          x.state = x.sm /\ x.decision = None
    /\ x.pc \in Deciding => x.state = x.sm /\ x.sm \in {"reviewing", "failed"}

\* From the first verification on, a run has the report of its patch.
Judged(x) ==
    /\ x.report \in Reports /\ x.report.attempt = x.attempt
    /\ x.repair = "succeeded" => x.report.passed
    /\ x.decision = "verified" => x.report.passed
    /\ x.decision = "rejected" => ~x.report.passed

\* The attempts of the repair loop.
Bounded(x) ==
    /\ x.attempts <= Most
    /\ x.pc \in Beginning => x.attempts = 0 /\ x.repair = "none"
    /\ x.pc = "repair" => /\ x.attempts > 0 /\ x.last \in Reports /\ ~x.last.passed
                          /\ x.repair = "none"
    /\ x.repair = "exhausted" => x.attempts = Most /\ ~x.last.passed

\* a is what the run announced, w its stored row.
Recorded(x, a, w) ==
    /\ x.pc \in {"repair", "cycle", "review", "cleanup"} \union Deciding => Judged(x)
    /\ a # None => /\ x.pc \in {"cleanup", "return", "done", "crashed"}
                   /\ Judged(x) /\ a = x.state
                   /\ a = IF x.decision = None THEN "needs_review" ELSE x.decision
    /\ x.pc = "cleanup" => a # None
    /\ x.pc = "return" /\ a = None => x.state \notin Outcomes
    /\ w \in Outcomes => a = w

Good(x, a, w) == OnCourse(x) /\ Bounded(x) /\ Recorded(x, a, w)

\* A worktree holds patches of the runs of its task only, and it is there while a
\* run needs it that shares its task with no other.
Separate ==
    /\ \A t \in Tasks : work[t] # None =>
          \A p \in work[t] : run[p[1]].task = t /\ run[p[1]].pc # "new"
    /\ \A r \in Runs :
          /\ run[r].pc # "new" => run[r].task \in Tasks
          /\ /\ run[r].place = "worktree"
             /\ run[r].pc \in {"apply", "verify", "repair", "cycle"}
             /\ \A q \in Runs \ {r} : run[q].pc = "new" \/ run[q].task # run[r].task
             => work[run[r].task] # None

\* The verdict of a run in its row, and the table of decisions, which has one for its
\* task from the moment it is saved.
VerdictStored(r) ==
    /\ column[r] # None =>
          column[r] = run[r].decision /\ decisions[run[r].task] # None
    /\ announced[r] # None \/ run[r].pc \in {"conclude", "cleanup"} =>
          column[r] = run[r].decision
    /\ run[r].decision # None /\ run[r].pc \notin {"decide", "crashed"} =>
          decisions[run[r].task] # None

Decided ==
    /\ \A r \in Runs : VerdictStored(r)
    /\ \A t \in Tasks : decisions[t] # None =>
          decisions[t].status = run[decisions[t].run].decision

Inv == TypeOK /\ (\A r \in Runs : Good(run[r], announced[r], row[r])) /\ Separate

-----------------------------------------------------------------------------
(* Every step but the crash moves one run.                                 *)

\* The transitions the pipeline asks for.
LEMMA Moves ==
    /\ "retrieving" \in Lifecycle!Targets["intake"]
    /\ {"reasoning", "failed"} \subseteq Lifecycle!Targets["retrieving"]
    /\ {"patching", "failed"} \subseteq Lifecycle!Targets["reasoning"]
    /\ {"verifying", "failed"} \subseteq Lifecycle!Targets["patching"]
    /\ {"revising", "reviewing", "failed"} \subseteq Lifecycle!Targets["verifying"]
    /\ {"reasoning", "failed"} \subseteq Lifecycle!Targets["revising"]
    /\ "failed" \in Lifecycle!Targets["reviewing"]
BY DEF Lifecycle!Targets

LEMMA OutcomeNames == Outcomes = {"verified", "rejected", "needs_review"} /\ None \notin Outcomes
BY NamesAssumption DEF Outcomes, Lifecycle!ResultStates

\* A record stays one when a field gets a value of its type.
LEMMA Setters ==
    ASSUME NEW x \in RunRecords
    PROVE  /\ \A v \in Places \union Ended : [x EXCEPT !.pc = v] \in RunRecords
           /\ \A v \in Tasks : [x EXCEPT !.task = v] \in RunRecords
           /\ \A v \in States : [x EXCEPT !.sm = v] \in RunRecords
           /\ \A v \in States : [x EXCEPT !.state = v] \in RunRecords
           /\ \A v \in {"change", "empty"} : [x EXCEPT !.diff = v] \in RunRecords
           /\ \A v \in 0..(MaxAttempts + 1) : [x EXCEPT !.attempt = v] \in RunRecords
           /\ \A v \in {"repo", "worktree"} : [x EXCEPT !.place = v] \in RunRecords
           /\ \A v \in Reports : [x EXCEPT !.report = v] \in RunRecords
           /\ \A v \in Reports : [x EXCEPT !.last = v] \in RunRecords
           /\ \A v \in 0..(MaxAttempts + 1) : [x EXCEPT !.attempts = v] \in RunRecords
           /\ \A v \in {"succeeded", "exhausted", "raised"} : [x EXCEPT !.repair = v] \in RunRecords
           /\ \A v \in Outcomes : [x EXCEPT !.decision = v] \in RunRecords
<1>1. \A v \in Places \union Ended : [x EXCEPT !.pc = v] \in RunRecords
  BY DEF RunRecords
<1>2. \A v \in Tasks : [x EXCEPT !.task = v] \in RunRecords
  BY DEF RunRecords
<1>3. \A v \in States : [x EXCEPT !.sm = v] \in RunRecords
  BY DEF RunRecords
<1>4. \A v \in States : [x EXCEPT !.state = v] \in RunRecords
  BY DEF RunRecords
<1>5. \A v \in {"change", "empty"} : [x EXCEPT !.diff = v] \in RunRecords
  BY DEF RunRecords
<1>6. \A v \in 0..(MaxAttempts + 1) : [x EXCEPT !.attempt = v] \in RunRecords
  BY DEF RunRecords
<1>7. \A v \in {"repo", "worktree"} : [x EXCEPT !.place = v] \in RunRecords
  BY DEF RunRecords
<1>8. \A v \in Reports : [x EXCEPT !.report = v] \in RunRecords
  BY DEF RunRecords
<1>9. \A v \in Reports : [x EXCEPT !.last = v] \in RunRecords
  BY DEF RunRecords
<1>10. \A v \in 0..(MaxAttempts + 1) : [x EXCEPT !.attempts = v] \in RunRecords
  BY DEF RunRecords
<1>11. \A v \in {"succeeded", "exhausted", "raised"} : [x EXCEPT !.repair = v] \in RunRecords
  BY DEF RunRecords
<1>12. \A v \in Outcomes : [x EXCEPT !.decision = v] \in RunRecords
  BY DEF RunRecords
<1> QED
  BY <1>1, <1>2, <1>3, <1>4, <1>5, <1>6, <1>7, <1>8, <1>9, <1>10, <1>11, <1>12

-----------------------------------------------------------------------------
(* What the steps do to the record x of a run: the new record y is good too. *)

\* What every step of a run leaves alone: its task, and where it works.
Working == {"apply", "verify", "repair", "cycle"}

Stays(x, y) ==
    /\ y.task = x.task /\ y.pc # "new"
    /\ \/ x.pc = "worktree"
       \/ y.place = x.place /\ (y.pc \in Working => x.pc \in Working)

\* A transition of a run that has not been verified yet, from q to p.
Advance(q, s, p) ==
    \/ q = "intake" /\ s = "retrieving" /\ p = "retrieve"
    \/ q = "retrieve" /\ s = "reasoning" /\ p = "reason"
    \/ q = "reason" /\ s = "patching" /\ p = "patch"
    \/ q \in {"retrieve", "reason", "patch", "verify"} /\ s = "failed" /\ p = "return"

LEMMA AdvanceKeeps ==
    ASSUME NEW x \in RunRecords, NEW a, NEW w, Good(x, a, w), NEW s, NEW p,
           Advance(x.pc, s, p), NEW y, y = [x EXCEPT !.sm = s, !.state = s, !.pc = p]
    PROVE  y \in RunRecords /\ Stays(x, y) /\ Good(y, a, w)
<1>0. Stays(x, y)
  BY DEF Stays, Working, RunRecords, Advance
<1>1. /\ y.sm = s /\ y.state = s /\ y.pc = p
      /\ y.repair = x.repair /\ y.decision = x.decision /\ y.attempts = x.attempts
  BY DEF RunRecords
<1>2. s \in States /\ p \in Places
  BY DEF Advance, States, Places
<1>3. y \in RunRecords
  BY <1>2, Setters, Zenon
<1>4. x.repair = "none" /\ x.decision = None /\ x.attempts = 0 /\ a = None
  BY DEF Advance, Good, OnCourse, Bounded, Recorded, Beginning
<1>5. OnCourse(y)
  BY <1>1, <1>4, OutcomeNames DEF Advance, OnCourse, Beginning, Deciding
<1>6. Bounded(y)
  BY <1>1, <1>4, PipelineAssumption DEF Advance, Bounded, Beginning, Most
<1>7. Recorded(y, a, w)
  BY <1>1, <1>4, OutcomeNames DEF Advance, Recorded, Good, Deciding
<1> QED
  BY <1>0, <1>3, <1>5, <1>6, <1>7 DEF Good

LEMMA IntakeFails ==
    ASSUME NEW x \in RunRecords, NEW a, NEW w, Good(x, a, w), x.pc = "intake",
           NEW y, y = [x EXCEPT !.state = "failed", !.pc = "return"]
    PROVE  y \in RunRecords /\ Stays(x, y) /\ Good(y, a, w)
<1>0. Stays(x, y)
  BY DEF Stays, Working, RunRecords
<1>1. /\ y.state = "failed" /\ y.pc = "return"
      /\ y.repair = x.repair /\ y.decision = x.decision /\ y.attempts = x.attempts
  BY DEF RunRecords
<1>2. "failed" \in States /\ "return" \in Places
  BY DEF States, Places
<1>3. y \in RunRecords
  BY <1>2, Setters, Zenon
<1>4. x.repair = "none" /\ x.decision = None /\ x.attempts = 0 /\ a = None
  BY DEF Good, OnCourse, Bounded, Recorded, Beginning
<1>5. OnCourse(y)
  BY <1>1, <1>4, OutcomeNames DEF OnCourse, Beginning, Deciding
<1>6. Bounded(y)
  BY <1>1, <1>4, PipelineAssumption DEF Bounded, Beginning, Most
<1>7. Recorded(y, a, w)
  BY <1>1, <1>4, OutcomeNames DEF Recorded, Good, Deciding
<1> QED
  BY <1>0, <1>3, <1>5, <1>6, <1>7 DEF Good

LEMMA CreateKeeps ==
    ASSUME NEW x \in RunRecords, NEW a, NEW w, Good(x, a, w), x.pc = "new", NEW t \in Tasks,
           NEW y, y = [x EXCEPT !.pc = "intake", !.task = t]
    PROVE  y \in RunRecords /\ Good(y, a, "intake")
<1>1. /\ y.pc = "intake" /\ y.sm = x.sm /\ y.state = x.state
      /\ y.repair = x.repair /\ y.decision = x.decision /\ y.attempts = x.attempts
  BY DEF RunRecords
<1>2. "intake" \in Places
  BY DEF Places
<1>3. y \in RunRecords
  BY <1>2, Setters, Zenon
<1>4. OnCourse(y) /\ Bounded(y)
  BY <1>1 DEF Good, OnCourse, Bounded, Beginning, Deciding
<1>5. Recorded(y, a, "intake")
  BY <1>1, OutcomeNames DEF Recorded, Good, Deciding
<1> QED
  BY <1>3, <1>4, <1>5 DEF Good

LEMMA MakePatchKeeps ==
    ASSUME NEW x \in RunRecords, NEW a, NEW w, Good(x, a, w), x.pc = "patch",
           NEW d \in {"change", "empty"}, NEW y,
           y = [[x EXCEPT !.sm = "verifying", !.state = "verifying", !.pc = "worktree"]
                   EXCEPT !.diff = d, !.attempt = 1]
    PROVE  y \in RunRecords /\ Stays(x, y) /\ Good(y, a, w)
<1>0. Stays(x, y)
  BY DEF Stays, Working, RunRecords
<1>1. /\ y.sm = "verifying" /\ y.state = "verifying" /\ y.pc = "worktree" /\ y.attempt = 1
      /\ y.repair = x.repair /\ y.decision = x.decision /\ y.attempts = x.attempts
  BY DEF RunRecords
<1>2. "verifying" \in States /\ "worktree" \in Places /\ 1 \in 0..(MaxAttempts + 1)
  BY PipelineAssumption DEF States, Places
<1>3. y \in RunRecords
  BY <1>2, Setters, Zenon
<1>4. OnCourse(y) /\ Bounded(y)
  BY <1>1 DEF Good, OnCourse, Bounded, Beginning, Deciding
<1>5. Recorded(y, a, w)
  BY <1>1 DEF Recorded, Good, Deciding
<1> QED
  BY <1>0, <1>3, <1>4, <1>5 DEF Good

\* Making the worktree and applying the patch.
LEMMA WorktreeKeeps ==
    ASSUME NEW x \in RunRecords, NEW a, NEW w, Good(x, a, w), NEW y,
           \/ x.pc = "worktree" /\ \E v \in {"repo", "worktree"} :
                 y = [x EXCEPT !.place = v, !.pc = "apply"]
           \/ x.pc = "apply" /\ y = [x EXCEPT !.pc = "verify"]
    PROVE  y \in RunRecords /\ Stays(x, y) /\ Good(y, a, w)
<1>0. Stays(x, y)
  BY DEF Stays, Working, RunRecords
<1>1. /\ y.pc \in {"apply", "verify"} /\ y.sm = x.sm /\ y.state = x.state
      /\ y.attempt = x.attempt
      /\ y.repair = x.repair /\ y.decision = x.decision /\ y.attempts = x.attempts
  BY DEF RunRecords
<1>2. {"apply", "verify"} \subseteq Places
  BY DEF Places
<1>3. y \in RunRecords
  <2>1. CASE \E v \in {"repo", "worktree"} : y = [x EXCEPT !.place = v, !.pc = "apply"]
    <3>1. PICK v \in {"repo", "worktree"} : y = [x EXCEPT !.place = v, !.pc = "apply"]
      BY <2>1
    <3> QED
      BY <1>2, <3>1, Setters, Zenon
  <2>2. CASE y = [x EXCEPT !.pc = "verify"]
    BY <1>2, <2>2, Setters, Zenon
  <2> QED
    BY <2>1, <2>2
<1>4. OnCourse(y) /\ Bounded(y)
  BY <1>1 DEF Good, OnCourse, Bounded, Beginning, Deciding
<1>5. Recorded(y, a, w)
  BY <1>1 DEF Recorded, Good, Deciding
<1> QED
  BY <1>0, <1>3, <1>4, <1>5 DEF Good

\* The transition after the first verification.
Judge(rep, s, p) ==
    /\ rep.attempt = 1
    /\ \/ rep.passed /\ s = "reviewing" /\ p = "review"
       \/ ~rep.passed /\ s = "revising" /\ p = "repair"

AfterVerify(x, rep, s, p) ==
    [[x EXCEPT !.sm = s, !.state = s, !.pc = p]
        EXCEPT !.report = rep, !.last = rep, !.attempts = 1]

LEMMA VerifyKeeps ==
    ASSUME NEW x \in RunRecords, NEW a, NEW w, Good(x, a, w), x.pc = "verify",
           NEW rep \in Reports, NEW s, NEW p, Judge(rep, s, p),
           NEW y, y = AfterVerify(x, rep, s, p)
    PROVE  y \in RunRecords /\ Stays(x, y) /\ Good(y, a, w)
<1>0. Stays(x, y)
  BY DEF Stays, Working, RunRecords, Judge, AfterVerify
<1>1. /\ y.sm = s /\ y.state = s /\ y.pc = p /\ y.report = rep /\ y.last = rep
      /\ y.attempts = 1 /\ y.attempt = x.attempt
      /\ y.repair = x.repair /\ y.decision = x.decision
  BY DEF RunRecords, AfterVerify
<1>2. s \in States /\ p \in Places /\ 1 \in 0..(MaxAttempts + 1)
  BY PipelineAssumption DEF Judge, States, Places
<1>3. y \in RunRecords
  BY <1>2, Setters, Zenon DEF AfterVerify
<1>4. /\ x.repair = "none" /\ x.decision = None /\ a = None /\ w \notin Outcomes
      /\ x.attempt = 1
  BY OutcomeNames DEF Good, OnCourse, Bounded, Recorded, Beginning
<1>5. OnCourse(y)
  BY <1>1, <1>4 DEF Judge, OnCourse, Beginning, Deciding
<1>6. Bounded(y)
  BY <1>1, <1>4, PipelineAssumption DEF Judge, Bounded, Beginning, Most
<1>7. Judged(y)
  BY <1>1, <1>4, OutcomeNames DEF Judge, Judged
<1>8. Recorded(y, a, w)
  BY <1>1, <1>4, <1>7 DEF Judge, Recorded
<1> QED
  BY <1>0, <1>3, <1>5, <1>6, <1>8 DEF Good

\* A passing attempt of the repair.
AfterAdoption(x, rep) ==
    [x EXCEPT !.attempts = rep.attempt, !.last = rep, !.report = rep, !.attempt = rep.attempt,
              !.diff = "empty", !.repair = "succeeded", !.pc = "cycle"]

LEMMA AdoptKeeps ==
    ASSUME NEW x \in RunRecords, NEW a, NEW w, Good(x, a, w), x.pc = "repair",
           x.attempts < MaxAttempts,
           NEW rep \in Reports, rep.attempt = x.attempts + 1, rep.passed,
           NEW y, y = AfterAdoption(x, rep)
    PROVE  y \in RunRecords /\ Stays(x, y) /\ Good(y, a, w)
<1>0. Stays(x, y)
  BY DEF Stays, Working, RunRecords, AfterAdoption
<1>1. /\ y.pc = "cycle" /\ y.report = rep /\ y.last = rep /\ y.repair = "succeeded"
      /\ y.attempts = rep.attempt /\ y.attempt = rep.attempt
      /\ y.sm = x.sm /\ y.state = x.state /\ y.decision = x.decision
  BY DEF RunRecords, AfterAdoption
<1>2. x.attempts \in Nat /\ rep.attempt \in 0..(MaxAttempts + 1) /\ "cycle" \in Places
  BY PipelineAssumption DEF RunRecords, Places
<1>3. y \in RunRecords
  BY <1>2, Setters, Zenon DEF AfterAdoption
<1>4. /\ x.decision = None /\ x.state = x.sm /\ x.sm = "revising" /\ a = None
      /\ w \notin Outcomes
  BY OutcomeNames DEF Good, OnCourse, Recorded
<1>5. OnCourse(y)
  BY <1>1, <1>4 DEF OnCourse, Beginning, Deciding
<1>6. Bounded(y)
  BY <1>1, <1>2, PipelineAssumption DEF Bounded, Beginning, Most
<1>7. Judged(y)
  BY <1>1, <1>4, OutcomeNames DEF Judged
<1>8. Recorded(y, a, w)
  BY <1>1, <1>4, <1>7 DEF Recorded
<1> QED
  BY <1>0, <1>3, <1>5, <1>6, <1>8 DEF Good

\* A failing one.
AfterFailure(x, rep) == [x EXCEPT !.attempts = x.attempts + 1, !.last = rep]

LEMMA FailureKeeps ==
    ASSUME NEW x \in RunRecords, NEW a, NEW w, Good(x, a, w), x.pc = "repair",
           x.attempts < MaxAttempts, NEW rep \in Reports, ~rep.passed,
           NEW y, y = AfterFailure(x, rep)
    PROVE  y \in RunRecords /\ Stays(x, y) /\ Good(y, a, w)
<1>0. Stays(x, y)
  BY DEF Stays, Working, RunRecords, AfterFailure
<1>1. /\ y.pc = x.pc /\ y.report = x.report /\ y.last = rep /\ y.repair = x.repair
      /\ y.attempts = x.attempts + 1 /\ y.attempt = x.attempt
      /\ y.sm = x.sm /\ y.state = x.state /\ y.decision = x.decision
  BY DEF RunRecords, AfterFailure
<1>2. x.attempts \in Nat /\ x.attempts + 1 \in 0..(MaxAttempts + 1)
  BY PipelineAssumption DEF RunRecords
<1>3. y \in RunRecords
  BY <1>2, Setters, Zenon DEF AfterFailure
<1>4. OnCourse(y)
  BY <1>1 DEF Good, OnCourse, Beginning, Deciding
<1>5. Bounded(y)
  BY <1>1, <1>2, PipelineAssumption DEF Good, Bounded, Beginning, Most
<1>6. Recorded(y, a, w)
  BY <1>1 DEF Good, Recorded, Judged, Deciding
<1> QED
  BY <1>0, <1>3, <1>4, <1>5, <1>6 DEF Good

LEMMA ExhaustedKeeps ==
    ASSUME NEW x \in RunRecords, NEW a, NEW w, Good(x, a, w), x.pc = "repair",
           ~(x.attempts < MaxAttempts),
           NEW y, y = [x EXCEPT !.repair = "exhausted", !.pc = "cycle"]
    PROVE  y \in RunRecords /\ Stays(x, y) /\ Good(y, a, w)
<1>0. Stays(x, y)
  BY DEF Stays, Working, RunRecords
<1>1. /\ y.pc = "cycle" /\ y.report = x.report /\ y.last = x.last /\ y.repair = "exhausted"
      /\ y.attempts = x.attempts /\ y.attempt = x.attempt
      /\ y.sm = x.sm /\ y.state = x.state /\ y.decision = x.decision
  BY DEF RunRecords
<1>2. x.attempts \in Nat /\ "cycle" \in Places
  BY PipelineAssumption DEF RunRecords, Places
<1>3. y \in RunRecords
  BY <1>2, Setters, Zenon
<1>4. OnCourse(y)
  BY <1>1 DEF Good, OnCourse, Beginning, Deciding
<1>5. Bounded(y)
  BY <1>1, <1>2, PipelineAssumption DEF Good, Bounded, Beginning, Most
<1>6. Recorded(y, a, w)
  BY <1>1 DEF Good, Recorded, Judged, Deciding
<1> QED
  BY <1>0, <1>3, <1>4, <1>5, <1>6 DEF Good

LEMMA RaiseKeeps ==
    ASSUME NEW x \in RunRecords, NEW a, NEW w, Good(x, a, w), x.pc = "repair", NEW y,
           y = [[x EXCEPT !.sm = "failed", !.state = "failed", !.pc = "review"]
                   EXCEPT !.repair = "raised"]
    PROVE  y \in RunRecords /\ Stays(x, y) /\ Good(y, a, w)
<1>0. Stays(x, y)
  BY DEF Stays, Working, RunRecords
<1>1. /\ y.pc = "review" /\ y.report = x.report /\ y.last = x.last /\ y.repair = "raised"
      /\ y.attempts = x.attempts /\ y.attempt = x.attempt
      /\ y.sm = "failed" /\ y.state = "failed" /\ y.decision = x.decision
  BY DEF RunRecords
<1>2. "failed" \in States /\ "review" \in Places
  BY DEF States, Places
<1>3. y \in RunRecords
  BY <1>2, Setters, Zenon
<1>4. OnCourse(y)
  BY <1>1 DEF Good, OnCourse, Beginning, Deciding
<1>5. Bounded(y)
  BY <1>1 DEF Good, Bounded, Beginning
<1>6. Recorded(y, a, w)
  BY <1>1 DEF Good, Recorded, Judged, Deciding
<1> QED
  BY <1>0, <1>3, <1>4, <1>5, <1>6 DEF Good

\* Through the cycle of states after the repair.
Turn(s, p) ==
    \/ s \in {"reasoning", "patching", "verifying"} /\ p = "cycle"
    \/ s = "reviewing" /\ p = "review"

LEMMA CycleKeeps ==
    ASSUME NEW x \in RunRecords, NEW a, NEW w, Good(x, a, w), x.pc = "cycle", NEW s, NEW p,
           Turn(s, p),
           NEW y, y = [x EXCEPT !.sm = s, !.state = s, !.pc = p]
    PROVE  y \in RunRecords /\ Stays(x, y) /\ Good(y, a, w)
<1>0. Stays(x, y)
  BY DEF Stays, Working, RunRecords, Turn
<1>1. /\ y.pc = p /\ y.report = x.report /\ y.last = x.last /\ y.repair = x.repair
      /\ y.attempts = x.attempts /\ y.attempt = x.attempt
      /\ y.sm = s /\ y.state = s /\ y.decision = x.decision
  BY DEF RunRecords
<1>2. s \in States /\ p \in Places
  BY DEF Turn, States, Places
<1>3. y \in RunRecords
  BY <1>2, Setters, Zenon
<1>4. OnCourse(y)
  BY <1>1 DEF Turn, Good, OnCourse, Beginning, Deciding
<1>5. Bounded(y)
  BY <1>1 DEF Turn, Good, Bounded, Beginning
<1>6. Recorded(y, a, w)
  BY <1>1 DEF Turn, Good, Recorded, Judged, Deciding
<1> QED
  BY <1>0, <1>3, <1>4, <1>5, <1>6 DEF Good

\* The review raises; only a state machine that has failed already refuses.
LEMMA ReviewRaises ==
    ASSUME NEW x \in RunRecords, NEW a, NEW w, Good(x, a, w), x.pc = "review", NEW y,
           \/ y = [x EXCEPT !.sm = "failed", !.state = "failed", !.pc = "decide"]
           \/ x.sm # "reviewing" /\ y = [x EXCEPT !.pc = "raised"]
    PROVE  y \in RunRecords /\ Stays(x, y) /\ Good(y, a, w)
<1>0. Stays(x, y)
  BY DEF Stays, Working, RunRecords
<1>1. /\ y.report = x.report /\ y.last = x.last /\ y.repair = x.repair
      /\ y.attempts = x.attempts /\ y.attempt = x.attempt /\ y.decision = x.decision
      /\ \/ y.pc = "decide" /\ y.state = "failed" /\ y.sm = "failed"
         \/ y.pc = "raised" /\ y.state = x.state /\ x.sm # "reviewing"
  BY DEF RunRecords
<1>2. "failed" \in States /\ "decide" \in Places /\ "raised" \in Ended
  BY DEF States, Places, Ended
<1>3. y \in RunRecords
  <2>1. CASE y = [x EXCEPT !.sm = "failed", !.state = "failed", !.pc = "decide"]
    BY <1>2, <2>1, Setters, Zenon
  <2>2. CASE y = [x EXCEPT !.pc = "raised"]
    BY <1>2, <2>2, Setters, Zenon
  <2> QED
    BY <2>1, <2>2
<1>4. OnCourse(y)
  BY <1>1, OutcomeNames DEF Good, OnCourse, Beginning, Deciding
<1>5. Bounded(y)
  BY <1>1 DEF Good, Bounded, Beginning
<1>6. Recorded(y, a, w)
  BY <1>1 DEF Good, Recorded, Judged, Deciding
<1> QED
  BY <1>0, <1>3, <1>4, <1>5, <1>6 DEF Good

\* The review decides.
LEMMA VerdictKeeps ==
    ASSUME NEW x \in RunRecords, NEW a, NEW w, Good(x, a, w), x.pc = "review",
           NEW d \in Outcomes,
           d = "verified" => x.report.passed, d = "rejected" => ~x.report.passed,
           NEW y, y = [x EXCEPT !.decision = d, !.pc = "decide"]
    PROVE  y \in RunRecords /\ Stays(x, y) /\ Good(y, a, w)
<1>0. Stays(x, y)
  BY DEF Stays, Working, RunRecords
<1>1. /\ y.report = x.report /\ y.last = x.last /\ y.repair = x.repair
      /\ y.attempts = x.attempts /\ y.attempt = x.attempt /\ y.decision = d
      /\ y.pc = "decide" /\ y.state = x.state /\ y.sm = x.sm
  BY DEF RunRecords
<1>2. "decide" \in Places
  BY DEF Places
<1>3. y \in RunRecords
  BY <1>2, Setters, Zenon
<1>4. OnCourse(y)
  BY <1>1, OutcomeNames DEF Good, OnCourse, Beginning, Deciding
<1>5. Bounded(y)
  BY <1>1 DEF Good, Bounded, Beginning
<1>6. Judged(y)
  BY <1>1 DEF Good, Recorded, Judged
<1>7. Recorded(y, a, w)
  BY <1>1, <1>6 DEF Good, Recorded, Deciding
<1> QED
  BY <1>0, <1>3, <1>4, <1>5, <1>7 DEF Good

\* Saving the decision and the row, before the final state is set.
LEMMA SaveKeeps ==
    ASSUME NEW x \in RunRecords, NEW a, NEW w, Good(x, a, w), NEW y, NEW v,
           \/ x.pc = "decide" /\ v = w /\ y = [x EXCEPT !.pc = "save"]
           \/ x.pc = "save" /\ v = x.state /\ y = [x EXCEPT !.pc = "conclude"]
    PROVE  y \in RunRecords /\ Stays(x, y) /\ Good(y, a, v)
<1>0. Stays(x, y)
  BY DEF Stays, Working, RunRecords
<1>1. /\ y.report = x.report /\ y.last = x.last /\ y.repair = x.repair
      /\ y.attempts = x.attempts /\ y.attempt = x.attempt /\ y.decision = x.decision
      /\ y.pc \in {"save", "conclude"} /\ y.state = x.state /\ y.sm = x.sm
  BY DEF RunRecords
<1>2. {"save", "conclude"} \subseteq Places
  BY DEF Places
<1>3. y \in RunRecords
  <2>1. CASE y = [x EXCEPT !.pc = "save"]
    BY <1>2, <2>1, Setters, Zenon
  <2>2. CASE y = [x EXCEPT !.pc = "conclude"]
    BY <1>2, <2>2, Setters, Zenon
  <2> QED
    BY <2>1, <2>2
<1>4. OnCourse(y)
  BY <1>1 DEF Good, OnCourse, Beginning, Deciding
<1>5. Bounded(y)
  BY <1>1 DEF Good, Bounded, Beginning
<1>6. Recorded(y, a, v)
  BY <1>1, OutcomeNames DEF Good, OnCourse, Recorded, Judged, Deciding
<1> QED
  BY <1>0, <1>3, <1>4, <1>5, <1>6 DEF Good

\* The final state is set and announced.
LEMMA ConcludeKeeps ==
    ASSUME NEW x \in RunRecords, NEW a, NEW w, Good(x, a, w), x.pc = "conclude",
           NEW d, d = IF x.decision = None THEN "needs_review" ELSE x.decision,
           NEW y, y = [x EXCEPT !.state = d, !.pc = "cleanup"]
    PROVE  y \in RunRecords /\ Stays(x, y) /\ d \in Outcomes /\ Good(y, d, w)
<1>0. Stays(x, y)
  BY DEF Stays, Working, RunRecords
<1>1. /\ y.report = x.report /\ y.last = x.last /\ y.repair = x.repair
      /\ y.attempts = x.attempts /\ y.attempt = x.attempt /\ y.decision = x.decision
      /\ y.pc = "cleanup" /\ y.state = d
  BY DEF RunRecords
<1>2. d \in Outcomes
  BY OutcomeNames DEF RunRecords
<1>3. d \in States /\ "cleanup" \in Places
  BY <1>2, OutcomeNames DEF States, Places
<1>4. y \in RunRecords
  BY <1>3, Setters, Zenon
<1>5. OnCourse(y)
  BY <1>1 DEF Good, OnCourse, Beginning, Deciding
<1>6. Bounded(y)
  BY <1>1 DEF Good, Bounded, Beginning
<1>7. Judged(y)
  BY <1>1 DEF Good, Recorded, Judged, Deciding
<1>8. w \notin Outcomes
  BY OutcomeNames DEF Good, Recorded
<1>9. Recorded(y, d, w)
  BY <1>1, <1>2, <1>7, <1>8, OutcomeNames DEF Recorded
<1> QED
  BY <1>0, <1>2, <1>4, <1>5, <1>6, <1>9 DEF Good

LEMMA CleanupKeeps ==
    ASSUME NEW x \in RunRecords, NEW a, NEW w, Good(x, a, w), x.pc = "cleanup",
           NEW y, y = [x EXCEPT !.pc = "return"]
    PROVE  y \in RunRecords /\ Stays(x, y) /\ Good(y, a, w)
<1>0. Stays(x, y)
  BY DEF Stays, Working, RunRecords
<1>1. /\ y.report = x.report /\ y.last = x.last /\ y.repair = x.repair
      /\ y.attempts = x.attempts /\ y.attempt = x.attempt /\ y.decision = x.decision
      /\ y.pc = "return" /\ y.state = x.state
  BY DEF RunRecords
<1>2. "return" \in Places
  BY DEF Places
<1>3. y \in RunRecords
  BY <1>2, Setters, Zenon
<1>4. OnCourse(y) /\ Bounded(y)
  BY <1>1 DEF Good, OnCourse, Bounded, Beginning, Deciding
<1>5. Recorded(y, a, w)
  BY <1>1 DEF Good, Recorded, Judged, Deciding
<1> QED
  BY <1>0, <1>3, <1>4, <1>5 DEF Good

LEMMA ReturnKeeps ==
    ASSUME NEW x \in RunRecords, NEW a, NEW w, Good(x, a, w), x.pc = "return",
           NEW y, y = [x EXCEPT !.pc = "done"]
    PROVE  y \in RunRecords /\ Stays(x, y) /\ Good(y, a, x.state)
<1>0. Stays(x, y)
  BY DEF Stays, Working, RunRecords
<1>1. /\ y.report = x.report /\ y.last = x.last /\ y.repair = x.repair
      /\ y.attempts = x.attempts /\ y.attempt = x.attempt /\ y.decision = x.decision
      /\ y.pc = "done" /\ y.state = x.state
  BY DEF RunRecords
<1>2. "done" \in Ended
  BY DEF Ended
<1>3. y \in RunRecords
  BY <1>2, Setters, Zenon
<1>4. OnCourse(y) /\ Bounded(y)
  BY <1>1 DEF Good, OnCourse, Bounded, Beginning, Deciding
<1>5. Recorded(y, a, x.state)
  BY <1>1 DEF Good, Recorded, Judged, Deciding
<1> QED
  BY <1>0, <1>3, <1>4, <1>5 DEF Good

LEMMA CrashKeeps ==
    ASSUME NEW x \in RunRecords, NEW a, NEW w, Good(x, a, w),
           x.pc \notin Ended \union {"new"},
           NEW y, y = [x EXCEPT !.pc = "crashed"]
    PROVE  y \in RunRecords /\ Stays(x, y) /\ Good(y, a, w)
<1>0. Stays(x, y)
  BY DEF Stays, Working, RunRecords
<1>1. /\ y.report = x.report /\ y.last = x.last /\ y.repair = x.repair
      /\ y.attempts = x.attempts /\ y.attempt = x.attempt /\ y.decision = x.decision
      /\ y.pc = "crashed" /\ y.state = x.state
  BY DEF RunRecords
<1>2. "crashed" \in Ended
  BY DEF Ended
<1>3. y \in RunRecords
  BY <1>2, Setters, Zenon
<1>4. OnCourse(y) /\ Bounded(y)
  BY <1>1 DEF Good, OnCourse, Bounded, Beginning, Deciding
<1>5. Recorded(y, a, w)
  BY <1>1 DEF Good, Recorded, Judged, Deciding
<1> QED
  BY <1>0, <1>3, <1>4, <1>5 DEF Good

-----------------------------------------------------------------------------
(* The invariant is inductive: the run that takes a step, ...              *)

LEMMA Typed == ASSUME Inv, NEW r \in Runs
               PROVE  run[r] \in RunRecords /\ Good(run[r], announced[r], row[r])
BY DEF Inv, TypeOK, RunRecords

LEMMA ReportIsReport ==
    ASSUME Inv, NEW r \in Runs, run[r].pc # "new", NEW n \in 1..(MaxAttempts + 1),
           NEW passed \in BOOLEAN
    PROVE  /\ Report(r, n, passed) \in Reports
           /\ Report(r, n, passed).attempt = n /\ Report(r, n, passed).passed = passed
<1>1. Tree(r) \subseteq Patches
  BY DEF Tree, Inv, TypeOK, Separate
<1> QED
  BY <1>1 DEF Report, Reports

LEMMA StageKeepsOwn ==
    ASSUME Inv, NEW r \in Runs, Create(r) \/ Stage(r)
    PROVE  /\ run'[r] \in RunRecords /\ Good(run'[r], announced'[r], row'[r])
           /\ Create(r) \/ Stays(run[r], run'[r])
<1>1. run[r] \in RunRecords /\ Good(run[r], announced[r], row[r])
  BY Typed
<1>2. run \in [Runs -> RunRecords] /\ row \in [Runs -> States \union {None}]
      /\ announced \in [Runs -> Outcomes \union {None}]
  BY DEF Inv, TypeOK, RunRecords
<1>3. OnCourse(run[r])
  BY <1>1 DEF Good
<1>4. CASE Create(r)
  <2>1. PICK t \in Tasks : run' = [run EXCEPT ![r].pc = "intake", ![r].task = t]
    BY <1>4 DEF Create
  <2>2. run'[r] = [run[r] EXCEPT !.pc = "intake", !.task = t]
    BY <1>2, <2>1
  <2>3. run[r].pc = "new" /\ announced'[r] = announced[r] /\ row'[r] = "intake"
    BY <1>2, <1>4 DEF Create
  <2>4. run'[r] \in RunRecords /\ Good(run'[r], announced[r], "intake")
    BY <1>1, <2>2, <2>3, CreateKeeps, Zenon
  <2> QED
    BY <1>4, <2>3, <2>4
<1>5. CASE Intake(r)
  <2>1. run[r].pc = "intake" /\ announced'[r] = announced[r] /\ row'[r] = row[r]
    BY <1>5 DEF Intake, stored
  <2>2. Moved(r, "retrieving", "retrieve") =
            [run[r] EXCEPT !.sm = "retrieving", !.state = "retrieving", !.pc = "retrieve"]
    BY <1>3, <2>1, Moves DEF OnCourse, Moved
  <2>3. \/ run'[r] = [run[r] EXCEPT !.sm = "retrieving", !.state = "retrieving", !.pc = "retrieve"]
        \/ run'[r] = [run[r] EXCEPT !.state = "failed", !.pc = "return"]
    BY <1>2, <1>5, <2>2 DEF Intake, Transit
  <2>4. run[r].pc = "intake" /\ Advance(run[r].pc, "retrieving", "retrieve")
    BY <2>1 DEF Advance
  <2>5. run'[r] \in RunRecords /\ Stays(run[r], run'[r]) /\ Good(run'[r], announced[r], row[r])
    BY <1>1, <2>3, <2>4, AdvanceKeeps, IntakeFails, Zenon
  <2> QED
    BY <2>1, <2>5
<1>6. CASE Verify(r)
  <2>1. run[r].pc = "verify" /\ announced'[r] = announced[r] /\ row'[r] = row[r]
        /\ run[r].sm = "verifying"
    BY <1>3, <1>6 DEF Verify, stored, OnCourse
  <2>2. CASE Transit(r, "failed", "return")
    <3>1. Moved(r, "failed", "return") =
             [run[r] EXCEPT !.sm = "failed", !.state = "failed", !.pc = "return"]
      BY <2>1, Moves DEF Moved
    <3>2. run'[r] = [run[r] EXCEPT !.sm = "failed", !.state = "failed", !.pc = "return"]
      BY <1>2, <2>2, <3>1 DEF Transit
    <3>3. Advance(run[r].pc, "failed", "return")
      BY <2>1 DEF Advance
    <3>4. run'[r] \in RunRecords /\ Stays(run[r], run'[r]) /\ Good(run'[r], announced[r], row[r])
      BY <1>1, <3>2, <3>3, AdvanceKeeps, Zenon
    <3> QED
      BY <2>1, <3>4
  <2>3. CASE ~Transit(r, "failed", "return")
    <3>1. PICK passed \in BOOLEAN :
             run' = [run EXCEPT ![r] = [IF passed THEN Moved(r, "reviewing", "review")
                                        ELSE Moved(r, "revising", "repair")
                                           EXCEPT !.report = Report(r, 1, passed),
                                                  !.last = Report(r, 1, passed),
                                                  !.attempts = 1]]
      BY <1>6, <2>3 DEF Verify
    <3>2. Moved(r, "reviewing", "review") =
             [run[r] EXCEPT !.sm = "reviewing", !.state = "reviewing", !.pc = "review"]
      BY <2>1, Moves DEF Moved
    <3>3. Moved(r, "revising", "repair") =
             [run[r] EXCEPT !.sm = "revising", !.state = "revising", !.pc = "repair"]
      BY <2>1, Moves DEF Moved
    <3>4. Report(r, 1, passed) \in Reports /\ Report(r, 1, passed).attempt = 1
          /\ Report(r, 1, passed).passed = passed
      BY <2>1, ReportIsReport, PipelineAssumption
    <3>5. CASE passed
      <4>1. run'[r] = AfterVerify(run[r], Report(r, 1, passed), "reviewing", "review")
        BY <1>2, <3>1, <3>2, <3>5 DEF AfterVerify
      <4>2. Judge(Report(r, 1, passed), "reviewing", "review")
        BY <3>4, <3>5 DEF Judge
      <4>3. run'[r] \in RunRecords /\ Stays(run[r], run'[r]) /\ Good(run'[r], announced[r], row[r])
        BY <1>1, <2>1, <3>4, <4>1, <4>2, VerifyKeeps
      <4> QED
        BY <2>1, <4>3
    <3>6. CASE ~passed
      <4>1. run'[r] = AfterVerify(run[r], Report(r, 1, passed), "revising", "repair")
        BY <1>2, <3>1, <3>3, <3>6 DEF AfterVerify
      <4>2. Judge(Report(r, 1, passed), "revising", "repair")
        BY <3>4, <3>6 DEF Judge
      <4>3. run'[r] \in RunRecords /\ Stays(run[r], run'[r]) /\ Good(run'[r], announced[r], row[r])
        BY <1>1, <2>1, <3>4, <4>1, <4>2, VerifyKeeps
      <4> QED
        BY <2>1, <4>3
    <3> QED
      BY <3>5, <3>6
  <2> QED
    BY <2>2, <2>3
<1>7. CASE Retrieve(r)
  <2>1. /\ run[r].pc = "retrieve" /\ run[r].sm = "retrieving"
        /\ announced'[r] = announced[r] /\ row'[r] = row[r]
    BY <1>3, <1>7 DEF Retrieve, stored, OnCourse
  <2>2. /\ Moved(r, "reasoning", "reason") =
              [run[r] EXCEPT !.sm = "reasoning", !.state = "reasoning", !.pc = "reason"]
        /\ Moved(r, "failed", "return") =
              [run[r] EXCEPT !.sm = "failed", !.state = "failed", !.pc = "return"]
    BY <2>1, Moves DEF Moved
  <2>3. \/ run'[r] = [run[r] EXCEPT !.sm = "reasoning", !.state = "reasoning", !.pc = "reason"]
        \/ run'[r] = [run[r] EXCEPT !.sm = "failed", !.state = "failed", !.pc = "return"]
    BY <1>2, <1>7, <2>2 DEF Retrieve, Transit
  <2>4. Advance(run[r].pc, "reasoning", "reason") /\ Advance(run[r].pc, "failed", "return")
    BY <2>1 DEF Advance
  <2>5. run'[r] \in RunRecords /\ Stays(run[r], run'[r]) /\ Good(run'[r], announced[r], row[r])
    BY <1>1, <2>3, <2>4, AdvanceKeeps, Zenon
  <2> QED
    BY <2>1, <2>5
<1>8. CASE Reason(r)
  <2>1. /\ run[r].pc = "reason" /\ run[r].sm = "reasoning"
        /\ announced'[r] = announced[r] /\ row'[r] = row[r]
    BY <1>3, <1>8 DEF Reason, stored, OnCourse
  <2>2. /\ Moved(r, "patching", "patch") =
              [run[r] EXCEPT !.sm = "patching", !.state = "patching", !.pc = "patch"]
        /\ Moved(r, "failed", "return") =
              [run[r] EXCEPT !.sm = "failed", !.state = "failed", !.pc = "return"]
    BY <2>1, Moves DEF Moved
  <2>3. \/ run'[r] = [run[r] EXCEPT !.sm = "patching", !.state = "patching", !.pc = "patch"]
        \/ run'[r] = [run[r] EXCEPT !.sm = "failed", !.state = "failed", !.pc = "return"]
    BY <1>2, <1>8, <2>2 DEF Reason, Transit
  <2>4. Advance(run[r].pc, "patching", "patch") /\ Advance(run[r].pc, "failed", "return")
    BY <2>1 DEF Advance
  <2>5. run'[r] \in RunRecords /\ Stays(run[r], run'[r]) /\ Good(run'[r], announced[r], row[r])
    BY <1>1, <2>3, <2>4, AdvanceKeeps, Zenon
  <2> QED
    BY <2>1, <2>5
<1>9. CASE MakePatch(r)
  <2>1. /\ run[r].pc = "patch" /\ run[r].sm = "patching"
        /\ announced'[r] = announced[r] /\ row'[r] = row[r]
    BY <1>3, <1>9 DEF MakePatch, stored, OnCourse
  <2>2. /\ Moved(r, "failed", "return") =
              [run[r] EXCEPT !.sm = "failed", !.state = "failed", !.pc = "return"]
        /\ Moved(r, "verifying", "worktree") =
              [run[r] EXCEPT !.sm = "verifying", !.state = "verifying", !.pc = "worktree"]
    BY <2>1, Moves DEF Moved
  <2>3. CASE Transit(r, "failed", "return")
    <3>1. run'[r] = [run[r] EXCEPT !.sm = "failed", !.state = "failed", !.pc = "return"]
      BY <1>2, <2>2, <2>3 DEF Transit
    <3>2. Advance(run[r].pc, "failed", "return")
      BY <2>1 DEF Advance
    <3>3. run'[r] \in RunRecords /\ Stays(run[r], run'[r]) /\ Good(run'[r], announced[r], row[r])
      BY <1>1, <3>1, <3>2, AdvanceKeeps, Zenon
    <3> QED
      BY <2>1, <3>3
  <2>4. CASE ~Transit(r, "failed", "return")
    <3>1. PICK d \in {"change", "empty"} :
             run' = [run EXCEPT ![r] = [Moved(r, "verifying", "worktree")
                                           EXCEPT !.diff = d, !.attempt = 1]]
      BY <1>9, <2>4 DEF MakePatch
    <3>2. run'[r] = [[run[r] EXCEPT !.sm = "verifying", !.state = "verifying", !.pc = "worktree"]
                        EXCEPT !.diff = d, !.attempt = 1]
      BY <1>2, <2>2, <3>1
    <3>3. run'[r] \in RunRecords /\ Stays(run[r], run'[r]) /\ Good(run'[r], announced[r], row[r])
      BY <1>1, <2>1, <3>2, MakePatchKeeps, Zenon
    <3> QED
      BY <2>1, <3>3
  <2> QED
    BY <2>3, <2>4
<1>10. CASE MakeWorktree(r) \/ Apply(r)
  <2>1. announced'[r] = announced[r] /\ row'[r] = row[r]
    BY <1>10 DEF MakeWorktree, Apply, stored
  <2>2. \/ run[r].pc = "worktree" /\ \E v \in {"repo", "worktree"} :
              run'[r] = [run[r] EXCEPT !.place = v, !.pc = "apply"]
        \/ run[r].pc = "apply" /\ run'[r] = [run[r] EXCEPT !.pc = "verify"]
    BY <1>2, <1>10 DEF MakeWorktree, Apply
  <2>3. run'[r] \in RunRecords /\ Stays(run[r], run'[r]) /\ Good(run'[r], announced[r], row[r])
    BY <1>1, <2>2, WorktreeKeeps, Zenon
  <2> QED
    BY <2>1, <2>3
<1>11. CASE RepairAttempt(r)
  <2>1. /\ run[r].pc = "repair" /\ run[r].attempts < MaxAttempts
        /\ announced'[r] = announced[r] /\ row'[r] = row[r]
    BY <1>11 DEF RepairAttempt, AttemptsLeft, stored
  <2>2. /\ run[r].attempts \in Nat /\ MaxAttempts \in Nat
        /\ run[r].attempts + 1 \in 1..(MaxAttempts + 1)
    BY <1>1, <2>1, PipelineAssumption DEF RunRecords
  <2>3. CASE AdoptRepair(r, run[r].attempts + 1)
    <3> DEFINE rep == Report(r, run[r].attempts + 1, TRUE)
    <3>1. rep \in Reports /\ rep.attempt = run[r].attempts + 1 /\ rep.passed
      BY <2>1, <2>2, ReportIsReport
    <3>2. run'[r] = AfterAdoption(run[r], rep)
      BY <1>2, <2>3, <3>1 DEF AdoptRepair, AfterAdoption
    <3> HIDE DEF rep
    <3>3. run'[r] \in RunRecords /\ Stays(run[r], run'[r]) /\ Good(run'[r], announced[r], row[r])
      BY <1>1, <2>1, <3>1, <3>2, AdoptKeeps
    <3> QED
      BY <2>1, <3>3
  <2>4. CASE RecordFailure(r, run[r].attempts + 1)
    <3> DEFINE rep == Report(r, run[r].attempts + 1, FALSE)
    <3>1. rep \in Reports /\ ~rep.passed
      BY <2>1, <2>2, ReportIsReport
    <3>2. run'[r] = AfterFailure(run[r], rep)
      BY <1>2, <2>4 DEF RecordFailure, AfterFailure
    <3> HIDE DEF rep
    <3>3. run'[r] \in RunRecords /\ Stays(run[r], run'[r]) /\ Good(run'[r], announced[r], row[r])
      BY <1>1, <2>1, <3>1, <3>2, FailureKeeps
    <3> QED
      BY <2>1, <3>3
  <2> QED
    BY <1>11, <2>3, <2>4 DEF RepairAttempt
<1>12. CASE RepairExhausted(r)
  <2>1. /\ run[r].pc = "repair" /\ ~(run[r].attempts < MaxAttempts)
        /\ announced'[r] = announced[r] /\ row'[r] = row[r]
    BY <1>12 DEF RepairExhausted, AttemptsLeft, stored
  <2>2. run'[r] = [run[r] EXCEPT !.repair = "exhausted", !.pc = "cycle"]
    BY <1>2, <1>12 DEF RepairExhausted
  <2>3. run'[r] \in RunRecords /\ Stays(run[r], run'[r]) /\ Good(run'[r], announced[r], row[r])
    BY <1>1, <2>1, <2>2, ExhaustedKeeps, Zenon
  <2> QED
    BY <2>1, <2>3
<1>13. CASE RepairRaises(r)
  <2>1. /\ run[r].pc = "repair" /\ run[r].sm = "revising"
        /\ announced'[r] = announced[r] /\ row'[r] = row[r]
    BY <1>3, <1>13 DEF RepairRaises, stored, OnCourse
  <2>2. Moved(r, "failed", "review") =
            [run[r] EXCEPT !.sm = "failed", !.state = "failed", !.pc = "review"]
    BY <2>1, Moves DEF Moved
  <2>3. run'[r] = [[run[r] EXCEPT !.sm = "failed", !.state = "failed", !.pc = "review"]
                      EXCEPT !.repair = "raised"]
    BY <1>2, <1>13, <2>2 DEF RepairRaises
  <2>4. run'[r] \in RunRecords /\ Stays(run[r], run'[r]) /\ Good(run'[r], announced[r], row[r])
    BY <1>1, <2>1, <2>3, RaiseKeeps, Zenon
  <2> QED
    BY <2>1, <2>4
<1>14. CASE Cycle(r)
  <2>1. /\ run[r].pc = "cycle"
        /\ run[r].sm \in {"revising", "reasoning", "patching", "verifying"}
        /\ announced'[r] = announced[r] /\ row'[r] = row[r]
    BY <1>3, <1>14 DEF Cycle, stored, OnCourse
  <2> DEFINE s == CycleNext[run[r].sm]
             p == IF s = "reviewing" THEN "review" ELSE "cycle"
  <2>2. Turn(s, p) /\ s \in Lifecycle!Targets[run[r].sm]
    BY <2>1, Moves DEF Turn, CycleNext
  <2>3. Transit(r, s, p)
    BY <1>14 DEF Cycle
  <2> HIDE DEF s, p
  <2>4. Moved(r, s, p) = [run[r] EXCEPT !.sm = s, !.state = s, !.pc = p]
    BY <2>2 DEF Moved
  <2>5. run'[r] = [run[r] EXCEPT !.sm = s, !.state = s, !.pc = p]
    BY <1>2, <2>3, <2>4 DEF Transit
  <2>6. run[r].pc = "cycle" /\ Turn(s, p)
    BY <2>1, <2>2
  <2>7. run'[r] \in RunRecords /\ Stays(run[r], run'[r]) /\ Good(run'[r], announced[r], row[r])
    BY <1>1, <2>5, <2>6, CycleKeeps, Zenon
  <2> QED
    BY <2>1, <2>7
<1>15. CASE Review(r)
  <2>1. run[r].pc = "review" /\ announced'[r] = announced[r] /\ row'[r] = row[r]
    BY <1>15 DEF Review, stored
  <2>2. CASE Transit(r, "failed", "decide")
    <3>1. \/ Moved(r, "failed", "decide") =
                [run[r] EXCEPT !.sm = "failed", !.state = "failed", !.pc = "decide"]
          \/ run[r].sm # "reviewing"
             /\ Moved(r, "failed", "decide") = [run[r] EXCEPT !.pc = "raised"]
      BY Moves DEF Moved
    <3>2. \/ run'[r] = [run[r] EXCEPT !.sm = "failed", !.state = "failed", !.pc = "decide"]
          \/ run[r].sm # "reviewing" /\ run'[r] = [run[r] EXCEPT !.pc = "raised"]
      BY <1>2, <2>2, <3>1 DEF Transit
    <3>3. run'[r] \in RunRecords /\ Stays(run[r], run'[r]) /\ Good(run'[r], announced[r], row[r])
      BY <1>1, <2>1, <3>2, ReviewRaises, Zenon
    <3> QED
      BY <2>1, <3>3
  <2>3. CASE ~Transit(r, "failed", "decide")
    <3>1. PICK other \in {"none", "major", "blocker"} :
             run' = [run EXCEPT ![r].decision = Verdict(r, Worst(r, other)), ![r].pc = "decide"]
      BY <1>15, <2>3 DEF Review
    <3> DEFINE d == Verdict(r, Worst(r, other))
    <3>2. /\ d \in Outcomes
          /\ d = "verified" => run[r].report.passed
          /\ d = "rejected" => ~run[r].report.passed
      BY OutcomeNames DEF Verdict
    <3>3. run'[r] = [run[r] EXCEPT !.decision = d, !.pc = "decide"]
      BY <1>2, <3>1
    <3> HIDE DEF d
    <3>4. run'[r] \in RunRecords /\ Stays(run[r], run'[r]) /\ Good(run'[r], announced[r], row[r])
      BY <1>1, <2>1, <3>2, <3>3, VerdictKeeps, Zenon
    <3> QED
      BY <2>1, <3>4
  <2> QED
    BY <2>2, <2>3
<1>16. CASE SaveDecision(r) \/ SaveRun(r)
  <2>1. /\ announced'[r] = announced[r]
        /\ \/ /\ run[r].pc = "decide" /\ row'[r] = row[r]
              /\ run'[r] = [run[r] EXCEPT !.pc = "save"]
           \/ /\ run[r].pc = "save" /\ row'[r] = run[r].state
              /\ run'[r] = [run[r] EXCEPT !.pc = "conclude"]
    BY <1>2, <1>16 DEF SaveDecision, SaveRun
  <2>2. run'[r] \in RunRecords /\ Stays(run[r], run'[r]) /\ Good(run'[r], announced[r], row'[r])
    BY <1>1, <2>1, SaveKeeps, Zenon
  <2> QED
    BY <2>1, <2>2
<1>17. CASE Conclude(r)
  <2>1. /\ run[r].pc = "conclude" /\ announced'[r] = Outcome(r) /\ row'[r] = row[r]
        /\ run'[r] = [run[r] EXCEPT !.state = Outcome(r), !.pc = "cleanup"]
    BY <1>2, <1>17 DEF Conclude
  <2>2. Outcome(r) = IF run[r].decision = None THEN "needs_review" ELSE run[r].decision
    BY DEF Outcome
  <2>3. run'[r] \in RunRecords /\ Stays(run[r], run'[r]) /\ Good(run'[r], Outcome(r), row[r])
    BY <1>1, <2>1, <2>2, ConcludeKeeps, Zenon
  <2> QED
    BY <2>1, <2>3
<1>18. CASE Cleanup(r)
  <2>1. /\ run[r].pc = "cleanup" /\ announced'[r] = announced[r] /\ row'[r] = row[r]
        /\ run'[r] = [run[r] EXCEPT !.pc = "return"]
    BY <1>2, <1>18 DEF Cleanup, stored
  <2>2. run'[r] \in RunRecords /\ Stays(run[r], run'[r]) /\ Good(run'[r], announced[r], row[r])
    BY <1>1, <2>1, CleanupKeeps, Zenon
  <2> QED
    BY <2>1, <2>2
<1>19. CASE Return(r)
  <2>1. /\ run[r].pc = "return" /\ announced'[r] = announced[r] /\ row'[r] = run[r].state
        /\ run'[r] = [run[r] EXCEPT !.pc = "done"]
    BY <1>2, <1>19 DEF Return
  <2>2. run'[r] \in RunRecords /\ Stays(run[r], run'[r]) /\ Good(run'[r], announced[r], run[r].state)
    BY <1>1, <2>1, ReturnKeeps, Zenon
  <2> QED
    BY <2>1, <2>2
<1> QED
  BY <1>4, <1>5, <1>6, <1>7, <1>8, <1>9, <1>10, <1>11, <1>12, <1>13, <1>14, <1>15, <1>16,
     <1>17, <1>18, <1>19 DEF Stage

\* ... the other runs, ...
LEMMA StageKeepsOthers ==
    ASSUME Inv, NEW r \in Runs, Create(r) \/ Stage(r)
    PROVE  /\ \A q \in Runs \ {r} :
                 run'[q] = run[q] /\ announced'[q] = announced[q] /\ row'[q] = row[q]
           /\ run' = [run EXCEPT ![r] = run'[r]]
<1>1. run \in [Runs -> RunRecords] /\ row \in [Runs -> States \union {None}]
      /\ announced \in [Runs -> Outcomes \union {None}]
  BY DEF Inv, TypeOK, RunRecords
<1>2. \E v : run' = [run EXCEPT ![r] = v]
  <2>1. CASE Create(r) \/ Intake(r) \/ Retrieve(r) \/ Reason(r) \/ MakePatch(r)
    BY <2>1, Zenon DEF Create, Intake, Retrieve, Reason, MakePatch, Transit
  <2>2. CASE MakeWorktree(r) \/ Apply(r) \/ Verify(r) \/ RepairAttempt(r)
    BY <2>2, Zenon DEF MakeWorktree, Apply, Verify, RepairAttempt, AdoptRepair, RecordFailure,
           Transit
  <2>3. CASE RepairExhausted(r) \/ RepairRaises(r) \/ Cycle(r) \/ Review(r) \/ SaveDecision(r)
    BY <2>3, Zenon DEF RepairExhausted, RepairRaises, Cycle, Review, SaveDecision, Transit
  <2>4. CASE SaveRun(r) \/ Conclude(r) \/ Cleanup(r) \/ Return(r)
    BY <2>4, Zenon DEF SaveRun, Conclude, Cleanup, Return
  <2> QED
    BY <2>1, <2>2, <2>3, <2>4 DEF Stage
<1>3. run' = [run EXCEPT ![r] = run'[r]] /\ \A q \in Runs \ {r} : run'[q] = run[q]
  BY <1>1, <1>2
<1>4. \A q \in Runs \ {r} : announced'[q] = announced[q]
  BY <1>1 DEF Create, Stage, Intake, Retrieve, Reason, MakePatch, MakeWorktree, Apply, Verify,
         RepairAttempt, RepairExhausted, RepairRaises, Cycle, Review, SaveDecision, SaveRun,
         Conclude, Cleanup, Return, stored
<1>5. \A q \in Runs \ {r} : row'[q] = row[q]
  BY <1>1 DEF Create, Stage, Intake, Retrieve, Reason, MakePatch, MakeWorktree, Apply, Verify,
         RepairAttempt, RepairExhausted, RepairRaises, Cycle, Review, SaveDecision, SaveRun,
         Conclude, Cleanup, Return, stored
<1> QED
  BY <1>3, <1>4, <1>5

\* ... the types, ...
LEMMA StageKeepsTypes ==
    ASSUME Inv, NEW r \in Runs, Create(r) \/ Stage(r)
    PROVE  TypeOK'
<1>1. run' \in [Runs -> RunRecords]
  BY StageKeepsOwn, StageKeepsOthers DEF Inv, TypeOK, RunRecords
<1>2. run[r] \in RunRecords /\ (run[r].pc # "new" => run[r].task \in Tasks)
  BY Typed DEF Inv, Separate
<1>3. run[r].state \in States /\ Outcome(r) \in Outcomes /\ Outcome(r) \in States
  BY <1>2, OutcomeNames DEF RunRecords, Outcome, States
<1>4. row' \in [Runs -> States \union {None}]
  <2>1. \E v \in States \union {None} : row' = [row EXCEPT ![r] = v] \/ row' = row
    BY <1>3 DEF Create, Stage, Intake, Retrieve, Reason, MakePatch, MakeWorktree, Apply, Verify,
         RepairAttempt, RepairExhausted, RepairRaises, Cycle, Review, SaveDecision, SaveRun,
         Conclude, Cleanup, Return, stored, States
  <2> QED
    BY <2>1 DEF Inv, TypeOK
<1>8. column' \in [Runs -> Outcomes \union {None}]
  <2>1. run[r].decision \in Outcomes \union {None}
    BY <1>2 DEF RunRecords
  <2>2. column' = column \/ column' = [column EXCEPT ![r] = run[r].decision]
    BY DEF Create, Stage, Intake, Retrieve, Reason, MakePatch, MakeWorktree, Apply, Verify,
         RepairAttempt, RepairExhausted, RepairRaises, Cycle, Review, SaveDecision, SaveRun,
         Conclude, Cleanup, Return, stored
  <2> QED
    BY <2>1, <2>2 DEF Inv, TypeOK
<1>5. announced' \in [Runs -> Outcomes \union {None}]
  <2>1. announced' = announced \/ announced' = [announced EXCEPT ![r] = Outcome(r)]
    BY DEF Create, Stage, Intake, Retrieve, Reason, MakePatch, MakeWorktree, Apply, Verify,
         RepairAttempt, RepairExhausted, RepairRaises, Cycle, Review, SaveDecision, SaveRun,
         Conclude, Cleanup, Return, stored
  <2> QED
    BY <1>3, <2>1 DEF Inv, TypeOK
<1>6. decisions' \in [Tasks -> [run : Runs, status : Outcomes] \union {None}]
  <2>1. CASE SaveDecision(r)
    <3>1. CASE run[r].decision = None
      BY <2>1, <3>1 DEF SaveDecision, Inv, TypeOK
    <3>2. CASE run[r].decision # None
      <4>1. [run |-> r, status |-> run[r].decision] \in [run : Runs, status : Outcomes]
        BY <1>2, <3>2 DEF RunRecords
      <4> QED
        BY <2>1, <3>2, <4>1 DEF SaveDecision, Inv, TypeOK
    <3> QED
      BY <3>1, <3>2
  <2>2. CASE ~SaveDecision(r)
    <3>1. decisions' = decisions
      BY <2>2 DEF Create, Stage, Intake, Retrieve, Reason, MakePatch, MakeWorktree, Apply, Verify,
         RepairAttempt, RepairExhausted, RepairRaises, Cycle, Review, SaveRun,
         Conclude, Cleanup, Return, stored
    <3> QED
      BY <3>1 DEF Inv, TypeOK
  <2> QED
    BY <2>1, <2>2
<1>7. /\ repo' \in SUBSET Patches
      /\ work' \in [Tasks -> {None} \union (SUBSET Patches)]
      /\ branches' \subseteq Tasks /\ worktrees' \subseteq Tasks
  <2>1. <<r, 1>> \in Patches
    BY PipelineAssumption DEF Patches
  <2>2. /\ repo \in SUBSET Patches
        /\ work \in [Tasks -> {None} \union (SUBSET Patches)]
        /\ branches \subseteq Tasks /\ worktrees \subseteq Tasks
    BY DEF Inv, TypeOK
  <2>3. CASE MakeWorktree(r)
    <3>1. run[r].task \in Tasks
      BY <1>2, <2>3 DEF MakeWorktree
    <3> QED
      BY <2>2, <2>3, <3>1 DEF MakeWorktree
  <2>4. CASE Apply(r)
    <3>1. run[r].task \in Tasks
      BY <1>2, <2>4 DEF Apply
    <3> QED
      BY <2>1, <2>2, <2>4, <3>1 DEF Apply
  <2>5. CASE Cleanup(r)
    BY <2>2, <2>5 DEF Cleanup
  <2>6. CASE ~(MakeWorktree(r) \/ Apply(r) \/ Cleanup(r))
    <3>1. UNCHANGED disk
      BY <2>6 DEF Create, Stage, Intake, Retrieve, Reason, MakePatch, Verify,
         RepairAttempt, RepairExhausted, RepairRaises, Cycle, Review, SaveDecision, SaveRun,
         Conclude, Return
    <3> QED
      BY <2>2, <3>1 DEF disk
  <2> QED
    BY <2>3, <2>4, <2>5, <2>6
<1> QED
  BY <1>1, <1>4, <1>5, <1>6, <1>7, <1>8 DEF TypeOK, RunRecords

\* ... and the worktrees.
LEMMA StageKeepsSeparate ==
    ASSUME Inv, NEW r \in Runs, Create(r) \/ Stage(r)
    PROVE  Separate'
<1>1. TypeOK /\ TypeOK' /\ Separate
  BY StageKeepsTypes DEF Inv
<1>2. \A q \in Runs \ {r} : run'[q] = run[q]
  BY StageKeepsOthers
<1>3. \A q \in Runs : run[q].pc # "new" => run'[q].pc # "new" /\ run'[q].task = run[q].task
  <2>1. Create(r) => run[r].pc = "new"
    BY DEF Create
  <2> QED
    BY <1>2, <2>1, StageKeepsOwn DEF Stays
<1>4. \A q \in Runs : run'[q].pc # "new" => run'[q].task \in Tasks
  <2>1. CASE Create(r)
    <3>1. run'[r].task \in Tasks
      BY <2>1, ZenonT(60) DEF Create, Inv, TypeOK
    <3> QED
      BY <1>1, <1>2, <3>1 DEF Separate
  <2>2. CASE Stage(r)
    <3>1. run[r].pc # "new"
      BY <2>2 DEF Stage, Intake, Retrieve, Reason, MakePatch, MakeWorktree, Apply, Verify,
         RepairAttempt, RepairExhausted, RepairRaises, Cycle, Review, SaveDecision, SaveRun,
         Conclude, Cleanup, Return
    <3> QED
      BY <1>1, <1>2, <1>3, <3>1 DEF Separate
  <2> QED
    BY <2>1, <2>2
<1>5. \A t \in Tasks : work'[t] # None => \A p \in work'[t] :
          run[p[1]].task = t /\ run[p[1]].pc # "new" /\ p[1] \in Runs
  <2>1. \A t \in Tasks : work[t] # None => \A p \in work[t] :
            run[p[1]].task = t /\ run[p[1]].pc # "new" /\ p[1] \in Runs
    BY <1>1 DEF Separate, TypeOK, Patches
  <2>2. CASE MakeWorktree(r)
    BY <1>1, <2>1, <2>2 DEF MakeWorktree, TypeOK
  <2>3. CASE Apply(r)
    BY <1>1, <2>1, <2>3 DEF Apply, TypeOK
  <2>4. CASE Cleanup(r)
    BY <1>1, <2>1, <2>4 DEF Cleanup, TypeOK
  <2>5. CASE ~(MakeWorktree(r) \/ Apply(r) \/ Cleanup(r))
    <3>1. work' = work
      BY <2>5 DEF Create, Stage, Intake, Retrieve, Reason, MakePatch, Verify,
         RepairAttempt, RepairExhausted, RepairRaises, Cycle, Review, SaveDecision, SaveRun,
         Conclude, Return, disk
    <3> QED
      BY <2>1, <3>1
  <2> QED
    BY <2>2, <2>3, <2>4, <2>5
<1>6. \A t \in Tasks : work'[t] # None => \A p \in work'[t] :
          run'[p[1]].task = t /\ run'[p[1]].pc # "new"
  BY <1>3, <1>5
<1>7. ASSUME NEW q \in Runs, run'[q].place = "worktree",
             run'[q].pc \in {"apply", "verify", "repair", "cycle"},
             \A p \in Runs \ {q} : run'[p].pc = "new" \/ run'[p].task # run'[q].task
      PROVE  work'[run'[q].task] # None
  <2>1. \A p \in Runs \ {q} : run[p].pc = "new" \/ run[p].task # run'[q].task
    BY <1>3, <1>7
  <2>2. run'[q].task \in Tasks
    BY <1>4, <1>7
  <2>3. CASE q # r
    <3>1. run[q] = run'[q] /\ work[run[q].task] # None
      BY <1>1, <1>2, <1>7, <2>1, <2>3 DEF Separate
    <3>2. run[r].pc = "new" \/ run[r].task # run[q].task
      BY <2>1, <2>3, <3>1
    <3>3. work'[run[q].task] = work[run[q].task]
      <4>1. CASE MakeWorktree(r) \/ Apply(r) \/ Cleanup(r)
        <5>1. run[r].task # run[q].task
          BY <3>2, <4>1 DEF MakeWorktree, Apply, Cleanup
        <5>2. work' = work \/ \E v : work' = [work EXCEPT ![run[r].task] = v]
          BY <4>1, Zenon DEF MakeWorktree, Apply, Cleanup
        <5> QED
          BY <1>1, <2>2, <3>1, <5>1, <5>2 DEF TypeOK
      <4>2. CASE ~(MakeWorktree(r) \/ Apply(r) \/ Cleanup(r))
        BY <4>2 DEF Create, Stage, Intake, Retrieve, Reason, MakePatch, Verify,
           RepairAttempt, RepairExhausted, RepairRaises, Cycle, Review, SaveDecision, SaveRun,
           Conclude, Return, disk
      <4> QED
        BY <4>1, <4>2
    <3> QED
      BY <3>1, <3>3
  <2>4. CASE q = r /\ Create(r)
    <3>1. run'[r].pc = "intake"
      <4>1. PICK t \in Tasks : run' = [run EXCEPT ![r].pc = "intake", ![r].task = t]
        BY <2>4 DEF Create
      <4>2. run[r] \in RunRecords /\ run \in [Runs -> RunRecords]
        BY Typed DEF Inv, TypeOK, RunRecords
      <4> QED
        BY <4>1, <4>2 DEF RunRecords
    <3> QED
      BY <1>7, <2>4, <3>1
  <2>5. CASE q = r /\ MakeWorktree(r)
    <3>1. run[r].task = run'[r].task
      BY <1>3, <2>5 DEF MakeWorktree
    <3>2. CASE work' = [work EXCEPT ![run[r].task] = {}]
      BY <1>1, <2>2, <2>5, <3>1, <3>2, NamesAssumption DEF TypeOK
    <3>3. CASE run' = [run EXCEPT ![r].place = "repo", ![r].pc = "apply"]
      <4>1. run[r] \in RunRecords /\ run \in [Runs -> RunRecords]
        BY Typed DEF Inv, TypeOK, RunRecords
      <4>2. run'[r].place = "repo"
        BY <3>3, <4>1 DEF RunRecords
      <4> QED
        BY <1>7, <2>5, <4>2
    <3> QED
      BY <2>5, <3>2, <3>3 DEF MakeWorktree
  <2>6. CASE q = r /\ ~Create(r) /\ ~MakeWorktree(r)
    <3>1. run[r].pc # "worktree" /\ run[r].pc # "new"
      BY <2>6 DEF Stage, Intake, Retrieve, Reason, MakePatch, Apply, Verify,
         RepairAttempt, RepairExhausted, RepairRaises, Cycle, Review, SaveDecision, SaveRun,
         Conclude, Cleanup, Return
    <3>2. run[r].pc \in Working /\ run[r].place = "worktree" /\ run[r].task = run'[r].task
      BY <1>7, <2>6, <3>1, StageKeepsOwn DEF Stays, Working
    <3>3. work[run[r].task] # None
      BY <1>1, <2>1, <2>6, <3>2 DEF Separate, Working
    <3>4. CASE Apply(r)
      <4>1. run[r].task \in Tasks /\ work[run[r].task] \in SUBSET Patches
        BY <1>1, <2>2, <2>6, <3>2, <3>3 DEF TypeOK
      <4>2. \/ work'[run[r].task] = work[run[r].task]
            \/ work'[run[r].task] = work[run[r].task] \union {<<r, 1>>}
        BY <1>1, <3>4, <4>1 DEF Apply, TypeOK
      <4>3. <<r, 1>> \in Patches
        BY PipelineAssumption DEF Patches
      <4>4. work'[run[r].task] \in SUBSET Patches
        BY <4>1, <4>2, <4>3
      <4> QED
        BY <2>6, <3>2, <4>4, NamesAssumption
    <3>5. CASE ~Apply(r)
      <4>1. work' = work
        BY <2>6, <3>2, <3>5 DEF Stage, Intake, Retrieve, Reason, MakePatch, Verify,
           RepairAttempt, RepairExhausted, RepairRaises, Cycle, Review, SaveDecision, SaveRun,
           Conclude, Cleanup, Return, disk, Working
      <4> QED
        BY <2>6, <3>2, <3>3, <4>1
    <3> QED
      BY <3>4, <3>5
  <2> QED
    BY <2>3, <2>4, <2>5, <2>6
<1> QED
  BY <1>4, <1>6, <1>7 DEF Separate

-----------------------------------------------------------------------------
(* The theorems.                                                           *)

LEMMA InitSound == Init => Inv
<1> SUFFICES ASSUME Init PROVE Inv
  OBVIOUS
<1>1. TypeOK
  <2>1. InitialRun \in RunRecords
    BY PipelineAssumption DEF InitialRun, RunRecords, Places, States
  <2> QED
    BY <2>1 DEF Init, TypeOK, RunRecords, States, Outcomes
<1>2. ASSUME NEW r \in Runs
      PROVE  Good(run[r], announced[r], row[r])
  BY OutcomeNames, PipelineAssumption DEF Init, InitialRun, Good, OnCourse, Bounded, Recorded,
     Beginning, Deciding, Most
<1>3. Separate
  BY DEF Init, InitialRun, Separate
<1> QED
  BY <1>1, <1>2, <1>3 DEF Inv

LEMMA CrashSound == Inv /\ Crash => Inv'
<1> SUFFICES ASSUME Inv, Crash PROVE Inv'
  OBVIOUS
<1>1. /\ run' = [r \in Runs |-> IF InPipeline(r) THEN [run[r] EXCEPT !.pc = "crashed"] ELSE run[r]]
      /\ worktrees' = {} /\ UNCHANGED <<repo, work, branches, stored>>
  BY DEF Crash
<1>2. ASSUME NEW r \in Runs
      PROVE  run'[r] \in RunRecords /\ Good(run'[r], announced[r], row[r])
  <2>1. run[r] \in RunRecords /\ Good(run[r], announced[r], row[r])
    BY Typed
  <2>2. CASE InPipeline(r)
    <3>1. run'[r] = [run[r] EXCEPT !.pc = "crashed"] /\ run[r].pc \notin Ended \union {"new"}
      BY <1>1, <2>2 DEF InPipeline
    <3> QED
      BY <2>1, <3>1, CrashKeeps, Zenon
  <2>3. CASE ~InPipeline(r)
    BY <1>1, <2>1, <2>3
  <2> QED
    BY <2>2, <2>3
<1>3. TypeOK'
  <2>1. run' \in [Runs -> RunRecords]
    BY <1>1, <1>2
  <2> QED
    BY <1>1, <2>1 DEF Inv, TypeOK, RunRecords, stored
<1>4. ASSUME NEW r \in Runs
      PROVE  /\ run'[r].task = run[r].task
             /\ run'[r].pc = "new" <=> run[r].pc = "new"
             /\ run'[r].pc \notin {"apply", "verify", "repair", "cycle"}
  <2>1. run[r] \in RunRecords
    BY Typed
  <2> QED
    BY <1>1, <2>1 DEF RunRecords, InPipeline, Ended
<1>5. Separate'
  BY <1>1, <1>3, <1>4 DEF Inv, Separate, TypeOK, Patches
<1> QED
  BY <1>1, <1>2, <1>3, <1>5 DEF Inv, stored

LEMMA NextSound == Inv /\ [Next]_vars => Inv'
<1>1. ASSUME Inv, NEW r \in Runs, Create(r) \/ Stage(r)
      PROVE  Inv'
  <2>1. \A q \in Runs : Good(run'[q], announced'[q], row'[q])
    BY <1>1, Typed, StageKeepsOwn, StageKeepsOthers
  <2> QED
    BY <1>1, <2>1, StageKeepsTypes, StageKeepsSeparate DEF Inv
<1>2. ASSUME Inv, UNCHANGED vars
      PROVE  Inv'
  BY <1>2 DEF vars, Inv, TypeOK, Separate
<1> QED
  BY <1>1, <1>2, CrashSound DEF Next

LEMMA Invariance == Spec => []Inv
<1> QED
  BY InitSound, NextSound, PTL DEF Spec

-----------------------------------------------------------------------------
(* The stored verdicts, on top of the invariant.                           *)

\* The steps that neither decide nor store anything.
Quiet(r) ==
    \/ Intake(r) \/ Retrieve(r) \/ Reason(r) \/ MakePatch(r)
    \/ MakeWorktree(r) \/ Apply(r) \/ Verify(r)
    \/ RepairAttempt(r) \/ RepairExhausted(r) \/ RepairRaises(r) \/ Cycle(r) \/ Cleanup(r)

LEMMA MovedKeeps ==
    ASSUME Inv, NEW r \in Runs, NEW s, NEW p
    PROVE  /\ Moved(r, s, p).decision = run[r].decision
           /\ Moved(r, s, p).pc \in {p, "raised"}
BY Typed DEF Moved, RunRecords

LEMMA QuietKeeps ==
    ASSUME Inv, NEW r \in Runs, Quiet(r)
    PROVE  /\ run'[r].decision = run[r].decision
           /\ run'[r].pc \notin {"conclude", "cleanup"}
           /\ run[r].pc \notin {"decide", "crashed"}
           /\ UNCHANGED stored
<1>1. run[r] \in RunRecords /\ run \in [Runs -> RunRecords]
  BY Typed DEF Inv, TypeOK, RunRecords
<1>2. run[r].pc \notin {"decide", "crashed"} /\ UNCHANGED stored
  BY DEF Quiet, Intake, Retrieve, Reason, MakePatch, MakeWorktree, Apply, Verify,
         RepairAttempt, RepairExhausted, RepairRaises, Cycle, Cleanup
<1> SUFFICES run'[r].decision = run[r].decision /\ run'[r].pc \notin {"conclude", "cleanup"}
  BY <1>2
<1>3. ASSUME NEW s, NEW p \in Places \ {"conclude", "cleanup"}, Transit(r, s, p)
      PROVE  run'[r].decision = run[r].decision /\ run'[r].pc \notin {"conclude", "cleanup"}
  <2>1. run'[r] = Moved(r, s, p)
    BY <1>1, <1>3 DEF Transit
  <2> QED
    BY <2>1, MovedKeeps
<1>4. CASE Intake(r)
  <2>1. CASE Transit(r, "retrieving", "retrieve")
    BY <1>3, <2>1 DEF Places
  <2>2. CASE run' = [run EXCEPT ![r].state = "failed", ![r].pc = "return"]
    BY <1>1, <2>2 DEF RunRecords
  <2> QED
    BY <1>4, <2>1, <2>2 DEF Intake
<1>5. CASE Retrieve(r) \/ Reason(r) \/ Cycle(r)
  BY <1>3, <1>5 DEF Retrieve, Reason, Cycle, Places
<1>6. CASE MakePatch(r)
  <2>1. CASE Transit(r, "failed", "return")
    BY <1>3, <2>1 DEF Places
  <2>2. CASE ~Transit(r, "failed", "return")
    <3>1. PICK d \in {"change", "empty"} :
             run'[r] = [Moved(r, "verifying", "worktree") EXCEPT !.diff = d, !.attempt = 1]
      BY <1>1, <1>6, <2>2 DEF MakePatch
    <3>2. /\ run'[r].decision = Moved(r, "verifying", "worktree").decision
          /\ run'[r].pc = Moved(r, "verifying", "worktree").pc
      BY <1>1, <3>1 DEF Moved, RunRecords
    <3> QED
      BY <3>2, MovedKeeps
  <2> QED
    BY <2>1, <2>2
<1>7. CASE Verify(r)
  <2>1. CASE Transit(r, "failed", "return")
    BY <1>3, <2>1 DEF Places
  <2>2. CASE ~Transit(r, "failed", "return")
    <3>1. PICK s \in {"reviewing", "revising"}, p \in {"review", "repair"}, passed \in BOOLEAN :
             run'[r] = [Moved(r, s, p) EXCEPT !.report = Report(r, 1, passed),
                                              !.last = Report(r, 1, passed), !.attempts = 1]
      BY <1>1, <1>7, <2>2 DEF Verify
    <3>2. run'[r].decision = Moved(r, s, p).decision /\ run'[r].pc = Moved(r, s, p).pc
      BY <1>1, <3>1 DEF Moved, RunRecords
    <3>3. Moved(r, s, p).decision = run[r].decision /\ Moved(r, s, p).pc \in {p, "raised"}
      BY MovedKeeps
    <3> QED
      BY <3>2, <3>3
  <2> QED
    BY <2>1, <2>2
<1>8. CASE RepairRaises(r)
  <2>1. run'[r] = [Moved(r, "failed", "review") EXCEPT !.repair = "raised"]
    BY <1>1, <1>8 DEF RepairRaises
  <2>2. /\ run'[r].decision = Moved(r, "failed", "review").decision
        /\ run'[r].pc = Moved(r, "failed", "review").pc
    BY <1>1, <2>1 DEF Moved, RunRecords
  <2> QED
    BY <2>2, MovedKeeps
<1>9. CASE RepairAttempt(r)
  <2> DEFINE n == run[r].attempts + 1
  <2>1. \/ run'[r] = [run[r] EXCEPT !.attempts = n, !.last = Report(r, n, TRUE),
                                    !.report = Report(r, n, TRUE), !.attempt = n,
                                    !.diff = "empty", !.repair = "succeeded", !.pc = "cycle"]
        \/ run'[r] = [run[r] EXCEPT !.attempts = n, !.last = Report(r, n, FALSE)]
    BY <1>1, <1>9, ZenonT(60) DEF RepairAttempt, AdoptRepair, RecordFailure
  <2>2. run[r].pc = "repair"
    BY <1>9 DEF RepairAttempt
  <2> QED
    BY <1>1, <2>1, <2>2 DEF RunRecords
<1>10. CASE RepairExhausted(r) \/ Cleanup(r)
  BY <1>1, <1>10 DEF RepairExhausted, Cleanup, RunRecords
<1>11. CASE MakeWorktree(r)
  <2>1. PICK l \in {"repo", "worktree"} : run' = [run EXCEPT ![r].place = l, ![r].pc = "apply"]
    BY <1>11 DEF MakeWorktree
  <2> QED
    BY <1>1, <2>1 DEF RunRecords
<1>12. CASE Apply(r)
  <2>1. run' = [run EXCEPT ![r].pc = "verify"]
    BY <1>12 DEF Apply
  <2> QED
    BY <1>1, <2>1 DEF RunRecords
<1> QED
  BY <1>4, <1>5, <1>6, <1>7, <1>8, <1>9, <1>10, <1>11, <1>12 DEF Quiet

\* A step of a run that keeps its verdict, its row's and the table's.
LEMMA SameVerdicts ==
    ASSUME Inv, Decided, NEW r \in Runs, Stays(run[r], run'[r]),
           \A q \in Runs \ {r} : run'[q] = run[q] /\ announced'[q] = announced[q],
           run'[r].decision = run[r].decision, column' = column, decisions' = decisions,
           announced'[r] = announced[r] \/ column[r] = run[r].decision,
           run'[r].pc \in {"conclude", "cleanup"} => run[r].pc = "conclude",
           run[r].pc \in {"decide", "crashed"} => run[r].decision = None
    PROVE  Decided'
<1>1. ASSUME NEW q \in Runs PROVE VerdictStored(q)'
  BY <1>1 DEF Decided, VerdictStored, Stays
<1>2. \A t \in Tasks : decisions[t] # None => decisions[t].run \in Runs
  BY DEF Inv, TypeOK
<1>3. \A q \in Runs : run'[q].decision = run[q].decision
  OBVIOUS
<1> QED
  BY <1>1, <1>2, <1>3 DEF Decided

\* The review decides, or raises.
LEMMA ReviewDecides ==
    ASSUME Inv, Decided, NEW r \in Runs, Review(r)
    PROVE  Decided'
<1>1. run[r] \in RunRecords /\ run \in [Runs -> RunRecords] /\ run[r].decision = None
      /\ run[r].pc = "review"
  BY Typed DEF Good, OnCourse, Inv, TypeOK, RunRecords, Review
<1>2. /\ \A q \in Runs \ {r} : run'[q] = run[q] /\ announced'[q] = announced[q]
      /\ Stays(run[r], run'[r])
  BY StageKeepsOthers, StageKeepsOwn DEF Stage, Review, Create
<1>3. column' = column /\ decisions' = decisions /\ announced' = announced
  BY DEF Review, stored
<1>4. announced[r] = None /\ column[r] = None
  BY <1>1, Typed DEF Good, Recorded, Decided, VerdictStored
<1>5. \A t \in Tasks : decisions[t] # None => decisions[t].run \in Runs \ {r}
  BY <1>1, OutcomeNames DEF Decided, Inv, TypeOK
<1>6. CASE Transit(r, "failed", "decide")
  <2>1. run'[r] = Moved(r, "failed", "decide")
    BY <1>1, <1>6 DEF Transit
  <2>2. run'[r].decision = None /\ run'[r].pc \in {"decide", "raised"}
    BY <1>1, <2>1, MovedKeeps
  <2> QED
    BY <1>1, <1>2, <1>3, <2>2, SameVerdicts
<1>7. CASE ~Transit(r, "failed", "decide")
  <2>1. PICK d : run' = [run EXCEPT ![r].decision = d, ![r].pc = "decide"]
    BY <1>7 DEF Review
  <2>2. run'[r].pc = "decide"
    BY <1>1, <2>1 DEF RunRecords
  <2>3. ASSUME NEW q \in Runs PROVE VerdictStored(q)'
    BY <1>2, <1>3, <1>4, <2>2 DEF Decided, VerdictStored
  <2> QED
    BY <1>2, <1>3, <1>5, <2>3 DEF Decided
<1> QED
  BY <1>6, <1>7

\* The verdict goes to the table, to the row and to whoever listens.
LEMMA SaveDecides ==
    ASSUME Inv, Decided, NEW r \in Runs, SaveDecision(r)
    PROVE  Decided'
<1>1. run[r] \in RunRecords /\ run \in [Runs -> RunRecords] /\ run[r].pc = "decide"
  BY Typed DEF Inv, TypeOK, RunRecords, SaveDecision
<1>2. /\ \A q \in Runs \ {r} : run'[q] = run[q]
      /\ Stays(run[r], run'[r])
  BY StageKeepsOthers, StageKeepsOwn DEF Stage, SaveDecision, Create
<1>3. column' = column /\ announced' = announced
  BY DEF SaveDecision
<1>4. run'[r].decision = run[r].decision /\ run'[r].pc = "save"
  BY <1>1 DEF SaveDecision, RunRecords
<1>5. CASE run[r].decision = None
  BY <1>1, <1>2, <1>3, <1>4, <1>5, SameVerdicts DEF SaveDecision
<1>6. CASE run[r].decision # None
  <2> DEFINE t == run[r].task
  <2>1. t \in Tasks
    BY <1>1 DEF Inv, Separate
  <2>2. /\ decisions \in [Tasks -> [run : Runs, status : Outcomes] \union {None}]
        /\ decisions' = [decisions EXCEPT ![t] = [run |-> r, status |-> run[r].decision]]
    BY <1>6 DEF SaveDecision, Inv, TypeOK
  <2>3. /\ decisions'[t] = [run |-> r, status |-> run[r].decision]
        /\ \A u \in Tasks \ {t} : decisions'[u] = decisions[u]
    BY <2>1, <2>2
  <2>4. decisions'[t] # None
    <3>1. run[r].decision \in {"verified", "rejected", "needs_review"}
      BY <1>1, <1>6, OutcomeNames DEF RunRecords
    <3> QED
      BY <2>3, <3>1, NamesAssumption
  <2>5. \A q \in Runs : run'[q].task = run[q].task /\ run'[q].decision = run[q].decision
    BY <1>2, <1>4 DEF Stays
  <2>6. ASSUME NEW q \in Runs, run[q].pc # "new" PROVE VerdictStored(q)'
    <3>1. run[q].task \in Tasks
      BY <2>6 DEF Inv, Separate
    <3> QED
      BY <1>1, <1>2, <1>3, <1>4, <2>3, <2>4, <2>5, <3>1 DEF Decided, VerdictStored
  <2>7. ASSUME NEW q \in Runs, run[q].pc = "new" PROVE VerdictStored(q)'
    <3>1. run[q].decision = None /\ q # r
      BY <1>1, <2>7, Typed DEF Good, OnCourse, Beginning
    <3> QED
      BY <1>2, <1>3, <3>1 DEF Decided, VerdictStored
  <2>8. \A u \in Tasks : decisions'[u] # None => decisions'[u].status = run'[decisions'[u].run].decision
    <3>1. \A u \in Tasks : decisions[u] # None => decisions[u].run \in Runs
      BY <2>2
    <3> QED
      BY <2>3, <2>5, <3>1 DEF Decided
  <2> QED
    BY <2>6, <2>7, <2>8 DEF Decided
<1> QED
  BY <1>5, <1>6

LEMMA SaveShows ==
    ASSUME Inv, Decided, NEW r \in Runs, SaveRun(r) \/ Return(r)
    PROVE  Decided'
<1>1. /\ run[r] \in RunRecords /\ run \in [Runs -> RunRecords]
      /\ column \in [Runs -> Outcomes \union {None}]
      /\ run[r].pc \in {"save", "return"}
  BY Typed DEF Inv, TypeOK, RunRecords, SaveRun, Return
<1>2. /\ \A q \in Runs \ {r} : run'[q] = run[q]
      /\ Stays(run[r], run'[r])
  BY StageKeepsOthers, StageKeepsOwn DEF Stage, SaveRun, Return, Create
<1>3. /\ column' = [column EXCEPT ![r] = run[r].decision]
      /\ announced' = announced /\ decisions' = decisions
  BY DEF SaveRun, Return
<1>4. run'[r].decision = run[r].decision /\ run'[r].pc \in {"conclude", "done"}
  BY <1>1 DEF SaveRun, Return, RunRecords
<1>5. column'[r] = run[r].decision /\ \A q \in Runs \ {r} : column'[q] = column[q]
  BY <1>1, <1>3
<1>6. ASSUME NEW q \in Runs PROVE VerdictStored(q)'
  BY <1>1, <1>2, <1>3, <1>4, <1>5 DEF Decided, VerdictStored, Stays
<1>7. \A t \in Tasks : decisions[t] # None => decisions[t].run \in Runs
  BY DEF Inv, TypeOK
<1>8. \A q \in Runs : run'[q].decision = run[q].decision
  BY <1>2, <1>4
<1> QED
  BY <1>3, <1>6, <1>7, <1>8 DEF Decided

LEMMA StageDecides ==
    ASSUME Inv, Decided, NEW r \in Runs, Create(r) \/ Stage(r)
    PROVE  Decided'
<1>1. \A q \in Runs \ {r} : run'[q] = run[q] /\ announced'[q] = announced[q]
  BY StageKeepsOthers
<1>2. run[r] \in RunRecords /\ run \in [Runs -> RunRecords]
  BY Typed DEF Inv, TypeOK, RunRecords
<1>3. CASE Create(r)
  <2>1. PICK t \in Tasks : run' = [run EXCEPT ![r].pc = "intake", ![r].task = t]
    BY <1>3 DEF Create
  <2>2. run'[r].decision = run[r].decision /\ run'[r].pc = "intake"
    BY <1>2, <2>1 DEF RunRecords
  <2>3. run[r].decision = None /\ announced[r] = None
    BY <1>3, Typed DEF Create, Good, OnCourse, Recorded, Beginning
  <2>4. column' = column /\ decisions' = decisions /\ announced' = announced
    BY <1>3 DEF Create
  <2>5. ASSUME NEW q \in Runs PROVE VerdictStored(q)'
    BY <1>1, <2>2, <2>3, <2>4 DEF Decided, VerdictStored
  <2>6. \A u \in Tasks : decisions[u] # None => decisions[u].run \in Runs
    BY DEF Inv, TypeOK
  <2>7. \A q \in Runs : run'[q].decision = run[q].decision
    BY <1>1, <2>2
  <2> QED
    BY <2>4, <2>5, <2>6, <2>7 DEF Decided
<1>4. CASE Quiet(r)
  <2>1. Stays(run[r], run'[r])
    BY <1>4, StageKeepsOwn DEF Stays, Stage, Quiet, Create, Intake, Retrieve, Reason, MakePatch,
       MakeWorktree, Apply, Verify, RepairAttempt, RepairExhausted, RepairRaises, Cycle, Cleanup
  <2> QED
    BY <1>1, <1>4, <2>1, QuietKeeps, SameVerdicts DEF stored
<1>5. CASE Conclude(r)
  <2>1. run'[r].decision = run[r].decision /\ run[r].pc = "conclude"
        /\ column' = column /\ decisions' = decisions
    BY <1>2, <1>5 DEF Conclude, RunRecords
  <2>2. Stays(run[r], run'[r])
    BY <2>1, StageKeepsOwn DEF Create
  <2>3. column[r] = run[r].decision
    BY <2>1 DEF Decided, VerdictStored
  <2> QED
    BY <1>1, <2>1, <2>2, <2>3, SameVerdicts
<1> QED
  BY <1>3, <1>4, <1>5, ReviewDecides, SaveDecides, SaveShows DEF Stage, Quiet

LEMMA CrashDecides ==
    ASSUME Inv, Decided, Crash
    PROVE  Decided'
<1>1. ASSUME NEW q \in Runs
      PROVE  /\ run'[q].decision = run[q].decision /\ run'[q].task = run[q].task
             /\ run'[q].pc \in {run[q].pc, "crashed"}
  BY Typed DEF Crash, RunRecords
<1>2. column' = column /\ decisions' = decisions /\ announced' = announced
  BY DEF Crash, stored
<1>3. ASSUME NEW q \in Runs PROVE VerdictStored(q)'
  BY <1>1, <1>2 DEF Decided, VerdictStored
<1>4. \A t \in Tasks : decisions[t] # None => decisions[t].run \in Runs
  BY DEF Inv, TypeOK
<1> QED
  BY <1>1, <1>2, <1>3, <1>4 DEF Decided

LEMMA DecidedSound == Spec => []Decided
<1>1. Init => Decided
  BY DEF Init, InitialRun, Decided, VerdictStored
<1>2. Inv /\ Decided /\ [Next]_vars => Decided'
  <2>1. ASSUME Decided, UNCHANGED vars PROVE Decided'
    BY <2>1 DEF vars, Decided, VerdictStored
  <2> QED
    BY <2>1, StageDecides, CrashDecides DEF Next
<1> QED
  BY <1>1, <1>2, Invariance, PTL DEF Spec

\* What a reader of the store may rely on.
LEMMA VerdictsAgree ==
    ASSUME Inv, Decided
    PROVE  StoreAgrees
<1> SUFFICES ASSUME NEW r \in Runs
             PROVE  /\ row[r] \in Outcomes => announced[r] = row[r]
                    /\ announced[r] # None =>
                          announced[r] = IF column[r] = None THEN "needs_review" ELSE column[r]
                    /\ column[r] # None =>
                          LET d == decisions[run[r].task] IN
                             d # None /\ (d.run = r => d.status = column[r])
  BY DEF StoreAgrees
<1>1. Good(run[r], announced[r], row[r]) /\ VerdictStored(r)
  BY DEF Inv, Decided
<1>2. column[r] # None => run[r].pc # "new"
  BY <1>1 DEF VerdictStored, Good, OnCourse, Beginning
<1>3. column[r] # None => run[r].task \in Tasks
  BY <1>2 DEF Inv, Separate
<1> QED
  BY <1>1, <1>3 DEF Good, Recorded, VerdictStored, Decided

\* The parts of the invariant that a reader of the pipeline relies on.
LEMMA Consequences ==
    ASSUME Inv
    PROVE  /\ OutcomeFollowsEvidence /\ RaisesOnlyAfterDoubleFault
           /\ RepairBounded /\ WorktreeIntact
<1>1. \A r \in Runs : Good(run[r], announced[r], row[r])
  BY DEF Inv
<1>2. OutcomeFollowsEvidence
  BY <1>1, OutcomeNames DEF OutcomeFollowsEvidence, Good, Recorded, Judged
<1>3. RaisesOnlyAfterDoubleFault
  BY <1>1 DEF RaisesOnlyAfterDoubleFault, Good, OnCourse
<1>5. RepairBounded
  BY <1>1 DEF RepairBounded, Good, Bounded, Most
<1>6. WorktreeIntact
  <2> SUFFICES ASSUME NEW r \in Runs, run[r].place = "worktree",
                      run[r].pc \in {"apply", "verify", "repair", "cycle"},
                      \A q \in Runs \ {r} : run[q].task # run[r].task
               PROVE  /\ work[run[r].task] # None
                      /\ \A p \in Tree(r) : p[1] = r
    BY DEF WorktreeIntact
  <2>1. run[r].task \in Tasks /\ work[run[r].task] # None
    BY DEF Inv, Separate
  <2>2. \A p \in work[run[r].task] : p[1] \in Runs /\ run[p[1]].task = run[r].task
    BY <2>1 DEF Inv, Separate, TypeOK, Patches
  <2> QED
    BY <2>1, <2>2 DEF Tree
<1> QED
  BY <1>2, <1>3, <1>5, <1>6

\* Whatever the runs do and whenever the process dies, every variable keeps its type.
THEOREM TypeCorrect == Spec => []TypeOK
<1>1. Inv => TypeOK
  BY DEF Inv
<1> QED
  BY <1>1, Invariance, PTL

\* The outcome a run announces (_stage_review and the end of Orchestrator.run) rests on
\* the report of the patch it returns, for any number of repair attempts.
THEOREM OutcomesFollowEvidence == Spec => []OutcomeFollowsEvidence
<1>1. Inv => OutcomeFollowsEvidence
  BY Consequences
<1> QED
  BY <1>1, Invariance, PTL

\* The state machine refuses a transition only to a run whose repair raised before
\* its review did.
THEOREM RaisesAreDoubleFaults == Spec => []RaisesOnlyAfterDoubleFault
<1>1. Inv => RaisesOnlyAfterDoubleFault
  BY Consequences
<1> QED
  BY <1>1, Invariance, PTL

\* The rows of save_run, the table of save_final_decision and the run_complete event tell
\* one story, also after a crash between any two of them.
THEOREM StoreAgreesWithRuns == Spec => []StoreAgrees
<1>1. Inv /\ Decided => StoreAgrees
  BY VerdictsAgree
<1> QED
  BY <1>1, Invariance, DecidedSound, PTL

\* RepairLoop.run makes at most max_repair_attempts attempts, the first one included.
THEOREM RepairIsBounded == Spec => []RepairBounded
<1>1. Inv => RepairBounded
  BY Consequences
<1> QED
  BY <1>1, Invariance, PTL

\* No number of other runs of other tasks disturbs the worktree a run works in.
THEOREM WorktreesStayIntact == Spec => []WorktreeIntact
<1>1. Inv => WorktreeIntact
  BY Consequences
<1> QED
  BY <1>1, Invariance, PTL

-----------------------------------------------------------------------------
(* The refinement of the life cycle.                                         *)

\* The state FollowsLifecycleUnlessFailed shows of a run.
Shown(x) == IF x.sm = "failed" THEN "failed" ELSE x.state

Follows(x, y) == Shown(y) = Shown(x) \/ Shown(y) \in Ideal!Targets[Shown(x)]

\* sm.transition moves along the table or, raising, not at all.
LEMMA MovedFollows ==
    ASSUME Inv, NEW r \in Runs, run[r].state = run[r].sm, NEW s, NEW p,
           NEW y, y.sm = Moved(r, s, p).sm, y.state = Moved(r, s, p).state
    PROVE  Follows(run[r], y)
<1>1. run[r] \in RunRecords
  BY Typed
<1>2. CASE s \in Lifecycle!Targets[run[r].sm]
  <2>1. y.sm = s /\ y.state = s
    BY <1>1, <1>2 DEF Moved, RunRecords
  <2>2. Shown(y) = s /\ Shown(run[r]) = run[r].sm
    BY <2>1 DEF Shown
  <2> QED
    BY <1>2, <2>2 DEF Follows, Lifecycle!Targets, Ideal!Targets
<1>3. CASE s \notin Lifecycle!Targets[run[r].sm]
  <2>1. y.sm = run[r].sm /\ y.state = run[r].state
    BY <1>1, <1>3 DEF Moved, RunRecords
  <2> QED
    BY <2>1 DEF Follows, Shown
<1> QED
  BY <1>2, <1>3

LEMMA StageFollows ==
    ASSUME Inv, NEW r \in Runs, Create(r) \/ Stage(r)
    PROVE  Follows(run[r], run'[r])
<1>1. run[r] \in RunRecords /\ OnCourse(run[r])
  BY Typed DEF Good
<1>2. run \in [Runs -> RunRecords]
  BY DEF Inv, TypeOK, RunRecords
<1>3. ASSUME NEW s, NEW p, run[r].pc \in Beginning \union {"repair", "cycle", "review"},
             run'[r].sm = Moved(r, s, p).sm, run'[r].state = Moved(r, s, p).state
      PROVE  Follows(run[r], run'[r])
  <2>1. run[r].state = run[r].sm
    BY <1>1, <1>3 DEF OnCourse
  <2>2. PICK y : y = run'[r]
    OBVIOUS
  <2>3. Follows(run[r], y)
    BY <1>3, <2>1, <2>2, MovedFollows
  <2> QED
    BY <2>2, <2>3
<1>4. ASSUME run'[r].sm = run[r].sm, run'[r].state = run[r].state
      PROVE  Follows(run[r], run'[r])
  BY <1>4 DEF Follows, Shown
<1>5. ASSUME NEW s, NEW p, Transit(r, s, p),
             run[r].pc \in Beginning \union {"repair", "cycle", "review"}
      PROVE  Follows(run[r], run'[r])
  BY <1>2, <1>3, <1>5 DEF Transit
<1>6. CASE Intake(r)
  <2>1. CASE Transit(r, "retrieving", "retrieve")
    BY <1>5, <1>6, <2>1 DEF Intake, Beginning
  <2>2. CASE run' = [run EXCEPT ![r].state = "failed", ![r].pc = "return"]
    <3>1. run[r].sm = "intake" /\ run[r].state = "intake"
      BY <1>1, <1>6 DEF Intake, OnCourse, Beginning
    <3>2. run'[r].sm = "intake" /\ run'[r].state = "failed"
      BY <1>2, <2>2, <3>1 DEF RunRecords
    <3> QED
      BY <3>1, <3>2 DEF Follows, Shown, Ideal!Targets
  <2> QED
    BY <1>6, <2>1, <2>2 DEF Intake
<1>7. CASE Retrieve(r) \/ Reason(r) \/ Cycle(r)
  BY <1>5, <1>7 DEF Retrieve, Reason, Cycle, Beginning
<1>8. CASE MakePatch(r)
  <2>1. CASE Transit(r, "failed", "return")
    BY <1>5, <1>8, <2>1 DEF MakePatch, Beginning
  <2>2. CASE ~Transit(r, "failed", "return")
    <3>1. PICK d \in {"change", "empty"} :
             run'[r] = [Moved(r, "verifying", "worktree") EXCEPT !.diff = d, !.attempt = 1]
      BY <1>2, <1>8, <2>2 DEF MakePatch
    <3>2. /\ run'[r].sm = Moved(r, "verifying", "worktree").sm
          /\ run'[r].state = Moved(r, "verifying", "worktree").state
      BY <1>1, <3>1 DEF Moved, RunRecords
    <3> QED
      BY <1>3, <1>8, <3>2 DEF MakePatch, Beginning
  <2> QED
    BY <2>1, <2>2
<1>9. CASE Verify(r)
  <2>1. CASE Transit(r, "failed", "return")
    BY <1>5, <1>9, <2>1 DEF Verify, Beginning
  <2>2. CASE ~Transit(r, "failed", "return")
    <3>1. PICK s \in {"reviewing", "revising"}, p \in {"review", "repair"}, passed \in BOOLEAN :
             run'[r] = [Moved(r, s, p) EXCEPT !.report = Report(r, 1, passed),
                                              !.last = Report(r, 1, passed), !.attempts = 1]
      BY <1>2, <1>9, <2>2 DEF Verify
    <3>2. run'[r].sm = Moved(r, s, p).sm /\ run'[r].state = Moved(r, s, p).state
      BY <1>1, <3>1 DEF Moved, RunRecords
    <3> QED
      BY <1>3, <1>9, <3>2 DEF Verify, Beginning
  <2> QED
    BY <2>1, <2>2
<1>10. CASE RepairRaises(r)
  <2>1. run'[r] = [Moved(r, "failed", "review") EXCEPT !.repair = "raised"]
    BY <1>2, <1>10 DEF RepairRaises
  <2>2. /\ run'[r].sm = Moved(r, "failed", "review").sm
        /\ run'[r].state = Moved(r, "failed", "review").state
    BY <1>1, <2>1 DEF Moved, RunRecords
  <2> QED
    BY <1>3, <1>10, <2>2 DEF RepairRaises
<1>11. CASE Review(r)
  <2>1. CASE Transit(r, "failed", "decide")
    BY <1>5, <1>11, <2>1 DEF Review
  <2>2. CASE ~Transit(r, "failed", "decide")
    <3>1. run'[r].sm = run[r].sm /\ run'[r].state = run[r].state
      BY <1>2, <1>11, <2>2 DEF Review, RunRecords
    <3> QED
      BY <1>4, <3>1
  <2> QED
    BY <2>1, <2>2
<1>12. CASE Conclude(r)
  <2>1. run[r].state = run[r].sm /\ run[r].sm \in {"reviewing", "failed"}
    BY <1>1, <1>12 DEF Conclude, OnCourse, Deciding
  <2>2. Outcome(r) \in {"verified", "rejected", "needs_review"}
    BY <1>1, OutcomeNames DEF Outcome, RunRecords
  <2>3. run'[r].sm = run[r].sm /\ run'[r].state = Outcome(r)
    BY <1>2, <1>12 DEF Conclude, RunRecords
  <2> QED
    BY <2>1, <2>2, <2>3 DEF Follows, Shown, Ideal!Targets
<1>13. CASE Create(r) \/ MakeWorktree(r) \/ Apply(r)
  <2>1. CASE Create(r)
    <3>1. PICK t \in Tasks : run' = [run EXCEPT ![r].pc = "intake", ![r].task = t]
      BY <2>1 DEF Create
    <3> QED
      BY <1>2, <1>4, <3>1 DEF RunRecords
  <2>2. CASE MakeWorktree(r)
    <3>1. PICK l \in {"repo", "worktree"} : run' = [run EXCEPT ![r].place = l, ![r].pc = "apply"]
      BY <2>2 DEF MakeWorktree
    <3> QED
      BY <1>2, <1>4, <3>1 DEF RunRecords
  <2>3. CASE Apply(r)
    <3>1. run' = [run EXCEPT ![r].pc = "verify"]
      BY <2>3 DEF Apply
    <3> QED
      BY <1>2, <1>4, <3>1 DEF RunRecords
  <2> QED
    BY <1>13, <2>1, <2>2, <2>3
<1>14. CASE RepairAttempt(r)
  <2> DEFINE n == run[r].attempts + 1
  <2>1. \/ run'[r] = [run[r] EXCEPT !.attempts = n, !.last = Report(r, n, TRUE),
                                    !.report = Report(r, n, TRUE), !.attempt = n,
                                    !.diff = "empty", !.repair = "succeeded", !.pc = "cycle"]
        \/ run'[r] = [run[r] EXCEPT !.attempts = n, !.last = Report(r, n, FALSE)]
    BY <1>2, <1>14, ZenonT(60) DEF RepairAttempt, AdoptRepair, RecordFailure
  <2>2. run'[r].sm = run[r].sm /\ run'[r].state = run[r].state
    BY <1>1, <2>1 DEF RunRecords
  <2> QED
    BY <1>4, <2>2
<1>15. CASE RepairExhausted(r)
  <2>1. run'[r].sm = run[r].sm /\ run'[r].state = run[r].state
    BY <1>2, <1>15 DEF RepairExhausted, RunRecords
  <2> QED
    BY <1>4, <2>1
<1>16. CASE SaveDecision(r) \/ SaveRun(r) \/ Cleanup(r) \/ Return(r)
  <2>1. run'[r].sm = run[r].sm /\ run'[r].state = run[r].state
    BY <1>2, <1>16 DEF SaveDecision, SaveRun, Cleanup, Return, RunRecords
  <2> QED
    BY <1>4, <2>1
<1> QED
  BY <1>6, <1>7, <1>8, <1>9, <1>10, <1>11, <1>12, <1>13, <1>14, <1>15, <1>16 DEF Stage

LEMMA NextFollows ==
    ASSUME Inv, [Next]_vars
    PROVE  [Ideal!Next]_([r \in Runs |-> IF run[r].sm = "failed" THEN "failed" ELSE run[r].state])
<1> DEFINE shown == [r \in Runs |-> IF run[r].sm = "failed" THEN "failed" ELSE run[r].state]
<1>1. run \in [Runs -> RunRecords]
  BY DEF Inv, TypeOK, RunRecords
<1>2. CASE Crash
  <2>1. \A r \in Runs : run'[r].sm = run[r].sm /\ run'[r].state = run[r].state
    BY <1>1, <1>2 DEF Crash, RunRecords
  <2> QED
    BY <2>1
<1>3. ASSUME NEW r \in Runs, Create(r) \/ Stage(r) PROVE Ideal!Next \/ shown' = shown
  <2>1. Follows(run[r], run'[r])
    BY <1>3, StageFollows
  <2>2. \A q \in Runs \ {r} : run'[q] = run[q]
    BY <1>3, StageKeepsOthers
  <2>3. shown' = [shown EXCEPT ![r] = Shown(run'[r])]
    BY <2>2 DEF Shown
  <2>4. CASE Shown(run'[r]) = Shown(run[r])
    BY <2>3, <2>4 DEF Shown
  <2>5. CASE Shown(run'[r]) \in Ideal!Targets[Shown(run[r])]
    BY <2>3, <2>5 DEF Shown, Ideal!Next, Ideal!Transition
  <2> QED
    BY <2>1, <2>4, <2>5 DEF Follows
<1>4. CASE UNCHANGED vars
  BY <1>4 DEF vars
<1> QED
  BY <1>2, <1>3, <1>4 DEF Next

\* The orchestrator implements the life cycle of core/state.py, up to the first
\* failure of a run: also where it assigns the state of a run itself.
THEOREM LifecycleIsFollowed == Spec => FollowsLifecycleUnlessFailed
<1>1. Init => Ideal!Init
  BY DEF Init, InitialRun, Ideal!Init
<1>2. Inv /\ [Next]_vars
      => [Ideal!Next]_([r \in Runs |-> IF run[r].sm = "failed" THEN "failed" ELSE run[r].state])
  BY NextFollows
<1> QED
  BY <1>1, <1>2, Invariance, PTL DEF Spec, FollowsLifecycleUnlessFailed, Ideal!Spec
=============================================================================
