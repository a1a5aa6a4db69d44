--------------------------- MODULE DecisionProofs ---------------------------
(***************************************************************************)
(* Theorems about Decisions: whatever tools, files, tasks and registries   *)
(* there are, a verdict follows from how the tools ended; and whatever     *)
(* outcomes, models, orders, trajectories and ratios there are, reports,   *)
(* comparisons, datasets and splits are true of what they were made from.  *)
(***************************************************************************)
EXTENDS Decisions, ListLemmas

Refuses(env, paths) == env.sandboxed /\ \E f \in paths : f.flagged

(***************************************************************************)
(* A tool passes its check exactly when it was not refused and ended well, *)
(* and one that was refused or timed out is an error.                      *)
(***************************************************************************)
LEMMA ToolStatus ==
    ASSUME NEW env, env.tools \in [ToolGates -> Ends], NEW type \in ToolGates, NEW paths,
           NEW status, status = StatusOf(ExitCode(env, type, paths))
    PROVE  /\ status \in {"pass", "fail", "error"}
           /\ status = "pass" <=> env.tools[type] = "clean" /\ ~Refuses(env, paths)
           /\ Refuses(env, paths) \/ env.tools[type] = "timeout" => status = "error"
<1>1. env.tools[type] \in {"clean", "issues", "timeout", "missing"}
      BY DEF Ends
<1>2. CASE Refuses(env, paths)
      <2>1. ExitCode(env, type, paths) = -1
            BY <1>2 DEF ExitCode, Refuses
      <2>2. QED BY <1>2, <2>1 DEF StatusOf
<1>3. CASE ~Refuses(env, paths)
      <2>1. ExitCode(env, type, paths)
              = (CASE env.tools[type] = "timeout" -> -1
                   [] env.tools[type] = "missing" -> IF env.sandboxed THEN 127 ELSE -1
                   [] env.tools[type] = "issues" -> 1
                   [] env.tools[type] = "clean" -> 0)
            BY <1>3 DEF ExitCode, Refuses
      <2>2. CASE env.tools[type] = "clean"
            <3>1. ExitCode(env, type, paths) = 0
                  BY <2>1, <2>2
            <3>2. QED BY <3>1, <2>2, <1>3 DEF StatusOf
      <2>3. CASE env.tools[type] = "issues"
            <3>1. ExitCode(env, type, paths) = 1
                  BY <2>1, <2>3
            <3>2. QED BY <3>1, <2>3, <1>3 DEF StatusOf
      <2>4. CASE env.tools[type] = "timeout"
            <3>1. ExitCode(env, type, paths) = -1
                  BY <2>1, <2>4
            <3>2. QED BY <3>1, <2>4, <1>3 DEF StatusOf
      <2>5. CASE env.tools[type] = "missing"
            <3>1. ExitCode(env, type, paths) \in {127, -1}
                  BY <2>1, <2>5
            <3>2. QED BY <3>1, <2>5, <1>3 DEF StatusOf
      <2>6. QED BY <1>1, <2>2, <2>3, <2>4, <2>5
<1>4. QED BY <1>2, <1>3

(***************************************************************************)
(* The seven checks of a verification, in their order.                     *)
(***************************************************************************)
LEMMA ChecksRun ==
    ASSUME NEW env, NEW config, NEW files,
           NEW checks, checks = RunChecks(env, config, files),
           NEW python, python = OfLanguage(files, "python")
    PROVE  /\ DOMAIN checks = 1 .. 7
           /\ checks[1].type = "syntax" /\ checks[2].type = "existing_tests"
           /\ checks[3].type = "new_targeted_tests" /\ checks[4].type = "lint"
           /\ checks[5].type = "type_check" /\ checks[6].type = "security_scan"
           /\ checks[7].type = "dependency_validation" /\ checks[7].marks = {}
           /\ checks[1].status \in {"pass", "fail"}
           /\ checks[1].status = "pass" => InState(python, "broken") \union InState(python, "absent") = {}
           /\ checks[2].status = StatusOf(ExitCode(env, "existing_tests", {}))
           /\ \/ Targeted(python) = {} /\ checks[3].status = "skip"
              \/ /\ Targeted(python) # {}
                 /\ checks[3].status = StatusOf(ExitCode(env, "new_targeted_tests", Targeted(python)))
           /\ checks[4].status = IF "lint" \in config THEN StatusOf(ExitCode(env, "lint", python)) ELSE "skip"
           /\ checks[5].status = IF "type_check" \in config
                                 THEN StatusOf(ExitCode(env, "type_check", python)) ELSE "skip"
           /\ checks[6].status = IF "security_scan" \in config
                                 THEN StatusOf(ExitCode(env, "security_scan", python)) ELSE "skip"
           /\ checks[7].status \in {"pass", "fail"}
           /\ checks[7].status = "pass" => InState(python, "broken") = {}
<1>1. /\ DOMAIN checks = 1 .. 7
      /\ checks[1] = CheckSyntax(python)
      /\ checks[2] = RunPytest(env, {}, "existing_tests")
      /\ checks[3] = IF Targeted(python) = {} THEN Skipped("new_targeted_tests")
                     ELSE RunPytest(env, Targeted(python), "new_targeted_tests")
      /\ checks[4] = IF RunLint(env, python).type \in config THEN RunLint(env, python)
                     ELSE Skipped(RunLint(env, python).type)
      /\ checks[5] = IF RunMypy(env, python).type \in config THEN RunMypy(env, python)
                     ELSE Skipped(RunMypy(env, python).type)
      /\ checks[6] = IF RunBandit(env, python).type \in config THEN RunBandit(env, python)
                     ELSE Skipped(RunBandit(env, python).type)
      /\ checks[7] = CheckDependencies(python)
      BY DEF RunChecks
<1>2. /\ checks[1].type = "syntax" /\ checks[1].status \in {"pass", "fail"}
      /\ checks[1].status = "pass" => InState(python, "broken") \union InState(python, "absent") = {}
      BY <1>1 DEF CheckSyntax, Check
<1>3. /\ checks[2].type = "existing_tests"
      /\ checks[2].status = StatusOf(ExitCode(env, "existing_tests", {}))
      BY <1>1 DEF RunPytest, Check
<1>4. /\ checks[3].type = "new_targeted_tests"
      /\ \/ Targeted(python) = {} /\ checks[3].status = "skip"
         \/ /\ Targeted(python) # {}
            /\ checks[3].status = StatusOf(ExitCode(env, "new_targeted_tests", Targeted(python)))
      BY <1>1 DEF RunPytest, Check, Skipped
<1>5. /\ checks[4].type = "lint"
      /\ checks[4].status = IF "lint" \in config THEN StatusOf(ExitCode(env, "lint", python)) ELSE "skip"
      BY <1>1 DEF RunLint, Check, Skipped
<1>6. /\ checks[5].type = "type_check"
      /\ checks[5].status = IF "type_check" \in config
                            THEN StatusOf(ExitCode(env, "type_check", python)) ELSE "skip"
      BY <1>1 DEF RunMypy, Check, Skipped
<1>7. /\ checks[6].type = "security_scan"
      /\ checks[6].status = IF "security_scan" \in config
                            THEN StatusOf(ExitCode(env, "security_scan", python)) ELSE "skip"
      BY <1>1 DEF RunBandit, Check, Skipped
<1>8. /\ checks[7].type = "dependency_validation" /\ checks[7].marks = {}
      /\ checks[7].status \in {"pass", "fail"}
      /\ checks[7].status = "pass" => InState(python, "broken") = {}
      BY <1>1 DEF CheckDependencies, Check
<1>9. QED BY <1>1, <1>2, <1>3, <1>4, <1>5, <1>6, <1>7, <1>8

\* A required gate that does not block has a check that passed.
LEMMA PassedGate ==
    ASSUME NEW checks, NEW required, Report(checks, required).passed, NEW gate \in required
    PROVE  \E k \in DOMAIN checks : checks[k].type = gate /\ checks[k].status = "pass"
<1>1. ~Blocks(checks, gate)
      BY DEF Report, EvaluateGates
<1>2. QED BY <1>1 DEF Blocks, Positions

(***************************************************************************)
(* The decision: rejected without a passing report, verified with one on   *)
(* which the critic has neither a blocker nor anything major, and reasons  *)
(* for everything that is not verified.                                    *)
(***************************************************************************)
LEMMA Decided ==
    ASSUME NEW report, NEW findings, report.passed \in BOOLEAN, ~report.passed => report.blockers # {}
    PROVE  /\ Decide(report, findings).status = "rejected" <=> ~report.passed
           /\ Decide(report, findings).status = "verified_candidate" =>
                 /\ report.passed
                 /\ OfSeverity(findings, "blocker") = {} /\ OfSeverity(findings, "major") = {}
           /\ Decide(report, findings).status # "verified_candidate" => Decide(report, findings).blockers # {}
<1>1. CASE ~report.passed
      <2>1. Decide(report, findings) = [status |-> "rejected", blockers |-> report.blockers]
            BY <1>1 DEF Decide
      <2>2. QED BY <1>1, <2>1
<1>2. CASE report.passed /\ OfSeverity(findings, "blocker") # {}
      <2>1. Decide(report, findings)
              = [status |-> "needs_review", blockers |-> OfSeverity(findings, "blocker")]
            BY <1>2 DEF Decide
      <2>2. QED BY <1>2, <2>1
<1>3. CASE report.passed /\ OfSeverity(findings, "blocker") = {} /\ OfSeverity(findings, "major") # {}
      <2>1. Decide(report, findings)
              = [status |-> "needs_review", blockers |-> OfSeverity(findings, "major")]
            BY <1>3 DEF Decide
      <2>2. QED BY <1>3, <2>1
<1>4. CASE report.passed /\ OfSeverity(findings, "blocker") = {} /\ OfSeverity(findings, "major") = {}
      <2>1. Decide(report, findings) = [status |-> "verified_candidate", blockers |-> {}]
            BY <1>4 DEF Decide
      <2>2. QED BY <1>4, <2>1
<1>5. QED BY <1>1, <1>2, <1>3, <1>4

LEMMA ReportShape ==
    ASSUME NEW checks, NEW required
    PROVE  /\ Report(checks, required).checks = checks
           /\ Report(checks, required).passed \in BOOLEAN
           /\ Report(checks, required).passed <=> EvaluateGates(checks, required) = {}
           /\ ~Report(checks, required).passed => Report(checks, required).blockers # {}
BY DEF Report

(***************************************************************************)
(* What it means that the critic found neither a blocker nor anything      *)
(* major.                                                                  *)
(***************************************************************************)
LEMMA NothingGrave ==
    ASSUME NEW patch, NEW task, NEW checks, NEW contract, NEW cited, NEW evidence,
           IsFiniteSet(patch.files), task.type \in DOMAIN ExpectedMaxFiles,
           LET found == CriticReview(patch, task, checks, contract, cited, evidence)
           IN  OfSeverity(found, "blocker") = {} /\ OfSeverity(found, "major") = {}
    PROVE  /\ "text" \in patch.diff /\ "debug" \notin patch.diff
           /\ Cardinality(patch.files) <= ExpectedMaxFiles[task.type]
           /\ patch.files # {} => cited
           /\ contract # <<>> => contract[1].falsified
           /\ \A k \in DOMAIN checks : checks[k].status # "error"
           /\ \A k \in Positions(checks, "existing_tests") : checks[k].status # "fail"
           /\ \A k \in Positions(checks, "security_scan") : checks[k].status # "fail"
           /\ \A k \in Positions(checks, "new_targeted_tests") : checks[k].status # "skip"
           /\ task.criteria => \E k \in Positions(checks, "new_targeted_tests") : checks[k].status = "pass"
<1> DEFINE found == CriticReview(patch, task, checks, contract, cited, evidence)
<1>1. \A category : <<"blocker", category>> \notin found /\ <<"major", category>> \notin found
      <2>1. SUFFICES ASSUME NEW category PROVE <<"blocker", category>> \notin found /\ <<"major", category>> \notin found
            OBVIOUS
      <2>2. <<"blocker", category>>[1] = "blocker" /\ <<"major", category>>[1] = "major"
            OBVIOUS
      <2>3. QED BY <2>2 DEF OfSeverity
<1>2. /\ CheckTestGaps(patch, task, checks) \subseteq found
      /\ CheckOverreach(patch, task) \subseteq found
      /\ CheckGrounding(patch, cited, evidence) \subseteq found
      /\ CheckFalsification(patch, contract) \subseteq found
      /\ CheckDiffQuality(patch) \subseteq found
      /\ CheckBehaviorPreservation(checks) \subseteq found
      /\ CheckVerificationFailures(checks) \subseteq found
      BY DEF CriticReview
<1> HIDE DEF found
<1>3. "text" \in patch.diff /\ "debug" \notin patch.diff
      <2>1. <<"blocker", "diff_quality">> \notin CheckDiffQuality(patch)
            BY <1>1, <1>2
      <2>2. <<"major", "diff_quality">> \notin CheckDiffQuality(patch)
            BY <1>1, <1>2
      <2>3. QED BY <2>1, <2>2 DEF CheckDiffQuality, Found
<1>4. Cardinality(patch.files) <= ExpectedMaxFiles[task.type]
      <2>1. <<"major", "overreach">> \notin CheckOverreach(patch, task)
            BY <1>1, <1>2
      <2>2. ~(Cardinality(patch.files) > ExpectedMaxFiles[task.type])
            BY <2>1 DEF CheckOverreach, Found
      <2>3. Cardinality(patch.files) \in Nat
            BY FS_CardinalityType
      <2>4. ExpectedMaxFiles[task.type] \in Nat
            BY DEF ExpectedMaxFiles
      <2>5. QED BY <2>2, <2>3, <2>4
<1>5. patch.files # {} => cited
      <2>1. <<"major", "grounding_issue">> \notin CheckGrounding(patch, cited, evidence)
            BY <1>1, <1>2
      <2>2. QED BY <2>1 DEF CheckGrounding, Found
<1>6. contract # <<>> => contract[1].falsified
      <2>1. <<"major", "missing_falsification">> \notin CheckFalsification(patch, contract)
            BY <1>1, <1>2
      <2>2. QED BY <2>1 DEF CheckFalsification, Found
<1>7. \A k \in DOMAIN checks : checks[k].status # "error"
      <2>1. <<"major", "diff_quality">> \notin CheckVerificationFailures(checks)
            BY <1>1, <1>2
      <2>2. QED BY <2>1 DEF CheckVerificationFailures, Found
<1>8. \A k \in Positions(checks, "security_scan") : checks[k].status # "fail"
      <2>1. <<"blocker", "security_concern">> \notin CheckVerificationFailures(checks)
            BY <1>1, <1>2
      <2>2. QED BY <2>1 DEF CheckVerificationFailures, Found, Positions
<1>9. \A k \in Positions(checks, "existing_tests") : checks[k].status # "fail"
      <2>1. <<"blocker", "behavior_preservation">> \notin CheckBehaviorPreservation(checks)
            BY <1>1, <1>2
      <2>2. QED BY <2>1 DEF CheckBehaviorPreservation, Found
<1>10. /\ \A k \in Positions(checks, "new_targeted_tests") : checks[k].status # "skip"
       /\ task.criteria => \E k \in Positions(checks, "new_targeted_tests") : checks[k].status = "pass"
       <2>1. <<"major", "test_gap">> \notin CheckTestGaps(patch, task, checks)
            BY <1>1, <1>2
       <2>2. QED BY <2>1 DEF CheckTestGaps, Found
<1>11. QED BY <1>3, <1>4, <1>5, <1>6, <1>7, <1>8, <1>9, <1>10

-----------------------------------------------------------------------------
(***************************************************************************)
(* A change.  `Judged` is the reading of a verification report with the    *)
(* critic's findings that VerifyAndReview makes of it.                     *)
(***************************************************************************)
ReportOn(change, patch) == Verify(change.env, change.config, patch.files, change.task.required)
Contract(change, patch) ==
    IF change.reasoning = <<>> THEN <<>>
    ELSE <<[assumptions |-> patch.assumptions, falsified |-> patch.falsified]>>
Cites(change) == change.reasoning # <<>> /\ change.reasoning[1].cited
CitedEvidence(change) == IF Cites(change) THEN change.reasoning[1].evidence ELSE {}
FindingsOn(change, patch, checks) ==
    CriticReview(patch, change.task, checks, Contract(change, patch), Cites(change), CitedEvidence(change))

LEMMA Reviewed ==
    ASSUME NEW change, NEW patch, NEW report
    PROVE  /\ StageReview(patch, change.task, <<report>>, change.reasoning)
                 = Decide(report, FindingsOn(change, patch, report.checks))
           /\ StageReview(patch, change.task, <<>>, change.reasoning)
                 = Decide(NoReport, FindingsOn(change, patch, NoReport.checks))
BY DEF StageReview, FindingsOn, Contract, Cites, CitedEvidence

\* The patch after a repair has no diff, for which the critic has a blocker.
LEMMA RepairedIsBlocked ==
    ASSUME NEW change, NEW patch, NEW report,
           report.passed \in BOOLEAN, ~report.passed => report.blockers # {}
    PROVE  StageReview(AfterRepair(patch), change.task, <<report>>, change.reasoning).status
             # "verified_candidate"
<1> DEFINE repaired == AfterRepair(patch)
           found == FindingsOn(change, repaired, report.checks)
<1>1. <<"blocker", "diff_quality">> \in CheckDiffQuality(repaired)
      <2>1. repaired.diff = {}
            BY DEF AfterRepair
      <2>2. QED BY <2>1 DEF CheckDiffQuality
<1>2. <<"blocker", "diff_quality">> \in found
      BY <1>1 DEF FindingsOn, CriticReview
<1>3. <<"blocker", "diff_quality">> \in OfSeverity(found, "blocker")
      <2>1. <<"blocker", "diff_quality">>[1] = "blocker"
            OBVIOUS
      <2>2. QED BY <1>2, <2>1 DEF OfSeverity
<1> HIDE DEF repaired, found
<1>4. Decide(report, found).status # "verified_candidate"
      BY <1>3, Decided
<1>5. QED BY <1>4, Reviewed DEF repaired, found

\* Whatever the task and the risk, the policy requires a check that is never run.
LEMMA PolicyIsUnmet ==
    ASSUME NEW env, NEW config, NEW files, env.tools \in [ToolGates -> Ends], NEW type, NEW risk
    PROVE  ~Report(RunChecks(env, config, files), RequiredGates(SelectGates(type, risk, {}))).passed
<1>1. PICK gates : gates = SelectGates(type, risk, {})
      OBVIOUS
<1>2. PICK checks : checks = RunChecks(env, config, files)
      OBVIOUS
<1>3. PICK python : python = OfLanguage(files, "python")
      OBVIOUS
<1>4. "api_compatibility" \in RequiredGates(gates)
      BY <1>1 DEF RequiredGates, SelectGates, GateNames, DefaultPolicy
<1>5. /\ DOMAIN checks = 1 .. 7
      /\ checks[1].type = "syntax" /\ checks[2].type = "existing_tests"
      /\ checks[3].type = "new_targeted_tests" /\ checks[4].type = "lint"
      /\ checks[5].type = "type_check" /\ checks[6].type = "security_scan"
      /\ checks[7].type = "dependency_validation"
      BY ChecksRun, <1>2, <1>3
<1>6. \A k \in DOMAIN checks : checks[k].type # "api_compatibility"
      BY <1>5
<1>7. ~Report(checks, RequiredGates(gates)).passed
      BY <1>4, <1>6, PassedGate
<1>8. QED BY <1>1, <1>2, <1>7

(***************************************************************************)
(* A category of test failures comes from a test that failed or could not  *)
(* run.                                                                    *)
(***************************************************************************)
LEMMA TestCategories ==
    ASSUME NEW type, NEW marks,
           type \in {"syntax", "existing_tests", "new_targeted_tests", "lint", "type_check",
                     "security_scan", "dependency_validation"},
           type = "dependency_validation" => marks = {}
    PROVE  CategorizeError(type, marks) \in {"test_failure", "import_error"}
             <=> type \in {"existing_tests", "new_targeted_tests"}
<1>1. CASE type = "syntax"
      <2>1. CategorizeError(type, marks) = "syntax" BY <1>1 DEF CategorizeError
      <2>2. QED BY <1>1, <2>1
<1>2. CASE type \in {"existing_tests", "new_targeted_tests"}
      <2>1. CategorizeError(type, marks) = IF "import_error" \in marks THEN "import_error" ELSE "test_failure"
            BY <1>2 DEF CategorizeError
      <2>2. QED BY <1>2, <2>1
<1>3. CASE type = "lint"
      <2>1. CategorizeError(type, marks) = "lint" BY <1>3 DEF CategorizeError
      <2>2. QED BY <1>3, <2>1
<1>4. CASE type = "type_check"
      <2>1. CategorizeError(type, marks) = "type_error" BY <1>4 DEF CategorizeError
      <2>2. QED BY <1>4, <2>1
<1>5. CASE type = "security_scan"
      <2>1. CategorizeError(type, marks) = "security" BY <1>5 DEF CategorizeError
      <2>2. QED BY <1>5, <2>1
<1>6. CASE type = "dependency_validation"
      <2>1. CategorizeError(type, marks) = "other" BY <1>6 DEF CategorizeError
      <2>2. QED BY <1>6, <2>1
<1>7. QED BY <1>1, <1>2, <1>3, <1>4, <1>5, <1>6

-----------------------------------------------------------------------------
\* What is known of a change's checks by their place and of the tools behind them.
LEMMA ChecksTell ==
    ASSUME NEW env, env.tools \in [ToolGates -> Ends], NEW config, NEW files,
           NEW checks, checks = RunChecks(env, config, files),
           NEW python, python = OfLanguage(files, "python")
    PROVE  /\ checks[2].status \in {"pass", "fail", "error"}
           /\ checks[2].status = "pass" => env.tools["existing_tests"] = "clean"
           /\ checks[3].status \in {"pass", "fail", "error", "skip"}
           /\ checks[3].status # "skip" => \E f \in python : f.test
           /\ checks[3].status = "pass" => env.tools["new_targeted_tests"] = "clean"
           /\ \A gate \in {"lint", "type_check", "security_scan"} :
                 LET k == CASE gate = "lint" -> 4 [] gate = "type_check" -> 5 [] gate = "security_scan" -> 6
                 IN  /\ checks[k].status \in {"pass", "fail", "error", "skip"}
                     /\ gate \in config => checks[k].status # "skip"
                     /\ checks[k].status = "pass" => gate \in config /\ env.tools[gate] = "clean"
                     /\ gate \in config /\ checks[k].status # "error" =>
                           env.tools[gate] # "timeout" /\ ~Refuses(env, python)
<1>1. {"existing_tests", "new_targeted_tests", "lint", "type_check", "security_scan"} = ToolGates
      BY DEF ToolGates
<1>2. /\ checks[2].status \in {"pass", "fail", "error"}
      /\ checks[2].status = "pass" => env.tools["existing_tests"] = "clean"
      <2>1. checks[2].status = StatusOf(ExitCode(env, "existing_tests", {}))
            BY ChecksRun
      <2>2. QED BY <1>1, <2>1, ToolStatus
<1>3. /\ checks[3].status \in {"pass", "fail", "error", "skip"}
      /\ checks[3].status # "skip" => \E f \in python : f.test
      /\ checks[3].status = "pass" => env.tools["new_targeted_tests"] = "clean"
      <2>1. PICK tests : tests = Targeted(python)
            OBVIOUS
      <2>2. \/ tests = {} /\ checks[3].status = "skip"
            \/ /\ tests # {}
               /\ checks[3].status = StatusOf(ExitCode(env, "new_targeted_tests", tests))
            BY ChecksRun, <2>1
      <2>3. CASE tests = {}
            BY <2>2, <2>3
      <2>4. CASE tests # {}
            <3>1. checks[3].status = StatusOf(ExitCode(env, "new_targeted_tests", tests))
                  BY <2>2, <2>4
            <3>2. /\ checks[3].status \in {"pass", "fail", "error"}
                  /\ checks[3].status = "pass" => env.tools["new_targeted_tests"] = "clean"
                  BY <1>1, <3>1, ToolStatus
            <3>3. QED BY <2>1, <2>4, <3>2 DEF Targeted
      <2>5. QED BY <2>3, <2>4
<1>4. ASSUME NEW gate \in ToolGates, NEW k,
             checks[k].status = IF gate \in config THEN StatusOf(ExitCode(env, gate, python)) ELSE "skip"
      PROVE  /\ checks[k].status \in {"pass", "fail", "error", "skip"}
             /\ gate \in config => checks[k].status # "skip"
             /\ checks[k].status = "pass" => gate \in config /\ env.tools[gate] = "clean"
             /\ gate \in config /\ checks[k].status # "error" =>
                   env.tools[gate] # "timeout" /\ ~Refuses(env, python)
      <2>1. CASE gate \in config
            <3>1. checks[k].status = StatusOf(ExitCode(env, gate, python))
                  BY <1>4, <2>1
            <3>2. QED BY <2>1, <3>1, <1>4, ToolStatus
      <2>2. CASE gate \notin config
            BY <1>4, <2>2
      <2>3. QED BY <2>1, <2>2
<1>5. /\ checks[4].status = IF "lint" \in config THEN StatusOf(ExitCode(env, "lint", python)) ELSE "skip"
      /\ checks[5].status = IF "type_check" \in config
                            THEN StatusOf(ExitCode(env, "type_check", python)) ELSE "skip"
      /\ checks[6].status = IF "security_scan" \in config
                            THEN StatusOf(ExitCode(env, "security_scan", python)) ELSE "skip"
      BY ChecksRun
<1>6. ASSUME NEW gate \in {"lint", "type_check", "security_scan"}, NEW k,
             k = CASE gate = "lint" -> 4 [] gate = "type_check" -> 5 [] gate = "security_scan" -> 6
      PROVE  checks[k].status = IF gate \in config THEN StatusOf(ExitCode(env, gate, python)) ELSE "skip"
      <2>1. CASE gate = "lint"
            BY <1>5, <1>6, <2>1
      <2>2. CASE gate = "type_check"
            BY <1>5, <1>6, <2>2
      <2>3. CASE gate = "security_scan"
            BY <1>5, <1>6, <2>3
      <2>4. QED BY <1>6, <2>1, <2>2, <2>3
<1>7. \A gate \in {"lint", "type_check", "security_scan"} :
         LET k == CASE gate = "lint" -> 4 [] gate = "type_check" -> 5 [] gate = "security_scan" -> 6
         IN  /\ checks[k].status \in {"pass", "fail", "error", "skip"}
             /\ gate \in config => checks[k].status # "skip"
             /\ checks[k].status = "pass" => gate \in config /\ env.tools[gate] = "clean"
             /\ gate \in config /\ checks[k].status # "error" =>
                   env.tools[gate] # "timeout" /\ ~Refuses(env, python)
      <2>1. TAKE gate \in {"lint", "type_check", "security_scan"}
      <2>2. PICK k : k = CASE gate = "lint" -> 4 [] gate = "type_check" -> 5 [] gate = "security_scan" -> 6
            OBVIOUS
      <2>3. gate \in ToolGates
            BY <1>1
      <2>4. checks[k].status = IF gate \in config THEN StatusOf(ExitCode(env, gate, python)) ELSE "skip"
            BY <1>6, <2>2
      <2>5. /\ checks[k].status \in {"pass", "fail", "error", "skip"}
            /\ gate \in config => checks[k].status # "skip"
            /\ checks[k].status = "pass" => gate \in config /\ env.tools[gate] = "clean"
            /\ gate \in config /\ checks[k].status # "error" =>
                  env.tools[gate] # "timeout" /\ ~Refuses(env, python)
            BY <1>4, <2>3, <2>4
      <2>6. QED BY <2>2, <2>5
<1>8. QED BY <1>2, <1>3, <1>7

-----------------------------------------------------------------------------
\* The parts of a computed verdict.
MadeOf(verdict, change, checks, report, found, again) ==
    /\ checks = RunChecks(change.env, change.config, change.patch.files)
    /\ report = Report(checks, change.task.required)
    /\ found = FindingsOn(change, change.patch, checks)
    /\ again = Report(RunChecks(change.env, change.config, Repair(change.patch, Categorize(checks)).files),
                      change.task.required)
    /\ verdict.report = report
    /\ verdict.failures = Categorize(checks)
    /\ verdict.categories = FailureCategories(checks)
    /\ verdict.decision = Decide(report, found)
    /\ verdict.repaired = StageReview(AfterRepair(change.patch),
                                      change.task, <<again>>, change.reasoning)
    /\ verdict.unverified = Decide(NoReport, FindingsOn(change, change.patch, NoReport.checks))
    /\ verdict.byPolicy = Report(checks, RequiredGates(SelectGates(change.task.type, change.risk, {})))

LEMMA VerdictParts ==
    ASSUME NEW change \in Changes, NEW verdict, verdict = VerifyAndReview(change)
    PROVE  \E checks, report, found, again : MadeOf(verdict, change, checks, report, found, again)
<1>1. PICK checks : checks = RunChecks(change.env, change.config, change.patch.files)
      OBVIOUS
<1>2. PICK report : report = Report(checks, change.task.required)
      OBVIOUS
<1>3. report.checks = checks
      BY <1>2, ReportShape
<1>4. PICK again : again = Report(RunChecks(change.env, change.config,
                                            Repair(change.patch, Categorize(checks)).files),
                                  change.task.required)
      OBVIOUS
<1>5. /\ verdict.report = report
      /\ verdict.failures = Categorize(checks)
      /\ verdict.categories = FailureCategories(checks)
      /\ verdict.decision = StageReview(change.patch, change.task, <<report>>, change.reasoning)
      /\ verdict.repaired = StageReview(AfterRepair(change.patch),
                                        change.task, <<again>>, change.reasoning)
      /\ verdict.unverified = StageReview(change.patch, change.task, <<>>, change.reasoning)
      /\ verdict.byPolicy = Report(checks, RequiredGates(SelectGates(change.task.type, change.risk, {})))
      BY <1>1, <1>2, <1>3, <1>4 DEF VerifyAndReview, Verify
<1>6. /\ verdict.decision = Decide(report, FindingsOn(change, change.patch, checks))
      /\ verdict.unverified = Decide(NoReport, FindingsOn(change, change.patch, NoReport.checks))
      BY <1>3, <1>5, Reviewed
<1>7. PICK found : found = FindingsOn(change, change.patch, checks)
      OBVIOUS
<1>8. MadeOf(verdict, change, checks, report, found, again)
      BY <1>1, <1>2, <1>4, <1>5, <1>6, <1>7 DEF MadeOf
<1>9. QED BY <1>8

(***************************************************************************)
(* A verified candidate is earned.                                         *)
(***************************************************************************)
LEMMA EarnedByTools ==
    ASSUME input \in Changes, result = VerifyAndReview(input)
    PROVE  VerifiedIsEarned
<1> SUFFICES ASSUME result.decision.status = "verified_candidate" PROVE VerifiedIsEarned
    BY DEF VerifiedIsEarned
<1>1. PICK c \in Changes : c = input
      OBVIOUS
<1>2. c = input /\ result = VerifyAndReview(c)
      BY <1>1
<1>3. PICK v : v = result
      OBVIOUS
<1>4. PICK checks, report, found, again : MadeOf(v, c, checks, report, found, again)
      BY <1>2, <1>3, VerdictParts
<1>5. /\ checks = RunChecks(c.env, c.config, c.patch.files)
      /\ report = Report(checks, c.task.required)
      /\ found = FindingsOn(c, c.patch, checks)
      /\ result.decision = Decide(report, found)
      BY <1>3, <1>4 DEF MadeOf
<1>6. PICK python : python = OfLanguage(c.patch.files, "python")
      OBVIOUS
<1>7. /\ c.env.tools \in [ToolGates -> Ends] /\ IsFiniteSet(c.patch.files)
      /\ \A f \in c.patch.files : f.state \in FileStates
      /\ c.task.type \in DOMAIN ExpectedMaxFiles
      BY ChangesAssumption
<1>8. /\ report.passed \in BOOLEAN /\ (~report.passed => report.blockers # {})
      BY <1>5, ReportShape
<1>9. /\ report.passed
      /\ OfSeverity(found, "blocker") = {} /\ OfSeverity(found, "major") = {}
      BY <1>2, <1>5, <1>8, Decided
<1>10. PICK contract, evidence : contract = Contract(c, c.patch) /\ evidence = CitedEvidence(c)
       OBVIOUS
<1>11. found = CriticReview(c.patch, c.task, checks, contract, Cites(c), evidence)
       BY <1>5, <1>10 DEF FindingsOn
<1>12. /\ "text" \in c.patch.diff /\ "debug" \notin c.patch.diff
       /\ Cardinality(c.patch.files) <= ExpectedMaxFiles[c.task.type]
       /\ c.patch.files # {} => Cites(c)
       /\ contract # <<>> => contract[1].falsified
       /\ \A k \in DOMAIN checks : checks[k].status # "error"
       /\ \A k \in Positions(checks, "existing_tests") : checks[k].status # "fail"
       /\ \A k \in Positions(checks, "security_scan") : checks[k].status # "fail"
       /\ \A k \in Positions(checks, "new_targeted_tests") : checks[k].status # "skip"
       /\ c.task.criteria => \E k \in Positions(checks, "new_targeted_tests") : checks[k].status = "pass"
       BY <1>7, <1>9, <1>11, NothingGrave
<1>13. /\ DOMAIN checks = 1 .. 7
       /\ checks[1].type = "syntax" /\ checks[2].type = "existing_tests"
       /\ checks[3].type = "new_targeted_tests" /\ checks[4].type = "lint"
       /\ checks[5].type = "type_check" /\ checks[6].type = "security_scan"
       /\ checks[7].type = "dependency_validation"
       /\ checks[1].status = "pass" => InState(python, "broken") \union InState(python, "absent") = {}
       /\ checks[7].status = "pass" => InState(python, "broken") = {}
       BY <1>5, <1>6, ChecksRun
<1>14. /\ checks[2].status \in {"pass", "fail", "error"}
       /\ checks[2].status = "pass" => c.env.tools["existing_tests"] = "clean"
       /\ checks[3].status # "skip" => \E f \in python : f.test
       /\ checks[3].status = "pass" => c.env.tools["new_targeted_tests"] = "clean"
       /\ checks[4].status \in {"pass", "fail", "error", "skip"}
       /\ checks[4].status = "pass" => "lint" \in c.config /\ c.env.tools["lint"] = "clean"
       /\ "lint" \in c.config /\ checks[4].status # "error" =>
             c.env.tools["lint"] # "timeout" /\ ~Refuses(c.env, python)
       /\ checks[5].status \in {"pass", "fail", "error", "skip"}
       /\ checks[5].status = "pass" => "type_check" \in c.config /\ c.env.tools["type_check"] = "clean"
       /\ "type_check" \in c.config /\ checks[5].status # "error" =>
             c.env.tools["type_check"] # "timeout" /\ ~Refuses(c.env, python)
       /\ checks[6].status \in {"pass", "fail", "error", "skip"}
       /\ "security_scan" \in c.config => checks[6].status # "skip"
       /\ checks[6].status = "pass" => "security_scan" \in c.config /\ c.env.tools["security_scan"] = "clean"
       /\ "security_scan" \in c.config /\ checks[6].status # "error" =>
             c.env.tools["security_scan"] # "timeout" /\ ~Refuses(c.env, python)
       BY <1>5, <1>6, <1>7, ChecksTell
<1>15. /\ checks[2].status = "pass" /\ checks[3].status # "skip" /\ checks[6].status # "fail"
       /\ checks[4].status # "error" /\ checks[5].status # "error" /\ checks[6].status # "error"
       BY <1>12, <1>13, <1>14 DEF Positions
<1>16. \E f \in python : f.test
       BY <1>14, <1>15
<1>17. c.task.criteria => c.env.tools["new_targeted_tests"] = "clean"
       BY <1>12, <1>13, <1>14 DEF Positions
<1>18. c.patch.files # {} /\ Cites(c)
       BY <1>6, <1>12, <1>16 DEF OfLanguage
<1>19. c.reasoning # <<>> => c.patch.falsified
       BY <1>10, <1>12 DEF Contract
<1>20. ASSUME NEW gate \in c.task.required
       PROVE  \/ gate = "syntax" /\ \A f \in python : f.state = "good"
              \/ gate = "dependency_validation" /\ \A f \in python : f.state # "broken"
              \/ /\ gate \in DOMAIN c.env.tools
                 /\ c.env.tools[gate] = "clean"
                 /\ gate \in {"lint", "type_check", "security_scan"} => gate \in c.config
       <2>1. PICK k \in DOMAIN checks : checks[k].type = gate /\ checks[k].status = "pass"
             BY <1>5, <1>9, PassedGate
       <2>2. \A f \in python : f.state \in {"good", "broken", "absent"}
             BY <1>6, <1>7 DEF OfLanguage, FileStates
       <2>3. DOMAIN c.env.tools = {"existing_tests", "new_targeted_tests", "lint", "type_check", "security_scan"}
             BY <1>7 DEF ToolGates
       <2>4. k \in 1 .. 7
             BY <1>13
       <2>5. CASE k = 1
             BY <1>13, <2>1, <2>2, <2>5 DEF InState
       <2>6. CASE k = 7
             BY <1>13, <2>1, <2>2, <2>6 DEF InState
       <2>7. CASE k = 2
             BY <1>13, <1>14, <2>1, <2>3, <2>7
       <2>8. CASE k = 3
             BY <1>13, <1>14, <2>1, <2>3, <2>8
       <2>9. CASE k = 4
             BY <1>13, <1>14, <2>1, <2>3, <2>9
       <2>10. CASE k = 5
             BY <1>13, <1>14, <2>1, <2>3, <2>10
       <2>11. CASE k = 6
             BY <1>13, <1>14, <2>1, <2>3, <2>11
       <2>12. QED BY <2>4, <2>5, <2>6, <2>7, <2>8, <2>9, <2>10, <2>11
<1>21. \A gate \in c.config \intersect {"lint", "type_check", "security_scan"} :
          c.env.tools[gate] # "timeout" /\ ~Refuses(c.env, python)
       BY <1>14, <1>15
<1>22. "security_scan" \in c.config => c.env.tools["security_scan"] = "clean"
       BY <1>14, <1>15
<1>23. c.env.tools["existing_tests"] = "clean"
       BY <1>14, <1>15
<1>24. /\ EndedWell("existing_tests")
       /\ "security_scan" \in input.config => EndedWell("security_scan")
       /\ input.task.criteria => EndedWell("new_targeted_tests")
       BY <1>2, <1>17, <1>22, <1>23 DEF EndedWell
<1>25. \A gate \in input.config \intersect {"lint", "type_check", "security_scan"} :
          input.env.tools[gate] # "timeout" /\ ~Refused(ChangedPython)
       BY <1>2, <1>6, <1>21 DEF Refused, Refuses, ChangedPython
<1>26. \A gate \in input.task.required :
          \/ gate = "syntax" /\ \A f \in ChangedPython : f.state = "good"
          \/ gate = "dependency_validation" /\ \A f \in ChangedPython : f.state # "broken"
          \/ /\ gate \in DOMAIN input.env.tools
             /\ EndedWell(gate)
             /\ gate \in {"lint", "type_check", "security_scan"} => gate \in input.config
       BY <1>2, <1>6, <1>20 DEF ChangedPython, EndedWell
<1>27. /\ \E f \in ChangedPython : f.test
       /\ "text" \in input.patch.diff /\ "debug" \notin input.patch.diff
       /\ Cardinality(input.patch.files) <= ExpectedMaxFiles[input.task.type]
       /\ input.reasoning # <<>> => input.patch.falsified
       /\ input.reasoning # <<>> /\ input.reasoning[1].cited
       BY <1>2, <1>6, <1>12, <1>16, <1>18, <1>19 DEF ChangedPython, Cites
<1>28. QED BY <1>24, <1>25, <1>26, <1>27 DEF VerifiedIsEarned

(***************************************************************************)
(* The failures and their categories.                                      *)
(***************************************************************************)
FailuresAgree(failures, categories, checks) ==
    /\ DOMAIN failures = {k \in DOMAIN checks : checks[k].status \in {"fail", "error"}}
    /\ (DOMAIN failures # {}) <=> HasBlockingFailures(checks)
    /\ categories \intersect {"test_failure", "import_error"} # {} <=>
          \E k \in DOMAIN checks :
             /\ checks[k].type \in {"existing_tests", "new_targeted_tests"}
             /\ checks[k].status \in {"fail", "error"}

LEMMA FailuresTell ==
    ASSUME NEW change \in Changes,
           NEW checks, checks = RunChecks(change.env, change.config, change.patch.files)
    PROVE  FailuresAgree(Categorize(checks), FailureCategories(checks), checks)
<1>1. change.env.tools \in [ToolGates -> Ends]
      BY ChangesAssumption
<1>2. PICK python : python = OfLanguage(change.patch.files, "python")
      OBVIOUS
<1>3. /\ DOMAIN checks = 1 .. 7
      /\ checks[1].type = "syntax" /\ checks[2].type = "existing_tests"
      /\ checks[3].type = "new_targeted_tests" /\ checks[4].type = "lint"
      /\ checks[5].type = "type_check" /\ checks[6].type = "security_scan"
      /\ checks[7].type = "dependency_validation" /\ checks[7].marks = {}
      /\ checks[1].status \in {"pass", "fail"} /\ checks[7].status \in {"pass", "fail"}
      BY <1>2, ChecksRun
<1>4. /\ checks[2].status \in {"pass", "fail", "error"}
      /\ checks[3].status \in {"pass", "fail", "error", "skip"}
      /\ checks[4].status \in {"pass", "fail", "error", "skip"}
      /\ checks[5].status \in {"pass", "fail", "error", "skip"}
      /\ checks[6].status \in {"pass", "fail", "error", "skip"}
      BY <1>1, <1>2, ChecksTell
<1>5. \A k \in DOMAIN checks : checks[k].status \in {"pass", "fail", "error", "skip"}
      BY <1>3, <1>4
<1>6. DOMAIN Categorize(checks) = {k \in DOMAIN checks : checks[k].status \in {"fail", "error"}}
      BY <1>5 DEF Categorize
<1>7. (DOMAIN Categorize(checks) # {}) <=> HasBlockingFailures(checks)
      BY <1>6 DEF HasBlockingFailures
<1>8. \A k \in DOMAIN checks :
         CategorizeError(checks[k].type, checks[k].marks) \in {"test_failure", "import_error"}
           <=> checks[k].type \in {"existing_tests", "new_targeted_tests"}
      <2>1. TAKE k \in DOMAIN checks
      <2>2. /\ checks[k].type \in {"syntax", "existing_tests", "new_targeted_tests", "lint", "type_check",
                                   "security_scan", "dependency_validation"}
            /\ checks[k].type = "dependency_validation" => checks[k].marks = {}
            BY <1>3
      <2>3. QED BY <2>2, TestCategories
<1>9. \A x : x \in FailureCategories(checks) <=>
         \E k \in DOMAIN checks : /\ checks[k].status \in {"fail", "error"}
                                 /\ x = CategorizeError(checks[k].type, checks[k].marks)
      <2>1. \A k \in DOMAIN Categorize(checks) :
               Categorize(checks)[k].category = CategorizeError(checks[k].type, checks[k].marks)
            BY DEF Categorize, CategorizeCheck
      <2>2. QED BY <1>6, <2>1 DEF FailureCategories, Range
<1>10. FailureCategories(checks) \intersect {"test_failure", "import_error"} # {} <=>
          \E k \in DOMAIN checks :
             /\ checks[k].type \in {"existing_tests", "new_targeted_tests"}
             /\ checks[k].status \in {"fail", "error"}
       BY <1>8, <1>9
<1>11. QED BY <1>6, <1>7, <1>10 DEF FailuresAgree

\* The part of VerdictFollowsTools about changes.
LEMMA ChangeVerdict ==
    ASSUME input \in Changes, result = VerifyAndReview(input)
    PROVE  /\ VerifiedIsEarned
           /\ (result.decision.status = "rejected") <=> ~result.report.passed
           /\ result.decision.status # "verified_candidate" => result.decision.blockers # {}
           /\ DOMAIN result.failures = {k \in DOMAIN result.report.checks :
                                          result.report.checks[k].status \in {"fail", "error"}}
           /\ (DOMAIN result.failures # {}) <=> HasBlockingFailures(result.report.checks)
           /\ result.categories \intersect {"test_failure", "import_error"} # {} <=>
                 \E k \in DOMAIN result.report.checks :
                    /\ result.report.checks[k].type \in {"existing_tests", "new_targeted_tests"}
                    /\ result.report.checks[k].status \in {"fail", "error"}
           /\ result.repaired.status # "verified_candidate"
           /\ result.unverified.status = "rejected"
           /\ ~result.byPolicy.passed
<1>1. PICK c \in Changes : c = input
      OBVIOUS
<1>2. PICK v : v = result
      OBVIOUS
<1>3. PICK checks, report, found, again : MadeOf(v, c, checks, report, found, again)
      BY <1>1, <1>2, VerdictParts
<1>4. checks = RunChecks(c.env, c.config, c.patch.files) /\ c.env.tools \in [ToolGates -> Ends]
      BY <1>3, ChangesAssumption DEF MadeOf
<1>5. /\ report.checks = checks
      /\ report.passed \in BOOLEAN /\ (~report.passed => report.blockers # {})
      /\ again.passed \in BOOLEAN /\ (~again.passed => again.blockers # {})
      BY <1>3, ReportShape DEF MadeOf
<1>6. VerifiedIsEarned
      BY EarnedByTools
<1>7. /\ (v.decision.status = "rejected") <=> ~v.report.passed
      /\ v.decision.status # "verified_candidate" => v.decision.blockers # {}
      <2>1. v.report = report /\ v.decision = Decide(report, found)
            BY <1>3 DEF MadeOf
      <2>2. QED BY <1>5, <2>1, Decided
<1>8. /\ DOMAIN v.failures = {k \in DOMAIN v.report.checks : v.report.checks[k].status \in {"fail", "error"}}
      /\ (DOMAIN v.failures # {}) <=> HasBlockingFailures(v.report.checks)
      /\ v.categories \intersect {"test_failure", "import_error"} # {} <=>
            \E k \in DOMAIN v.report.checks :
               /\ v.report.checks[k].type \in {"existing_tests", "new_targeted_tests"}
               /\ v.report.checks[k].status \in {"fail", "error"}
      <2>1. /\ v.failures = Categorize(checks) /\ v.categories = FailureCategories(checks)
            /\ v.report.checks = checks
            BY <1>3, <1>5 DEF MadeOf
      <2>2. FailuresAgree(Categorize(checks), FailureCategories(checks), checks)
            BY <1>4, FailuresTell
      <2>3. QED BY <2>1, <2>2 DEF FailuresAgree
<1>9. v.repaired.status # "verified_candidate"
      <2>1. v.repaired = StageReview(AfterRepair(c.patch), c.task, <<again>>, c.reasoning)
            BY <1>3 DEF MadeOf
      <2>2. QED BY <1>5, <2>1, RepairedIsBlocked
<1>10. v.unverified.status = "rejected"
       <2>1. PICK none, criticism :
                /\ none = NoReport
                /\ v.unverified = Decide(none, criticism)
             BY <1>3 DEF MadeOf
       <2>2. none.passed \in BOOLEAN /\ ~none.passed /\ none.blockers # {}
             BY <2>1 DEF NoReport
       <2>3. (Decide(none, criticism).status = "rejected") <=> ~none.passed
             BY <2>2, Decided
       <2>4. QED BY <2>1, <2>2, <2>3
<1>11. ~v.byPolicy.passed
       <2>1. v.byPolicy = Report(checks, RequiredGates(SelectGates(c.task.type, c.risk, {})))
             BY <1>3 DEF MadeOf
       <2>2. QED BY <1>4, <2>1, PolicyIsUnmet
<1>12. QED BY <1>2, <1>6, <1>7, <1>8, <1>9, <1>10, <1>11

-----------------------------------------------------------------------------
(***************************************************************************)
(* A change in one language.                                               *)
(***************************************************************************)

EndsKnown(env) == \A command \in DOMAIN env.ends : env.ends[command] \in Ends
EndsClean(env, command) == command \in DOMAIN env.ends /\ env.ends[command] = "clean"

\* What PolyglotsAssumption says of one adapter, and what a passed check of it says.
Commanded(env, adapter, files) ==
    /\ EndsKnown(env)
    /\ \A f \in files : f.state \in FileStates
    /\ adapter.syntax \in DOMAIN env.ends \ {"parse"} \/ adapter.syntax = "parse"
    /\ adapter.build \in DOMAIN env.ends \ {"parse all"} \/ adapter.build = "parse all"
    /\ adapter.existing_tests \in DOMAIN env.ends
    /\ adapter.lint \in DOMAIN env.ends
    /\ adapter.type_check \in DOMAIN env.ends
Backed(env, command, files) ==
    \/ EndsClean(env, command)
    \/ command = "parse" /\ \A f \in files : f.state = "good"
    \/ command = "parse all" /\ env.parses

LEMMA CommandTells ==
    ASSUME NEW env, EndsKnown(env), NEW command \in DOMAIN env.ends, NEW type, NEW files
    PROVE  /\ RunCommand(env, command, type).type = type
           /\ RunCommand(env, command, type).status = "pass" => EndsClean(env, command)
           /\ FileCheck(env, command, type, files).type = type
           /\ FileCheck(env, command, type, files).status = "pass" => EndsClean(env, command)
<1>1. PICK end : end = env.ends[command]
      OBVIOUS
<1>2. end \in {"clean", "issues", "timeout", "missing"}
      BY <1>1 DEF Ends, EndsKnown
<1>3. PICK status : status = CASE end = "clean" -> "pass"
                               [] end = "issues" -> "fail"
                               [] end \in {"timeout", "missing"} -> "error"
      OBVIOUS
<1>4. status = "pass" => end = "clean"
      BY <1>2, <1>3
<1>5. RunCommand(env, command, type) = Check(type, status, {}, {})
      BY <1>1, <1>3 DEF RunCommand
<1>6. /\ RunCommand(env, command, type).type = type
      /\ RunCommand(env, command, type).status = status
      BY <1>5 DEF Check
<1>7. RunCommand(env, command, type).status = "pass" => EndsClean(env, command)
      BY <1>1, <1>4, <1>6 DEF EndsClean
<1>8. CASE files = {}
      <2>1. FileCheck(env, command, type, files) = Check(type, "skip", {}, {})
            BY <1>8 DEF FileCheck, Skipped
      <2>2. QED BY <1>6, <1>7, <2>1 DEF Check
<1>9. CASE files # {}
      BY <1>6, <1>7, <1>9 DEF FileCheck
<1>10. QED BY <1>8, <1>9

\* A check of an adapter that passes has a command that ended well, or Python's parser.
LEMMA AdapterTells ==
    ASSUME NEW env, NEW adapter, NEW files, Commanded(env, adapter, files),
           NEW checks, checks = AdapterChecks(env, adapter, files)
    PROVE  /\ checks[1].type = "syntax" /\ (checks[1].status = "pass" => Backed(env, adapter.syntax, files))
           /\ checks[2].type = "build" /\ (checks[2].status = "pass" => Backed(env, adapter.build, files))
           /\ checks[3].type = "existing_tests"
           /\ checks[3].status = "pass" => Backed(env, adapter.existing_tests, files)
           /\ checks[4].type = "lint" /\ (checks[4].status = "pass" => Backed(env, adapter.lint, files))
           /\ checks[5].type = "type_check"
           /\ checks[5].status = "pass" => Backed(env, adapter.type_check, files)
<1>1. /\ checks[1] = SyntaxCheck(env, adapter, files) /\ checks[2] = Build(env, adapter)
      /\ checks[3] = RunCommand(env, adapter.existing_tests, "existing_tests")
      /\ checks[4] = FileCheck(env, adapter.lint, "lint", files)
      /\ checks[5] = FileCheck(env, adapter.type_check, "type_check", files)
      BY DEF AdapterChecks
<1>2. EndsKnown(env)
      BY DEF Commanded
<1>3. ASSUME NEW command \in DOMAIN env.ends, NEW type
      PROVE  /\ RunCommand(env, command, type).type = type
             /\ RunCommand(env, command, type).status = "pass" => Backed(env, command, files)
             /\ FileCheck(env, command, type, files).type = type
             /\ FileCheck(env, command, type, files).status = "pass" => Backed(env, command, files)
      <2>1. /\ RunCommand(env, command, type).type = type
            /\ RunCommand(env, command, type).status = "pass" => EndsClean(env, command)
            /\ FileCheck(env, command, type, files).type = type
            /\ FileCheck(env, command, type, files).status = "pass" => EndsClean(env, command)
            BY <1>2, CommandTells
      <2>2. QED BY <2>1 DEF Backed
<1>4. checks[1].type = "syntax" /\ (checks[1].status = "pass" => Backed(env, adapter.syntax, files))
      <2>1. PICK command : command = adapter.syntax
            OBVIOUS
      <2>2. CASE command = "parse"
            <3>1. checks[1] = CheckSyntax(files)
                  BY <1>1, <2>1, <2>2 DEF SyntaxCheck
            <3>2. /\ checks[1].type = "syntax"
                  /\ checks[1].status = "pass" =>
                        InState(files, "broken") \union InState(files, "absent") = {}
                  BY <3>1 DEF CheckSyntax, Check
            <3>3. \A f \in files : f.state \in {"good", "broken", "absent"}
                  BY DEF Commanded, FileStates
            <3>4. checks[1].status = "pass" => \A f \in files : f.state = "good"
                  BY <3>2, <3>3 DEF InState
            <3>5. QED BY <2>1, <2>2, <3>2, <3>4 DEF Backed
      <2>3. CASE command # "parse"
            <3>1. checks[1] = FileCheck(env, command, "syntax", files)
                  BY <1>1, <2>1, <2>3 DEF SyntaxCheck
            <3>2. command \in DOMAIN env.ends
                  BY <2>1, <2>3 DEF Commanded
            <3>3. QED BY <1>3, <2>1, <3>1, <3>2
      <2>4. QED BY <2>2, <2>3
<1>5. checks[2].type = "build" /\ (checks[2].status = "pass" => Backed(env, adapter.build, files))
      <2>1. PICK command : command = adapter.build
            OBVIOUS
      <2>2. CASE command = "parse all"
            <3>1. checks[2] = Check("build", IF env.parses THEN "pass" ELSE "fail", {}, {})
                  BY <1>1, <2>1, <2>2 DEF Build
            <3>2. checks[2].type = "build" /\ (checks[2].status = "pass" => env.parses)
                  BY <3>1 DEF Check
            <3>3. QED BY <2>1, <2>2, <3>2 DEF Backed
      <2>3. CASE command # "parse all"
            <3>1. checks[2] = RunCommand(env, command, "build")
                  BY <1>1, <2>1, <2>3 DEF Build
            <3>2. command \in DOMAIN env.ends
                  BY <2>1, <2>3 DEF Commanded
            <3>3. QED BY <1>3, <2>1, <3>1, <3>2
      <2>4. QED BY <2>2, <2>3
<1>6. checks[3].type = "existing_tests" /\ (checks[3].status = "pass" => Backed(env, adapter.existing_tests, files))
      <2>1. PICK command : command = adapter.existing_tests
            OBVIOUS
      <2>2. command \in DOMAIN env.ends /\ checks[3] = RunCommand(env, command, "existing_tests")
            BY <1>1, <2>1 DEF Commanded
      <2>3. QED BY <1>3, <2>1, <2>2
<1>7. checks[4].type = "lint" /\ (checks[4].status = "pass" => Backed(env, adapter.lint, files))
      <2>1. PICK command : command = adapter.lint
            OBVIOUS
      <2>2. command \in DOMAIN env.ends /\ checks[4] = FileCheck(env, command, "lint", files)
            BY <1>1, <2>1 DEF Commanded
      <2>3. QED BY <1>3, <2>1, <2>2
<1>8. checks[5].type = "type_check" /\ (checks[5].status = "pass" => Backed(env, adapter.type_check, files))
      <2>1. PICK command : command = adapter.type_check
            OBVIOUS
      <2>2. command \in DOMAIN env.ends /\ checks[5] = FileCheck(env, command, "type_check", files)
            BY <1>1, <2>1 DEF Commanded
      <2>3. QED BY <1>3, <2>1, <2>2
<1>9. QED BY <1>4, <1>5, <1>6, <1>7, <1>8

\* The part of VerdictFollowsTools about several languages, for one input.
LEMMA PolyglotVerdict ==
    ASSUME NEW p \in Polyglots,
           VerifyLanguages(p.env, p.registry, p.repo, p.files, p.required).passed,
           NEW a \in Range(p.registry), p.files # {}, \A f \in p.files : f.lang = a.lang,
           NEW gate \in p.required
    PROVE  \/ a[gate] \in DOMAIN p.env.ends /\ p.env.ends[a[gate]] = "clean"
           \/ a[gate] = "parse" /\ \A f \in p.files : f.state = "good"
           \/ a[gate] = "parse all" /\ p.env.parses
<1>1. PICK registry, env, files : registry = p.registry /\ env = p.env /\ files = p.files
      OBVIOUS
<1>2. /\ registry \in Seq(Range(registry))
      /\ \A k, m \in DOMAIN registry : registry[k].lang = registry[m].lang => k = m
      /\ a \in Range(registry)
      BY <1>1, PolyglotsAssumption
<1>3. Commanded(env, a, files)
      <2>1. /\ EndsKnown(env)
            /\ \A f \in files : f.state \in FileStates
            BY <1>1, PolyglotsAssumption DEF EndsKnown
      <2>2. \A g \in AdapterGates :
               \/ a[g] \in DOMAIN env.ends \ {"parse", "parse all"}
               \/ g = "syntax" /\ a[g] = "parse"
               \/ g = "build" /\ a[g] = "parse all"
            BY <1>1, PolyglotsAssumption
      <2>3. /\ a["syntax"] \in DOMAIN env.ends \ {"parse"} \/ a["syntax"] = "parse"
            /\ a["build"] \in DOMAIN env.ends \ {"parse all"} \/ a["build"] = "parse all"
            /\ a["existing_tests"] \in DOMAIN env.ends
            /\ a["lint"] \in DOMAIN env.ends
            /\ a["type_check"] \in DOMAIN env.ends
            BY <2>2 DEF AdapterGates
      <2>4. QED BY <2>1, <2>3 DEF Commanded
<1>4. PICK size \in Nat : DOMAIN registry = 1 .. size
      BY <1>2
<1>5. PICK place \in DOMAIN registry : registry[place] = a
      BY <1>2 DEF Range
<1>6. place \in Nat
      BY <1>4
<1>7. OfLanguage(files, a.lang) = files
      BY <1>1 DEF OfLanguage
<1>8. DetectForFiles(registry, files) = {place}
      <2>1. place \in DetectForFiles(registry, files)
            BY <1>1, <1>5, <1>7 DEF DetectForFiles
      <2>2. ASSUME NEW k \in DetectForFiles(registry, files) PROVE k = place
            <3>1. k \in DOMAIN registry /\ \E f \in files : f.lang = registry[k].lang
                  BY <2>2 DEF DetectForFiles, OfLanguage
            <3>2. registry[k].lang = registry[place].lang
                  BY <1>1, <1>5, <3>1
            <3>3. QED BY <1>2, <3>1, <3>2
      <2>3. QED BY <2>1, <2>2
<1>9. PICK own : own = AdapterChecks(env, a, files)
      OBVIOUS
<1> DEFINE checks == [n \in {5 * k + i : k \in {place}, i \in 0 .. 4} |->
                         AdapterChecks(env, registry[n \div 5],
                            OfLanguage(files, registry[n \div 5].lang))[(n % 5) + 1]]
<1>10. Report(checks, p.required).passed
       BY <1>1, <1>8 DEF VerifyLanguages
<1>11. PICK n \in DOMAIN checks : checks[n].type = gate /\ checks[n].status = "pass"
       <2> HIDE DEF checks
       <2>1. QED BY <1>10, PassedGate
<1>12. PICK i \in 0 .. 4 : n = 5 * place + i
       BY <1>11
<1>13. n \div 5 = place /\ n % 5 = i
       BY <1>6, <1>12
<1>14. checks[n] = own[i + 1]
       BY <1>5, <1>7, <1>9, <1>11, <1>13
<1> HIDE DEF checks
<1>15. i + 1 \in {1, 2, 3, 4, 5} /\ own[i + 1].status = "pass" /\ own[i + 1].type = gate
       BY <1>11, <1>14
<1>16. Backed(env, a[gate], files)
       BY <1>3, <1>9, <1>15, AdapterTells
<1>17. QED BY <1>1, <1>16 DEF Backed, EndsClean

-----------------------------------------------------------------------------
\* Benchmarks and comparisons.

\* A set of tasks knows each identifier once.
TaskList(T) == T \in Seq(Range(T)) /\ \A k, m \in DOMAIN T : T[k].id = T[m].id => k = m

\* A benchmark set holds every identifier once, and only tasks that were added.
LEMMA BenchmarkSetLaws ==
    ASSUME NEW tasks, tasks \in Seq(Range(tasks))
    PROVE  TaskList(BenchmarkSet(tasks)) /\ Range(BenchmarkSet(tasks)) \subseteq Range(tasks)
<1> DEFINE D == DOMAIN tasks
           Same(k) == {m \in D : tasks[m].id = tasks[k].id}
           last == [k \in D |-> tasks[Max(Same(k))]]
           K == {k \in D : k = Min(Same(k))}
           p == Picked(last, K)
<1>1. BenchmarkSet(tasks) = p
      BY Zenon DEF BenchmarkSet
<1>2. IsFiniteSet(D) /\ D \subseteq Int /\ K \subseteq D
      BY Places
<1>3. IsFiniteSet(K) /\ K \subseteq Int
      BY <1>2, FS_Subset
<1>4. ASSUME NEW k \in D
      PROVE  /\ Max(Same(k)) \in D /\ tasks[Max(Same(k))].id = tasks[k].id
             /\ last[k] = tasks[Max(Same(k))]
             /\ last[k] \in Range(tasks) /\ last[k].id = tasks[k].id
      <2>1. Same(k) \subseteq D /\ k \in Same(k)
            OBVIOUS
      <2>2. IsFiniteSet(Same(k)) /\ Same(k) \subseteq Int /\ Same(k) # {}
            BY <2>1, <1>2, FS_Subset
      <2>3. Max(Same(k)) \in Same(k)
            BY <2>2, MinMax
      <2>4. Max(Same(k)) \in D /\ tasks[Max(Same(k))].id = tasks[k].id
            BY <2>3
      <2>5. last[k] = tasks[Max(Same(k))]
            OBVIOUS
      <2>6. tasks[Max(Same(k))] \in Range(tasks)
            BY <2>4, Places
      <2> QED BY <2>4, <2>5, <2>6
<1>5. ASSUME NEW k \in K, NEW m \in K, tasks[k].id = tasks[m].id
      PROVE  k = m
      <2>1. Same(k) = Same(m)
            BY <1>5
      <2>2. k = Min(Same(k)) /\ m = Min(Same(m))
            OBVIOUS
      <2> HIDE DEF Same
      <2> QED BY <2>1, <2>2
<1> HIDE DEF K, last
<1>6. /\ DOMAIN p = 1 .. Cardinality(K)
      /\ \A n \in 1 .. Cardinality(K) : p[n] = last[Ascending(K)[n]] /\ Ascending(K)[n] \in K
      BY Zenon, <1>3, PickedPlaces
<1>7. \A k, m \in 1 .. Cardinality(K) : Ascending(K)[k] = Ascending(K)[m] => k = m
      BY <1>3, AscendingLaws
<1> HIDE DEF p
<1>8. ASSUME NEW n \in DOMAIN p, NEW m \in DOMAIN p, p[n].id = p[m].id
      PROVE  n = m
      <2>1. PICK i \in K, j \in K : i = Ascending(K)[n] /\ j = Ascending(K)[m] /\ p[n] = last[i] /\ p[m] = last[j]
            BY <1>6
      <2>2. i \in D /\ j \in D
            BY <1>2
      <2>3. tasks[i].id = tasks[j].id
            BY <2>1, <2>2, <1>4, <1>8
      <2>4. i = j
            BY <2>3, <1>5
      <2> QED BY <2>1, <2>4, <1>6, <1>7
<1>9. \A x : x \in Range(p) <=> At(last, K, x)
      <2>1. ASSUME NEW x  PROVE x \in Range(Picked(last, K)) <=> At(last, K, x)
            BY <1>3, PickedRange
      <2> QED BY <2>1 DEF p
<1>10. p \in Seq(Range(p))
       <2>1. \A k \in K : last[k] \in Range(p)
             BY <1>9 DEF At
       <2>2. Picked(last, K) \in Seq(Range(p))
             BY <2>1, <1>3, PickedType
       <2> QED BY <2>2 DEF p
<1>11. Range(p) \subseteq Range(tasks)
       <2>1. \A k \in K : last[k] \in Range(tasks)
             BY <1>2, <1>4
       <2> QED BY <2>1, <1>9 DEF At
<1> QED BY <1>1, <1>8, <1>10, <1>11 DEF TaskList

\* What the outcome of a task says of it.
SolvesAtOnce(o) == Solves(o) /\ Len(o.patches) = 1
SolvesLater(o) == Solves(o) /\ Len(o.patches) > 1

\* A score says how the task ended.
LEMMA ScoreFields ==
    ASSUME NEW task, NEW o, o.patches \in Seq(Nat)
    PROVE  /\ ScoreTask(task, o).verified <=> Solves(o)
           /\ ScoreTask(task, o).pass1 <=> SolvesAtOnce(o)
           /\ ScoreTask(task, o).repaired <=> SolvesLater(o)
           /\ ScoreTask(task, o).id = IF o.patches = <<>> THEN NoId ELSE task.id
<1> DEFINE s == ScoreTask(task, o)
<1>1. s.verified <=> Solves(o)
      BY Zenon DEF ScoreTask, Solves
<1>2. s.pass1 <=> SolvesAtOnce(o)
      BY Zenon DEF ScoreTask, Solves, SolvesAtOnce, PassAt1
<1>3. s.repaired <=> Len(o.patches) > 1 /\ Solves(o) /\ ~SolvesAtOnce(o)
      BY Zenon DEF ScoreTask, Solves, SolvesAtOnce, PassAt1
<1>4. Len(o.patches) > 1 => Len(o.patches) # 1
      <2>1. PICK n \in Nat : n = Len(o.patches)
            OBVIOUS
      <2>2. n > 1 => n # 1
            OBVIOUS
      <2> QED BY <2>1, <2>2
<1>5. s.id = IF o.patches = <<>> THEN NoId ELSE task.id
      BY Zenon DEF ScoreTask
<1> QED BY <1>1, <1>2, <1>3, <1>4, <1>5 DEF SolvesAtOnce, SolvesLater


\* As many places as tasks.
LEMMA TaskCount ==
    ASSUME NEW set, TaskList(set), NEW N \in SUBSET DOMAIN set, NEW M \in SUBSET Range(set),
           \A k \in DOMAIN set : k \in N <=> set[k] \in M
    PROVE  /\ IsFiniteSet(N) /\ IsFiniteSet(M) /\ Cardinality(N) = Cardinality(M)
           /\ Cardinality(N) \in Nat /\ Cardinality(M) \in Nat
<1>0. set \in Seq(Range(set)) /\ \A k, m \in DOMAIN set : set[k] = set[m] => k = m
      BY DEF TaskList
<1>1. IsFiniteSet(DOMAIN set)
      BY <1>0, Places
<1>2. IsFiniteSet(N) /\ Cardinality(N) \in Nat
      BY <1>1, Sizes
<1>3. Matches(set, N, M)
      <2>1. \A t \in M : \E k \in N : set[k] = t
            BY DEF Range
      <2> QED BY <2>1, <1>0 DEF Matches
<1> QED BY <1>2, <1>3, SameSize

\* A benchmark set has as many places as tasks.
LEMMA ManyTasks ==
    ASSUME NEW set, TaskList(set)
    PROVE  /\ Len(set) = Cardinality(Range(set)) /\ Len(set) \in Nat /\ DOMAIN set = 1 .. Len(set)
           /\ IsFiniteSet(DOMAIN set) /\ IsFiniteSet(Range(set)) /\ \A k \in DOMAIN set : set[k] \in Range(set)
<1>1. set \in Seq(Range(set))
      BY DEF TaskList
<1>2. /\ Cardinality(DOMAIN set) = Len(set) /\ Len(set) \in Nat /\ DOMAIN set = 1 .. Len(set)
      /\ IsFiniteSet(DOMAIN set) /\ \A k \in DOMAIN set : set[k] \in Range(set)
      BY <1>1, Places
<1>3. IsFiniteSet(Range(set)) /\ Cardinality(DOMAIN set) = Cardinality(Range(set))
      BY <1>2, TaskCount
<1> QED BY <1>2, <1>3

\* A report of a run has the score of each task, at the place of the task.
LEMMA RunAllScores ==
    ASSUME NEW set, TaskList(set), NEW run
    PROVE  LET scores == RunAll(set, run).scores
           IN  /\ DOMAIN scores = DOMAIN set /\ Len(scores) = Len(set)
               /\ \A k \in DOMAIN set : scores[k] = ScoreTask(set[k], run[set[k].id])
<1>1. RunAll(set, run).scores = [k \in DOMAIN set |-> ScoreTask(set[k], run[set[k].id])]
      BY Zenon DEF RunAll, EvaluationReport
<1>2. Len(set) \in Nat /\ DOMAIN set = 1 .. Len(set)
      BY ManyTasks
<1> QED BY <1>1, <1>2

\* Every task has an outcome.
Outcomes(set, run) ==
    \A t \in Range(set) : /\ run[t.id].patches \in Seq(Nat)
                          /\ {run[t.id].raises, run[t.id].hidden, run[t.id].regressed} \subseteq BOOLEAN

\* The score at a place says how the task at this place ended.
LEMMA EachScore ==
    ASSUME NEW set, TaskList(set), NEW run, Outcomes(set, run), NEW k \in DOMAIN set,
           NEW s, s = ScoreTask(set[k], run[set[k].id])
    PROVE  /\ s.verified <=> Solves(run[set[k].id])
           /\ s.pass1 <=> SolvesAtOnce(run[set[k].id])
           /\ s.repaired <=> SolvesLater(run[set[k].id])
           /\ s.id = IF run[set[k].id].patches = <<>> THEN NoId ELSE set[k].id
<1>1. set[k] \in Range(set)
      BY ManyTasks
<1>2. run[set[k].id].patches \in Seq(Nat)
      BY <1>1 DEF Outcomes
<1> QED BY <1>2, ScoreFields

\* No task is solved both at once and by repair.
LEMMA ScoresExclusive ==
    ASSUME NEW set, TaskList(set), NEW run, Outcomes(set, run), NEW k \in DOMAIN set,
           NEW s, s = ScoreTask(set[k], run[set[k].id])
    PROVE  /\ ~(s.pass1 /\ s.repaired)
           /\ s.pass1 \/ s.repaired => s.verified
           /\ run[set[k].id].patches # <<>> => (s.verified => s.pass1 \/ s.repaired)
<1>1. run[set[k].id].patches \in Seq(Nat)
      BY ManyTasks DEF Outcomes
<1>2. PICK n \in Nat : n = Len(run[set[k].id].patches)
      BY <1>1
<1>3. run[set[k].id].patches # <<>> => n # 0
      BY <1>1, <1>2
<1>4. n # 0 => n = 1 \/ n > 1
      OBVIOUS
<1>5. ~(n = 1 /\ n > 1)
      OBVIOUS
<1> QED BY <1>2, <1>3, <1>4, <1>5, EachScore DEF SolvesAtOnce, SolvesLater

\* As many scores are passes at once as tasks are.
LEMMA ScoresCounted ==
    ASSUME NEW set, TaskList(set), NEW run, Outcomes(set, run)
    PROVE  Count(RunAll(set, run).scores, IsPass1) =
               Cardinality({t \in Solved(Range(set), run) : Len(run[t.id].patches) = 1})
<1> DEFINE scores == RunAll(set, run).scores
           N == {k \in DOMAIN set : scores[k].pass1}
           M == {t \in Solved(Range(set), run) : Len(run[t.id].patches) = 1}
<1>1. DOMAIN scores = DOMAIN set /\ \A k \in DOMAIN set : scores[k] = ScoreTask(set[k], run[set[k].id])
      BY RunAllScores
<1> HIDE DEF scores
<1>2. Count(scores, IsPass1) = Cardinality(N)
      BY Zenon, <1>1 DEF Count, IsPass1
<1>3. M \in SUBSET Range(set)
      BY DEF Solved
<1>4. \A k \in DOMAIN set : k \in N <=> set[k] \in M
      <2> SUFFICES ASSUME NEW k \in DOMAIN set  PROVE k \in N <=> set[k] \in M
          OBVIOUS
      <2>1. scores[k].pass1 <=> SolvesAtOnce(run[set[k].id])
            BY <1>1, EachScore
      <2>2. set[k] \in Range(set)
            BY ManyTasks
      <2> QED BY <2>1, <2>2 DEF Solved, SolvesAtOnce
<1> HIDE DEF N, M
<1>5. N \in SUBSET DOMAIN set
      BY DEF N
<1>6. Cardinality(N) = Cardinality(M)
      BY <1>3, <1>4, <1>5, TaskCount
<1> QED BY <1>2, <1>6 DEF M, scores

\* A score is that of its task, when there is a patch.
LEMMA ScoreOfTask ==
    ASSUME NEW set, TaskList(set), NEW run, Outcomes(set, run), Patched(Range(set), run), NEW k \in DOMAIN set
    PROVE  ScoreTask(set[k], run[set[k].id]).id = set[k].id
<1>1. set[k] \in Range(set)
      BY ManyTasks
<1>2. run[set[k].id].patches # <<>> /\ run[set[k].id].patches \in Seq(Nat)
      BY <1>1 DEF Patched, Outcomes
<1> QED BY <1>2, ScoreFields

LEMMA LastPlace ==
    ASSUME NEW set, TaskList(set), NEW k \in DOMAIN set
    PROVE  Max({k}) = k
<1>1. DOMAIN set \subseteq Int
      BY Places DEF TaskList
<1>2. IsFiniteSet({k}) /\ {k} # {}
      BY FS_Singleton
<1>3. {k} \subseteq Int
      BY <1>1
<1>4. Max({k}) \in {k}
      BY <1>2, <1>3, MinMax
<1> QED BY <1>4

\* The category of the score at a place.
CategoryAt(report, k) == CategoryOf(report.category, report.scores[k].id)

\* A cell of the breakdown counts the scores of its category.
LEMMA Cells ==
    ASSUME NEW report
    PROVE  LET cells == Breakdown(report)
               C == {CategoryAt(report, k) : k \in DOMAIN report.scores}
           IN  /\ DOMAIN cells = C
               /\ \A c \in DOMAIN cells :
                    /\ cells[c].total = Cardinality({k \in DOMAIN report.scores : CategoryAt(report, k) = c})
                    /\ cells[c].repaired =
                         Cardinality({k \in DOMAIN report.scores :
                                        CategoryAt(report, k) = c /\ report.scores[k].repaired})
<1> DEFINE D == DOMAIN report.scores
           C == {CategoryAt(report, k) : k \in D}
           All(c) == {k \in D : CategoryAt(report, k) = c /\ TRUE}
           Whole(c) == Cardinality(All(c))
           Repaired(c) == Cardinality({k \in D : CategoryAt(report, k) = c /\ report.scores[k].repaired})
           Verified(c) == Cardinality({k \in D : CategoryAt(report, k) = c /\ report.scores[k].verified})
           Once(c) == Cardinality({k \in D : CategoryAt(report, k) = c /\ report.scores[k].pass1})
           Regressed(c) == Cardinality({k \in D : CategoryAt(report, k) = c /\ report.scores[k].regressed})
           Escalated(c) == Cardinality({k \in D : CategoryAt(report, k) = c /\ report.scores[k].escalated})
<1>1. Breakdown(report) =
         [c \in C |-> [total |-> Whole(c), verified |-> Verified(c), pass1 |-> Once(c),
                       repaired |-> Repaired(c), regressed |-> Regressed(c), escalated |-> Escalated(c)]]
      BY Zenon DEF Breakdown, CategoryAt, IsVerified, IsPass1, IsRepaired, IsRegressed, IsEscalated
<1>2. ASSUME NEW c  PROVE Whole(c) = Cardinality({k \in D : CategoryAt(report, k) = c})
      <2>1. All(c) = {k \in D : CategoryAt(report, k) = c}
            OBVIOUS
      <2> HIDE DEF All
      <2> QED BY <2>1
<1> HIDE DEF C, Whole, Repaired, Verified, Once, Regressed, Escalated
<1>3. DOMAIN Breakdown(report) = C
      BY <1>1
<1>4. \A c \in C : Breakdown(report)[c].total = Whole(c) /\ Breakdown(report)[c].repaired = Repaired(c)
      BY <1>1
<1> QED BY <1>2, <1>3, <1>4 DEF C, Repaired

LEMMA CellTotal ==
    ASSUME NEW report, NEW c \in DOMAIN Breakdown(report)
    PROVE  Breakdown(report)[c].total = Cardinality({k \in DOMAIN report.scores : CategoryAt(report, k) = c})
<1> DEFINE D == DOMAIN report.scores
           C == {CategoryAt(report, k) : k \in D}
           cells == Breakdown(report)
<1>1. /\ DOMAIN cells = C
      /\ \A d \in DOMAIN cells :
            /\ cells[d].total = Cardinality({k \in D : CategoryAt(report, k) = d})
            /\ cells[d].repaired = Cardinality({k \in D : CategoryAt(report, k) = d /\ report.scores[k].repaired})
      BY Zenon, Cells
<1> QED BY Zenon, <1>1

\* The cells of a breakdown add up to the report.
LEMMA CellsAddUp ==
    ASSUME NEW report, IsFiniteSet(DOMAIN report.scores)
    PROVE  LET cells == Breakdown(report)
           IN  /\ SumFunction([c \in DOMAIN cells |-> cells[c].total]) = Cardinality(DOMAIN report.scores)
               /\ SumFunction([c \in DOMAIN cells |-> cells[c].repaired]) = Count(report.scores, IsRepaired)
<1> DEFINE D == DOMAIN report.scores
           R == {k \in D : report.scores[k].repaired}
           C == {CategoryAt(report, k) : k \in D}
           cells == Breakdown(report)
           of == [k \in D |-> CategoryAt(report, k)]
           totals == [c \in DOMAIN cells |-> cells[c].total]
           repairs == [c \in DOMAIN cells |-> cells[c].repaired]
<1>1. /\ DOMAIN cells = C
      /\ \A c \in DOMAIN cells :
            /\ cells[c].total = Cardinality({k \in D : CategoryAt(report, k) = c})
            /\ cells[c].repaired = Cardinality({k \in D : CategoryAt(report, k) = c /\ report.scores[k].repaired})
      BY Zenon, Cells
<1>3. \A k \in D : of[k] = CategoryAt(report, k) /\ of[k] \in C
      OBVIOUS
<1>2. IsFiniteSet(C)
      <2>1. of \in Surjection(D, C)
            BY DEF Surjection
      <2> QED BY <2>1, FS_Surjection
<1> HIDE DEF of, cells, C
<1>4. DOMAIN totals = C /\ \A c \in C : totals[c] = cells[c].total
      BY <1>1
<1>5. DOMAIN repairs = C /\ \A c \in C : repairs[c] = cells[c].repaired
      BY <1>1
<1> HIDE DEF totals, repairs
<1>6. SumFunctionOnSet(totals, C) = Cardinality(D)
      <2>1. ASSUME NEW c \in C  PROVE totals[c] = Cardinality({k \in D : of[k] = c})
            <3>1. {k \in D : of[k] = c} = {k \in D : CategoryAt(report, k) = c}
                  BY <1>3
            <3> QED BY <3>1, <1>1, <1>4
      <2>2. PartSizes(totals, C, of, D)
            BY <2>1, <1>3 DEF PartSizes
      <2> QED BY <2>2, <1>2, SumOfParts
<1>7. SumFunctionOnSet(repairs, C) = Cardinality(R)
      <2>1. ASSUME NEW c \in C  PROVE repairs[c] = Cardinality({k \in R : of[k] = c})
            <3>1. {k \in R : of[k] = c} = {k \in D : CategoryAt(report, k) = c /\ report.scores[k].repaired}
                  BY <1>3
            <3> QED BY <3>1, <1>1, <1>5
      <2>2. IsFiniteSet(R)
            BY FS_Subset
      <2>3. \A k \in R : of[k] \in C
            BY <1>3
      <2> HIDE DEF R
      <2>4. PartSizes(repairs, C, of, R)
            BY <2>1, <2>3 DEF PartSizes
      <2> QED BY <2>2, <2>4, <1>2, SumOfParts
<1>8. Count(report.scores, IsRepaired) = Cardinality(R)
      BY Zenon DEF Count, IsRepaired
<1> QED BY Zenon, <1>4, <1>5, <1>6, <1>7, <1>8 DEF SumFunction, totals, repairs, cells

\* Every task has a type.
Typed(set) == \A t \in Range(set) : t.type # ""

\* When every task has a patch, the category of a score is the type of its task.
LEMMA CategoriesOfTasks ==
    ASSUME NEW set, TaskList(set), NEW run, Outcomes(set, run), Patched(Range(set), run),
           Typed(set), NEW k \in DOMAIN set
    PROVE  CategoryAt(RunAll(set, run), k) = set[k].type
<1> DEFINE report == RunAll(set, run)
           scores == report.scores
           made == [m \in DOMAIN set |-> ScoreTask(set[m], run[set[m].id])]
           given == [m \in DOMAIN set |-> set[m].type]
           Given(id) == {m \in DOMAIN made : made[m].id = id /\ given[m] # ""}
           I == {i \in {s.id : s \in Range(made)} : Given(i) # {}}
           id == set[k].id
<1>1. scores = made /\ report.category = [i \in I |-> given[Max(Given(i))]]
      BY Zenon DEF RunAll, EvaluationReport
<1>2. ASSUME NEW m \in DOMAIN set
      PROVE  made[m].id = set[m].id /\ given[m] = set[m].type /\ given[m] # ""
      <2>1. made[m] = ScoreTask(set[m], run[set[m].id]) /\ given[m] = set[m].type
            OBVIOUS
      <2>2. set[m] \in Range(set)
            BY ManyTasks
      <2>3. ScoreTask(set[m], run[set[m].id]).id = set[m].id
            BY ScoreOfTask
      <2>4. set[m].type # ""
            BY <2>2 DEF Typed
      <2> QED BY <2>1, <2>3, <2>4
<1>3. DOMAIN made = DOMAIN set
      OBVIOUS
<1>4. Given(id) = {k}
      <2>1. \A m \in DOMAIN set : set[m].id = set[k].id => m = k
            BY DEF TaskList
      <2> HIDE DEF made, given
      <2> QED BY <1>2, <1>3, <2>1
<1>6. Max({k}) = k
      BY LastPlace
<1>7. id \in {s.id : s \in Range(made)}
      <2>1. made[k] \in Range(made) /\ made[k].id = id
            BY <1>2, <1>3 DEF Range
      <2> QED BY <2>1
<1> HIDE DEF made, given, Given
<1>8. id \in I
      BY <1>4, <1>7
<1> HIDE DEF I, report
<1>9. id \in DOMAIN report.category /\ report.category[id] = given[Max(Given(id))]
      BY <1>1, <1>8
<1>10. report.category[id] = set[k].type
       BY <1>9, <1>4, <1>6, <1>2
<1>11. report.scores[k].id = id
       BY <1>1, <1>2
<1> QED BY <1>9, <1>10, <1>11 DEF CategoryAt, CategoryOf, report

\* And then a cell counts the tasks of its type.
LEMMA CategoriesTrue ==
    ASSUME NEW set, TaskList(set), NEW run, Outcomes(set, run), Patched(Range(set), run),
           Typed(set), NEW c \in DOMAIN Breakdown(RunAll(set, run))
    PROVE  Breakdown(RunAll(set, run))[c].total = Cardinality({t \in Range(set) : t.type = c})
<1> DEFINE report == RunAll(set, run)
           N == {k \in DOMAIN report.scores : CategoryAt(report, k) = c}
           M == {t \in Range(set) : t.type = c}
<1>1. Breakdown(report)[c].total = Cardinality(N)
      BY CellTotal
<1>2. DOMAIN report.scores = DOMAIN set
      BY RunAllScores
<1>3. \A k \in DOMAIN set : k \in N <=> set[k] \in M
      <2>1. \A k \in DOMAIN set : CategoryAt(report, k) = set[k].type /\ set[k] \in Range(set)
            BY CategoriesOfTasks, ManyTasks
      <2> HIDE DEF report
      <2> QED BY <1>2, <2>1
<1>4. N \in SUBSET DOMAIN set
      BY <1>2
<1>6. M \in SUBSET Range(set)
      OBVIOUS
<1> HIDE DEF N, M, report
<1>5. Cardinality(N) = Cardinality(M)
      BY <1>3, <1>4, <1>6, TaskCount
<1> QED BY <1>1, <1>5 DEF M, report

\* The first part of the property: a report counts every task once.
LEMMA ScoresHold ==
    ASSUME NEW set, TaskList(set), NEW run, Outcomes(set, run), Typed(set)
    PROVE  ScoresAddUp(Range(set), run, RunAll(set, run))
<1> DEFINE report == RunAll(set, run)
           scores == report.scores
           cells == Breakdown(report)
           tasks == Range(set)
<1>1. /\ DOMAIN scores = DOMAIN set /\ Len(scores) = Len(set)
      /\ \A k \in DOMAIN set : scores[k] = ScoreTask(set[k], run[set[k].id])
      BY RunAllScores
<1>2. Len(scores) = Cardinality(tasks) /\ IsFiniteSet(DOMAIN scores) /\ Cardinality(DOMAIN scores) = Len(scores)
      <2>1. set \in Seq(Range(set))
            BY DEF TaskList
      <2> QED BY <1>1, <2>1, ManyTasks, Places
<1>3. ASSUME NEW s \in Range(scores)
      PROVE  /\ ~(s.pass1 /\ s.repaired) /\ (s.pass1 \/ s.repaired => s.verified)
             /\ Patched(tasks, run) => (s.verified => s.pass1 \/ s.repaired)
      <2>1. PICK k \in DOMAIN scores : s = scores[k]
            BY DEF Range
      <2>2. k \in DOMAIN set /\ s = ScoreTask(set[k], run[set[k].id]) /\ set[k] \in Range(set)
            BY <2>1, <1>1, ManyTasks
      <2>3. Patched(tasks, run) => run[set[k].id].patches # <<>>
            BY <2>2 DEF Patched
      <2> QED BY <2>2, <2>3, ScoresExclusive
<1>4. Count(scores, IsPass1) = Cardinality({t \in Solved(tasks, run) : Len(run[t.id].patches) = 1})
      BY ScoresCounted
<1>5. /\ SumFunction([c \in DOMAIN cells |-> cells[c].total]) = Len(scores)
      /\ SumFunction([c \in DOMAIN cells |-> cells[c].repaired]) = Count(scores, IsRepaired)
      BY <1>2, CellsAddUp
<1>6. Patched(tasks, run) =>
          \A c \in DOMAIN cells : cells[c].total = Cardinality({t \in tasks : t.type = c})
      BY CategoriesTrue
<1> QED BY Zenon, <1>2, <1>3, <1>4, <1>5, <1>6 DEF ScoresAddUp

LEMMA Products ==
    ASSUME NEW a \in Nat, NEW b \in Nat, NEW n \in Nat, n > 0
    PROVE  /\ a * n \in Nat /\ b * n \in Nat
           /\ a > b => a * n > b * n
           /\ a <= b => a * n <= b * n
<1>1. a * n \in Nat /\ b * n \in Nat
      OBVIOUS
<1>2. a > b => a * n > b * n
      <2> SUFFICES ASSUME a > b  PROVE a * n > b * n
          OBVIOUS
      <2>1. PICK d \in Nat : a = b + d + 1
            <3>1. a - b - 1 \in Nat /\ a = b + (a - b - 1) + 1
                  OBVIOUS
            <3> QED BY <3>1
      <2>2. a * n = b * n + d * n + n /\ d * n \in Nat
            BY <2>1
      <2> QED BY <2>2, <1>1
<1>3. a <= b => a * n <= b * n
      <2> SUFFICES ASSUME a <= b  PROVE a * n <= b * n
          OBVIOUS
      <2>1. PICK d \in Nat : b = a + d
            <3>1. b - a \in Nat /\ b = a + (b - a)
                  OBVIOUS
            <3> QED BY <3>1
      <2>2. b * n = a * n + d * n /\ d * n \in Nat
            BY <2>1
      <2> QED BY <2>2, <1>1
<1> QED BY <1>1, <1>2, <1>3

\* Of as many tasks, the higher rate is the one with more successes.
LEMMA MoreOfAsMany ==
    ASSUME NEW a \in Nat, NEW b \in Nat, NEW n \in Nat, a <= n, b <= n
    PROVE  Minus(Over(a, n), Over(b, n))[1] > 0 <=> a > b
<1>1. CASE n = 0
      <2>1. a = 0 /\ b = 0 /\ Over(a, n) = <<0, 1>> /\ Over(b, n) = <<0, 1>>
            BY <1>1 DEF Over
      <2>2. Minus(Over(a, n), Over(b, n)) = <<0 * 1 - 0 * 1, 1 * 1>>
            BY <2>1 DEF Minus
      <2>3. 0 * 1 - 0 * 1 = 0
            OBVIOUS
      <2> QED BY <2>1, <2>2, <2>3
<1>2. CASE n # 0
      <2>1. Over(a, n) = <<a, n>> /\ Over(b, n) = <<b, n>>
            BY <1>2 DEF Over
      <2>2. Minus(Over(a, n), Over(b, n))[1] = a * n - b * n
            BY <2>1 DEF Minus
      <2>3. a * n \in Nat /\ b * n \in Nat /\ (a > b => a * n > b * n) /\ (a <= b => a * n <= b * n)
            BY <1>2, Products
      <2>4. PICK p \in Nat, q \in Nat : p = a * n /\ q = b * n
            BY <2>3
      <2> QED BY <2>2, <2>3, <2>4
<1> QED BY <1>1, <1>2

LEMMA RateVerified ==
    ASSUME NEW scores
    PROVE  /\ Rates(FromScores(scores)).verified = Over(Count(scores, IsVerified), Len(scores))
           /\ "verified" \in DOMAIN Rates(FromScores(scores))
<1>1. FromScores(scores).scores = scores
      BY Zenon DEF FromScores, EvaluationReport
<1>2. Rates(FromScores(scores)).verified = Over(Count(FromScores(scores).scores, IsVerified), Total(FromScores(scores)))
      BY Zenon DEF Rates
<1>3. "verified" \in DOMAIN Rates(FromScores(scores))
      BY DEF Rates
<1> QED BY <1>1, <1>2, <1>3 DEF Total

\* An outcome a comparison counts.
Succeeds(o) == Solves(o) /\ ~o.raises

LEMMA FailedScoreFields ==
    ASSUME NEW id
    PROVE  ~FailedScore(id).verified /\ FailedScore(id).id = id
BY DEF FailedScore

\* A comparison counts a task as solved when its runner did not raise and it was.
LEMMA ModelScore ==
    ASSUME NEW set, TaskList(set), NEW run, Outcomes(set, run), NEW k \in DOMAIN set
    PROVE  /\ RunModel(set, run)[k].verified <=> Succeeds(run[set[k].id])
           /\ Patched(Range(set), run) => RunModel(set, run)[k].id = set[k].id
<1> DEFINE o == run[set[k].id]
           s == RunModel(set, run)[k]
<1>1. s = IF o.raises THEN FailedScore(set[k].id) ELSE ScoreTask(set[k], o)
      BY Zenon DEF RunModel
<1>2. CASE o.raises
      <2>1. s = FailedScore(set[k].id)
            BY <1>1, <1>2
      <2>2. ~FailedScore(set[k].id).verified /\ FailedScore(set[k].id).id = set[k].id
            BY FailedScoreFields
      <2> QED BY Zenon, <2>1, <2>2, <1>2 DEF Succeeds
<1>3. CASE ~o.raises
      <2>1. s = ScoreTask(set[k], o)
            BY <1>1, <1>3
      <2>2. ScoreTask(set[k], o).verified <=> Solves(o)
            BY EachScore
      <2>3. Patched(Range(set), run) => ScoreTask(set[k], o).id = set[k].id
            BY ScoreOfTask
      <2> QED BY Zenon, <2>1, <2>2, <2>3, <1>3 DEF Succeeds
<1> QED BY <1>2, <1>3

LEMMA ModelScores ==
    ASSUME NEW set, TaskList(set), NEW run
    PROVE  DOMAIN RunModel(set, run) = DOMAIN set /\ Len(RunModel(set, run)) = Len(set)
<1>1. Len(set) \in Nat /\ DOMAIN set = 1 .. Len(set)
      BY ManyTasks
<1>2. DOMAIN RunModel(set, run) = DOMAIN set
      BY Zenon DEF RunModel
<1>3. Len(RunModel(set, run)) = Len(set)
      BY <1>1 DEF RunModel
<1> QED BY <1>2, <1>3

\* So it counts the successes.
LEMMA ModelCount ==
    ASSUME NEW set, TaskList(set), NEW run, Outcomes(set, run)
    PROVE  /\ Count(RunModel(set, run), IsVerified) = Cardinality(Successes(Range(set), run))
           /\ Cardinality(Successes(Range(set), run)) \in Nat
           /\ Cardinality(Successes(Range(set), run)) <= Len(set)
<1> DEFINE s == RunModel(set, run)
           N == {k \in DOMAIN set : s[k].verified}
           M == Successes(Range(set), run)
<1>1. DOMAIN s = DOMAIN set /\ \A k \in DOMAIN set : s[k].verified <=> Succeeds(run[set[k].id])
      BY ModelScores, ModelScore
<1> HIDE DEF s
<1>2. Count(s, IsVerified) = Cardinality(N)
      BY Zenon, <1>1 DEF Count, IsVerified
<1>3. M \in SUBSET Range(set)
      BY DEF Successes, Solved
<1>4. \A k \in DOMAIN set : k \in N <=> set[k] \in M
      <2> SUFFICES ASSUME NEW k \in DOMAIN set  PROVE k \in N <=> set[k] \in M
          OBVIOUS
      <2>1. k \in N <=> Succeeds(run[set[k].id])
            BY <1>1
      <2>2. set[k] \in Range(set)
            BY ManyTasks
      <2>3. set[k] \in M <=> Succeeds(run[set[k].id])
            BY <2>2 DEF Successes, Solved, Succeeds
      <2> QED BY <2>1, <2>3
<1>5. N \in SUBSET DOMAIN set
      OBVIOUS
<1> HIDE DEF N, M
<1>6. Cardinality(N) = Cardinality(M) /\ Cardinality(M) \in Nat
      BY <1>3, <1>4, <1>5, TaskCount
<1>7. Cardinality(M) <= Cardinality(Range(set))
      BY <1>3, ManyTasks, Sizes
<1>8. Cardinality(Range(set)) = Len(set)
      BY ManyTasks
<1> QED BY <1>2, <1>6, <1>7, <1>8 DEF M, s

\* A model improves on another exactly when it succeeds more often.
LEMMA ImprovesByCount ==
    ASSUME NEW set, TaskList(set), NEW base, Outcomes(set, base), NEW tuned, Outcomes(set, tuned)
    PROVE  Comparison(set, base, tuned).improvement <=>
              Cardinality(Successes(Range(set), tuned)) > Cardinality(Successes(Range(set), base))
<1> DEFINE b == RunModel(set, base)
           f == RunModel(set, tuned)
           n == Len(set)
           p == Cardinality(Successes(Range(set), base))
           q == Cardinality(Successes(Range(set), tuned))
<1>1. Comparison(set, base, tuned).improvement <=>
         Minus(Rates(FromScores(f)).verified, Rates(FromScores(b)).verified)[1] > 0
      <2>1. "verified" \in DOMAIN Rates(FromScores(b))
            BY RateVerified
      <2>2. Compare(FromScores(b), FromScores(f)).verified =
               Minus(Rates(FromScores(f)).verified, Rates(FromScores(b)).verified)
            BY <2>1, Zenon DEF Compare
      <2>3. Comparison(set, base, tuned).improvement <=> Compare(FromScores(b), FromScores(f)).verified[1] > 0
            BY Zenon DEF Comparison
      <2> QED BY <2>2, <2>3
<1>2. Rates(FromScores(b)).verified = Over(p, n) /\ Rates(FromScores(f)).verified = Over(q, n)
      BY RateVerified, ModelCount, ModelScores
<1>3. p \in Nat /\ q \in Nat /\ n \in Nat /\ p <= n /\ q <= n
      BY ModelCount, ManyTasks
<1> HIDE DEF p, q, n, b, f
<1>4. Minus(Over(q, n), Over(p, n))[1] > 0 <=> q > p
      BY <1>3, MoreOfAsMany
<1> QED BY <1>1, <1>2, <1>4 DEF p, q

\* The identifiers of a list of tasks.
Ids(set) == {set[k].id : k \in DOMAIN set}

\* The scores of a set of tasks have the identifiers of the tasks.
ScoresOf(set, scores) == DOMAIN scores = DOMAIN set /\ \A k \in DOMAIN set : scores[k].id = set[k].id

\* Put in a dictionary, the scores of distinct identifiers all stay.
LEMMA ByTaskOf ==
    ASSUME NEW set, TaskList(set), NEW scores, ScoresOf(set, scores)
    PROVE  /\ DOMAIN ByTask(scores) = Ids(set)
           /\ \A k \in DOMAIN set : ByTask(scores)[set[k].id] = scores[k]
<1> DEFINE Same(id) == {k \in DOMAIN scores : scores[k].id = id}
           I == {s.id : s \in Range(scores)}
<1>1. ByTask(scores) = [id \in I |-> scores[Max(Same(id))]]
      BY Zenon DEF ByTask
<1>2. DOMAIN scores = DOMAIN set /\ \A k \in DOMAIN set : scores[k].id = set[k].id
      BY DEF ScoresOf
<1>3. I = Ids(set)
      <2>1. ASSUME NEW k \in DOMAIN set  PROVE set[k].id \in I
            BY <1>2 DEF Range
      <2>2. ASSUME NEW i \in I  PROVE \E k \in DOMAIN set : i = set[k].id
            BY <1>2 DEF Range
      <2> QED BY <2>1, <2>2 DEF Ids
<1>4. ASSUME NEW k \in DOMAIN set
      PROVE  ByTask(scores)[set[k].id] = scores[k]
      <2>1. Same(set[k].id) = {k}
            <3>1. \A m \in DOMAIN set : set[m].id = set[k].id => m = k
                  BY DEF TaskList
            <3> QED BY <3>1, <1>2
      <2>2. set[k].id \in I
            BY <1>3 DEF Ids
      <2> HIDE DEF I, Same
      <2>3. ByTask(scores)[set[k].id] = scores[Max({k})]
            BY <2>1, <2>2, <1>1
      <2> QED BY <2>3, LastPlace
<1>5. DOMAIN ByTask(scores) = I
      BY <1>1
<1> QED BY <1>3, <1>4, <1>5

\* The identifiers of the tasks a model succeeds in.
IdsOfSuccesses(set, run) == {set[k].id : k \in {m \in DOMAIN set : Succeeds(run[set[m].id])}}

\* There are as many identifiers of successes as successes.
LEMMA CountIds ==
    ASSUME NEW set, TaskList(set), NEW run, Outcomes(set, run)
    PROVE  /\ IdsOfSuccesses(set, run) \in SUBSET Ids(set) /\ IsFiniteSet(Ids(set))
           /\ Cardinality(IdsOfSuccesses(set, run)) = Cardinality(Successes(Range(set), run))
<1> DEFINE N == {m \in DOMAIN set : Succeeds(run[set[m].id])}
           M == Successes(Range(set), run)
           of == [k \in DOMAIN set |-> set[k].id]
<1>1. IdsOfSuccesses(set, run) \in SUBSET Ids(set)
      BY DEF IdsOfSuccesses, Ids
<1>2. \A k, m \in DOMAIN set : set[k].id = set[m].id => k = m
      BY DEF TaskList
<1>3. M \in SUBSET Range(set)
      BY DEF Successes, Solved
<1>4. \A k \in DOMAIN set : k \in N <=> set[k] \in M
      <2> SUFFICES ASSUME NEW k \in DOMAIN set  PROVE k \in N <=> set[k] \in M
          OBVIOUS
      <2>1. set[k] \in Range(set)
            BY ManyTasks
      <2> QED BY <2>1 DEF Successes, Solved, Succeeds
<1>5. N \in SUBSET DOMAIN set
      OBVIOUS
<1>6. \A k \in DOMAIN set : of[k] = set[k].id
      OBVIOUS
<1>7. Matches(of, N, IdsOfSuccesses(set, run)) /\ Matches(of, DOMAIN set, Ids(set))
      <2> HIDE DEF of
      <2>1. Matches(of, DOMAIN set, Ids(set))
            BY <1>2, <1>6 DEF Matches, Ids
      <2>2. Matches(of, N, IdsOfSuccesses(set, run))
            <3>1. IdsOfSuccesses(set, run) = {set[k].id : k \in N}
                  BY DEF IdsOfSuccesses
            <3> HIDE DEF N
            <3> QED BY <3>1, <1>2, <1>5, <1>6 DEF Matches
      <2> QED BY <2>1, <2>2
<1> HIDE DEF N, M, of
<1>8. Cardinality(N) = Cardinality(M) /\ IsFiniteSet(N)
      BY <1>3, <1>4, <1>5, TaskCount
<1>9. Cardinality(N) = Cardinality(IdsOfSuccesses(set, run))
      BY <1>7, <1>8, SameSize
<1>10. IsFiniteSet(Ids(set))
       <2>1. IsFiniteSet(DOMAIN set)
             BY ManyTasks
       <2> QED BY <2>1, <1>7, SameSize
<1> QED BY <1>1, <1>8, <1>9, <1>10 DEF M

\* The deltas of the tasks add up to the difference of the successes.
LEMMA ImprovesByTask ==
    ASSUME NEW set, TaskList(set), NEW base, Outcomes(set, base), NEW tuned, Outcomes(set, tuned),
           Patched(Range(set), base), Patched(Range(set), tuned)
    PROVE  LET deltas == Comparison(set, base, tuned).perTask
           IN  SumFunction([i \in DOMAIN deltas |-> deltas[i].verified]) =
                   Cardinality(Successes(Range(set), tuned)) - Cardinality(Successes(Range(set), base))
<1> DEFINE b == RunModel(set, base)
           f == RunModel(set, tuned)
           deltas == Comparison(set, base, tuned).perTask
           sums == [i \in DOMAIN deltas |-> deltas[i].verified]
           I == Ids(set)
           A == IdsOfSuccesses(set, tuned)
           B == IdsOfSuccesses(set, base)
<1>1. deltas = ComputePerTaskDeltas(b, f)
      BY Zenon DEF Comparison
<1>2. ScoresOf(set, b) /\ ScoresOf(set, f)
      BY ModelScores, ModelScore DEF ScoresOf
<1> HIDE DEF deltas
<1>3. /\ DOMAIN ByTask(b) = I /\ DOMAIN ByTask(f) = I
      /\ \A k \in DOMAIN set : ByTask(b)[set[k].id] = b[k] /\ ByTask(f)[set[k].id] = f[k]
      BY <1>2, ByTaskOf
<1>4. DOMAIN deltas = I
      <2>1. DOMAIN deltas = DOMAIN ByTask(b) \intersect DOMAIN ByTask(f)
            BY Zenon, <1>1 DEF ComputePerTaskDeltas
      <2> QED BY <2>1, <1>3
<1>5. \A i \in I : deltas[i].verified = Truth(ByTask(f)[i].verified) - Truth(ByTask(b)[i].verified)
      <2> SUFFICES ASSUME NEW i \in I
                   PROVE  deltas[i].verified = Truth(ByTask(f)[i].verified) - Truth(ByTask(b)[i].verified)
          OBVIOUS
      <2>1. i \in DOMAIN ByTask(b) \intersect DOMAIN ByTask(f)
            BY <1>3
      <2> QED BY Zenon, <2>1, <1>1 DEF ComputePerTaskDeltas
<1>6. DOMAIN sums = I /\ \A i \in I : sums[i] = deltas[i].verified
      BY <1>4
<1> HIDE DEF sums
<1>7. ASSUME NEW i \in I
      PROVE  sums[i] = (IF i \in A THEN 1 ELSE 0) - (IF i \in B THEN 1 ELSE 0)
      <2>1. PICK k \in DOMAIN set : i = set[k].id
            BY DEF Ids
      <2>2. /\ b[k].verified <=> Succeeds(base[i])
            /\ f[k].verified <=> Succeeds(tuned[i])
            BY <2>1, ModelScore
      <2>3. \A m \in DOMAIN set : set[m].id = i => m = k
            BY <2>1 DEF TaskList
      <2>4. (i \in A <=> Succeeds(tuned[i])) /\ (i \in B <=> Succeeds(base[i]))
            BY <2>1, <2>3 DEF IdsOfSuccesses
      <2>5. sums[i] = Truth(f[k].verified) - Truth(b[k].verified)
            BY <1>3, <1>5, <1>6, <2>1
      <2>6. /\ Truth(f[k].verified) = IF i \in A THEN 1 ELSE 0
            /\ Truth(b[k].verified) = IF i \in B THEN 1 ELSE 0
            BY Zenon, <2>2, <2>4 DEF Truth
      <2> QED BY <2>5, <2>6
<1>8. /\ A \in SUBSET I /\ B \in SUBSET I /\ IsFiniteSet(I)
      /\ Cardinality(A) = Cardinality(Successes(Range(set), tuned))
      /\ Cardinality(B) = Cardinality(Successes(Range(set), base))
      BY CountIds
<1> HIDE DEF A, B, I
<1>9. SumFunctionOnSet(sums, I) = Cardinality(A) - Cardinality(B)
      BY <1>7, <1>8, SumOfDifferences
<1> QED BY Zenon, <1>6, <1>8, <1>9 DEF SumFunction, sums, deltas

\* The second part: a model improves exactly when it verifies more.
LEMMA ImprovementHolds ==
    ASSUME NEW set, TaskList(set), NEW base, Outcomes(set, base), NEW tuned, Outcomes(set, tuned)
    PROVE  ImprovementTrue(Range(set), base, tuned, Comparison(set, base, tuned))
<1> DEFINE comparison == Comparison(set, base, tuned)
           verified == [i \in DOMAIN comparison.perTask |-> comparison.perTask[i].verified]
           p == Cardinality(Successes(Range(set), base))
           q == Cardinality(Successes(Range(set), tuned))
<1>1. comparison.improvement <=> q > p
      BY ImprovesByCount
<1>2. ASSUME Patched(Range(set), base) /\ Patched(Range(set), tuned)
      PROVE  comparison.improvement <=> SumFunction(verified) > 0
      <2>1. SumFunction(verified) = q - p
            BY <1>2, ImprovesByTask
      <2>2. p \in Nat /\ q \in Nat
            BY ModelCount
      <2> HIDE DEF verified, p, q
      <2>3. SumFunction(verified) > 0 <=> q > p
            BY <2>1, <2>2
      <2> QED BY <2>3, <1>1
<1> QED BY Zenon, <1>1, <1>2 DEF ImprovementTrue

\* As many of fewer are a rate that is not lower.
LEMMA NotLowerOfFewer ==
    ASSUME NEW c \in Nat, NEW m \in Nat, NEW n \in Nat, c <= m, m <= n
    PROVE  Minus(Over(c, m), Over(c, n))[1] >= 0
<1>1. CASE n = 0
      <2>1. c = 0 /\ m = 0
            BY <1>1
      <2>2. Over(c, m) = <<0, 1>> /\ Over(c, n) = <<0, 1>>
            BY <1>1, <2>1 DEF Over
      <2>3. Minus(Over(c, m), Over(c, n)) = <<0 * 1 - 0 * 1, 1 * 1>>
            BY <2>2 DEF Minus
      <2>4. 0 * 1 - 0 * 1 = 0
            OBVIOUS
      <2> QED BY <2>3, <2>4
<1>2. CASE m = 0 /\ n # 0
      <2>1. c = 0
            BY <1>2
      <2>2. Over(c, m) = <<0, 1>> /\ Over(c, n) = <<0, n>>
            BY <1>2, <2>1 DEF Over
      <2>3. Minus(Over(c, m), Over(c, n)) = <<0 * n - 0 * 1, 1 * n>>
            BY <2>2 DEF Minus
      <2>4. 0 * n - 0 * 1 = 0
            OBVIOUS
      <2> QED BY <2>3, <2>4
<1>3. CASE m # 0
      <2>1. n # 0
            BY <1>3
      <2>2. Over(c, m) = <<c, m>> /\ Over(c, n) = <<c, n>>
            BY <1>3, <2>1 DEF Over
      <2>3. Minus(Over(c, m), Over(c, n)) = <<c * n - c * m, m * n>>
            BY <2>2 DEF Minus
      <2>4. c * n - c * m >= 0
            <3>1. PICK d \in Nat : n = m + d
                  <4>1. n - m \in Nat /\ n = m + (n - m)
                        OBVIOUS
                  <4> QED BY <4>1
            <3>2. c * n - c * m = c * d /\ c * d \in Nat
                  BY <3>1
            <3> QED BY <3>2
      <2> QED BY <2>3, <2>4
<1> QED BY <1>1, <1>2, <1>3

\* The results of all the tasks, in the order found.
Results(set, run, order) == [k \in DOMAIN order |-> ScoreTask(set[order[k]], run[set[order[k]].id])]
Ended(set, run, order) == {k \in DOMAIN order : ~run[set[order[k]].id].raises}

\* An order in which each result comes back once.
InOrder(set, order) == order \in Seq(Nat) /\ order \in Bijection(DOMAIN order, DOMAIN set)

\* The results of a distributed benchmark come back once each.
LEMMA OrderLaws ==
    ASSUME NEW set, TaskList(set), NEW order, InOrder(set, order)
    PROVE  /\ IsFiniteSet(DOMAIN order) /\ DOMAIN order \in SUBSET Int
           /\ Cardinality(DOMAIN order) = Len(set)
           /\ \A k \in DOMAIN order : order[k] \in DOMAIN set
           /\ \A k, m \in DOMAIN order : order[k] = order[m] => k = m
           /\ \A j \in DOMAIN set : \E k \in DOMAIN order : order[k] = j
<1>1. IsFiniteSet(DOMAIN order) /\ DOMAIN order \in SUBSET Int
      BY Places DEF InOrder
<1>2. /\ \A k \in DOMAIN order : order[k] \in DOMAIN set
      /\ \A k, m \in DOMAIN order : order[k] = order[m] => k = m
      /\ \A j \in DOMAIN set : \E k \in DOMAIN order : order[k] = j
      BY DEF InOrder, Bijection, Injection, Surjection, IsInjective
<1>3. Cardinality(DOMAIN order) = Cardinality(DOMAIN set)
      <2>1. Matches(order, DOMAIN order, DOMAIN set)
            BY <1>2 DEF Matches
      <2> QED BY <2>1, <1>1, SameSize
<1>4. Cardinality(DOMAIN set) = Len(set)
      BY Places DEF TaskList
<1> QED BY <1>1, <1>2, <1>3, <1>4

\* Those that did not raise hold all the successes.
LEMMA EndedLaws ==
    ASSUME NEW set, TaskList(set), NEW order, InOrder(set, order), NEW run, Outcomes(set, run)
    PROVE  /\ IsFiniteSet(Ended(set, run, order)) /\ Ended(set, run, order) \in SUBSET Int
           /\ Cardinality(Ended(set, run, order)) \in Nat
           /\ Cardinality(Ended(set, run, order)) <= Len(set)
           /\ Cardinality({k \in Ended(set, run, order) : Results(set, run, order)[k].verified})
                = Cardinality(Successes(Range(set), run))
           /\ Cardinality({k \in Ended(set, run, order) : Results(set, run, order)[k].verified})
                <= Cardinality(Ended(set, run, order))
<1> DEFINE K == Ended(set, run, order)
           s == Results(set, run, order)
           M == {k \in K : s[k].verified}
           X == Successes(Range(set), run)
           of == [k \in DOMAIN order |-> set[order[k]]]
<1>1. /\ IsFiniteSet(DOMAIN order) /\ DOMAIN order \in SUBSET Int
      /\ Cardinality(DOMAIN order) = Len(set)
      BY OrderLaws
<1>2. /\ \A k \in DOMAIN order : order[k] \in DOMAIN set
      /\ \A k, m \in DOMAIN order : order[k] = order[m] => k = m
      /\ \A j \in DOMAIN set : \E k \in DOMAIN order : order[k] = j
      BY OrderLaws
<1>3. K \in SUBSET DOMAIN order /\ M \in SUBSET K
      BY DEF Ended
<1>4. \A k \in DOMAIN order : s[k].verified <=> Solves(run[set[order[k]].id])
      <2> SUFFICES ASSUME NEW k \in DOMAIN order  PROVE s[k].verified <=> Solves(run[set[order[k]].id])
          OBVIOUS
      <2>1. s[k] = ScoreTask(set[order[k]], run[set[order[k]].id])
            BY DEF Results
      <2>2. order[k] \in DOMAIN set
            BY <1>2
      <2> QED BY <2>1, <2>2, EachScore
<1>5. \A k \in DOMAIN order : k \in M <=> Succeeds(run[set[order[k]].id])
      BY <1>4 DEF Ended, Succeeds
<1>6. \A k \in DOMAIN order : of[k] = set[order[k]]
      OBVIOUS
<1> HIDE DEF M, K, s, of
<1>7. Matches(of, M, X)
      <2>1. ASSUME NEW k \in M  PROVE of[k] \in X
            <3>1. of[k] = set[order[k]] /\ order[k] \in DOMAIN set /\ Succeeds(run[set[order[k]].id])
                  BY <1>2, <1>3, <1>5, <1>6
            <3>2. set[order[k]] \in Range(set)
                  BY <3>1, ManyTasks
            <3> QED BY <3>1, <3>2 DEF Successes, Solved, Succeeds
      <2>2. ASSUME NEW k \in M, NEW m \in M, of[k] = of[m]  PROVE k = m
            <3>1. k \in DOMAIN order /\ m \in DOMAIN order
                  BY <1>3
            <3>2. order[k] \in DOMAIN set /\ order[m] \in DOMAIN set /\ set[order[k]] = set[order[m]]
                  BY <3>1, <1>2, <1>6, <2>2
            <3>3. order[k] = order[m]
                  BY <3>2 DEF TaskList
            <3> QED BY <3>1, <3>3, <1>2
      <2>3. ASSUME NEW t \in X  PROVE \E k \in M : of[k] = t
            <3>1. t \in Range(set) /\ Succeeds(run[t.id])
                  BY DEF Successes, Solved, Succeeds
            <3>2. PICK j \in DOMAIN set : set[j] = t
                  BY <3>1 DEF Range
            <3>3. PICK k \in DOMAIN order : order[k] = j
                  BY <1>2
            <3>4. k \in M /\ of[k] = t
                  BY <3>1, <3>2, <3>3, <1>5, <1>6
            <3> QED BY <3>4
      <2> QED BY <2>1, <2>2, <2>3 DEF Matches
<1>8. IsFiniteSet(K) /\ Cardinality(K) \in Nat /\ Cardinality(K) <= Len(set)
      BY <1>1, <1>3, Sizes
<1>9. IsFiniteSet(M) /\ Cardinality(M) <= Cardinality(K)
      BY <1>3, <1>8, Sizes
<1>10. Cardinality(M) = Cardinality(X)
       BY <1>7, <1>9, SameSize
<1>11. K \in SUBSET Int
       BY <1>1, <1>3
<1> QED BY <1>8, <1>9, <1>10, <1>11 DEF M, K, s

\* The third part: leaving out failed jobs never shows a lower rate.
LEMMA RateHolds ==
    ASSUME NEW set, TaskList(set), NEW order, InOrder(set, order), NEW run, Outcomes(set, run)
    PROVE  RateNotLower(Range(set), run, DistributedReport(set, run, order))
<1> DEFINE K == Ended(set, run, order)
           s == Results(set, run, order)
           M == {k \in K : s[k].verified}
           p == Picked(s, K)
           N == {n \in DOMAIN p : p[n].verified}
           c == Cardinality(Successes(Range(set), run))
<1>1. DistributedReport(set, run, order) = FromScores(p)
      BY Zenon DEF DistributedReport, Results, Ended
<1>2. IsFiniteSet(K) /\ K \in SUBSET Int /\ Cardinality(K) \in Nat /\ Cardinality(K) <= Len(set)
      BY EndedLaws
<1>3. Cardinality(M) = c /\ c <= Cardinality(K) /\ c \in Nat
      BY EndedLaws, ModelCount
<1> HIDE DEF K, s
<1>4. Len(p) = Cardinality(K) /\ DOMAIN p = 1 .. Cardinality(K)
      BY <1>2, PickedPlaces
<1>5. \A n \in DOMAIN p : p[n] = s[Ascending(K)[n]] /\ Ascending(K)[n] \in K
      <2>1. \A n \in 1 .. Cardinality(K) : p[n] = s[Ascending(K)[n]] /\ Ascending(K)[n] \in K
            BY Zenon, <1>2, PickedPlaces
      <2> QED BY <2>1, <1>4
<1> HIDE DEF p
<1>6. Cardinality(N) = Cardinality(M)
      <2> DEFINE a == Ascending(K)
      <2>1. /\ \A k, m \in 1 .. Cardinality(K) : a[k] = a[m] => k = m
            /\ \A i \in K : \E k \in 1 .. Cardinality(K) : a[k] = i
            BY <1>2, AscendingLaws
      <2>2. \A n \in 1 .. Cardinality(K) : n \in N <=> a[n] \in M
            BY <1>4, <1>5
      <2>3. N \in SUBSET (1 .. Cardinality(K))
            BY <1>4
      <2>4. M \in SUBSET K
            OBVIOUS
      <2> HIDE DEF a, N, M
      <2>5. Matches(a, N, M)
            BY <2>1, <2>2, <2>3, <2>4 DEF Matches
      <2>6. IsFiniteSet(N)
            <3>1. IsFiniteSet(1 .. Cardinality(K))
                  BY <1>2, FS_Interval
            <3> QED BY <3>1, <2>3, FS_Subset
      <2> QED BY <2>5, <2>6, SameSize
<1>7. Count(p, IsVerified) = Cardinality(N)
      BY Zenon DEF Count, IsVerified
<1>8. Rates(FromScores(p)).verified = Over(c, Cardinality(K))
      BY <1>3, <1>4, <1>6, <1>7, RateVerified
<1>9. Cardinality(Range(set)) = Len(set) /\ Len(set) \in Nat
      BY ManyTasks
<1> HIDE DEF c, M, N
<1>10. Minus(Over(c, Cardinality(K)), Over(c, Cardinality(Range(set))))[1] >= 0
       BY <1>2, <1>3, <1>9, NotLowerOfFewer
<1> QED BY Zenon, <1>1, <1>8, <1>10 DEF RateNotLower, c

-----------------------------------------------------------------------------
\* Training data.

\* The rank of an element counts it and those below.
LEMMA RankOf ==
    ASSUME NEW D, IsFiniteSet(D), D \in SUBSET (Nat \ {0}), NEW S \in SUBSET D, NEW k \in S,
           NEW R, \A i : i \in R <=> i \in 1 .. k /\ i \in S
    PROVE  Cardinality(R) = Cardinality(Below(S, k)) + 1
<1>1. IsFiniteSet(S)
      BY FS_Subset
<1>2. k \in Nat \ {0}
      OBVIOUS
<1>5. \A j \in S : j \in Nat /\ 1 <= j
      OBVIOUS
<1>3. R = Below(S, k) \union {k}
      <2>1. ASSUME NEW i \in R  PROVE i \in Below(S, k) \union {k}
            BY <1>2, <1>5 DEF Below
      <2>2. ASSUME NEW i \in Below(S, k)  PROVE i \in R
            BY <1>2, <1>5 DEF Below
      <2>3. k \in R
            BY <1>2, <1>5
      <2> QED BY <2>1, <2>2, <2>3
<1>4. k \notin Below(S, k) /\ Below(S, k) \subseteq S
      BY <1>2 DEF Below
<1> QED BY <1>1, <1>3, <1>4, Sizes

\* The place of an element says how many are not above it.
LEMMA PlaceIsRank ==
    ASSUME NEW D, IsFiniteSet(D), D \in SUBSET (Nat \ {0}), NEW S \in SUBSET D, NEW k \in S,
           NEW R, \A i : i \in R <=> i \in 1 .. k /\ i \in S
    PROVE  /\ Cardinality(R) \in DOMAIN Ascending(S) /\ Ascending(S)[Cardinality(R)] = k
           /\ \A r \in DOMAIN Ascending(S) : Ascending(S)[r] = k => r = Cardinality(R)
<1> DEFINE a == Ascending(S)
           n == Cardinality(S)
<1>1. IsFiniteSet(S) /\ S \subseteq Int
      <2>1. S \subseteq Int
            OBVIOUS
      <2>2. IsFiniteSet(S)
            BY FS_Subset
      <2> QED BY <2>1, <2>2
<1>2. /\ DOMAIN a = 1 .. n /\ n \in Nat
      /\ \A r \in 1 .. n : Cardinality(Below(S, a[r])) = r - 1
      /\ \A i \in S : \E r \in 1 .. n : a[r] = i
      <2>1. \A r \in 1 .. n : Cardinality(Below(S, a[r])) = r - 1
            BY <1>1, AscendingLaws
      <2>2. \A i \in S : \E r \in 1 .. n : a[r] = i
            BY <1>1, AscendingLaws
      <2>3. DOMAIN a = 1 .. n /\ n \in Nat
            BY <1>1, AscendingLaws
      <2> QED BY <2>1, <2>2, <2>3
<1>3. Cardinality(R) = Cardinality(Below(S, k)) + 1
      BY RankOf
<1> HIDE DEF a, n
<1>4. ASSUME NEW r \in 1 .. n, a[r] = k  PROVE r = Cardinality(R)
      <2>1. Cardinality(Below(S, k)) = r - 1
            BY <1>2, <1>4
      <2>2. r - 1 + 1 = r
            BY <1>2
      <2> QED BY <2>1, <2>2, <1>3
<1>5. PICK r \in 1 .. n : a[r] = k
      BY <1>2
<1>6. r = Cardinality(R)
      BY <1>4, <1>5
<1> QED BY <1>2, <1>4, <1>5, <1>6 DEF a

\* What the proofs use of trajectories.
Attempts(ts) ==
    /\ ts \in Seq(Range(ts))
    /\ \A t \in Range(ts) : t.patches \in Seq(Nat) /\ t.evidence \in Nat

LEMMA AttemptsOf ==
    ASSUME NEW ts, Attempts(ts)
    PROVE  /\ Len(ts) \in Nat /\ DOMAIN ts = 1 .. Len(ts) /\ IsFiniteSet(DOMAIN ts)
           /\ DOMAIN ts \in SUBSET (Nat \ {0}) /\ DOMAIN ts \in SUBSET Int
           /\ \A k \in DOMAIN ts : /\ ts[k].patches \in Seq(Nat) /\ ts[k].evidence \in Nat
                                   /\ HasPatch(ts[k]) <=> ts[k].patches # <<>>
<1>1. ts \in Seq(Range(ts))
      BY DEF Attempts
<1>2. Len(ts) \in Nat /\ DOMAIN ts = 1 .. Len(ts) /\ IsFiniteSet(DOMAIN ts) /\ DOMAIN ts \in SUBSET Int
      BY <1>1, Places
<1>3. DOMAIN ts \in SUBSET (Nat \ {0})
      BY <1>2
<1>4. ASSUME NEW k \in DOMAIN ts
      PROVE  /\ ts[k].patches \in Seq(Nat) /\ ts[k].evidence \in Nat
             /\ HasPatch(ts[k]) <=> ts[k].patches # <<>>
      <2>1. ts[k] \in Range(ts)
            BY <1>1, Places
      <2>2. ts[k].patches \in Seq(Nat) /\ ts[k].evidence \in Nat
            BY <2>1 DEF Attempts
      <2>3. PICK p \in Seq(Nat) : p = ts[k].patches
            BY <2>2
      <2>4. Len(p) > 0 <=> p # <<>>
            OBVIOUS
      <2> QED BY <2>2, <2>3, <2>4 DEF HasPatch
<1> QED BY <1>2, <1>3, <1>4

\* The successes up to an element, or the failures, are its place among them.
UpTo(ts, k, S) == {i \in 1 .. k : i \in S}

\* In an ascending list, an element stands at its rank.
LEMMA RankInList ==
    ASSUME NEW ts, Attempts(ts), NEW S \in SUBSET DOMAIN ts, NEW k \in S
    PROVE  /\ Cardinality(UpTo(ts, k, S)) \in DOMAIN Ascending(S)
           /\ Ascending(S)[Cardinality(UpTo(ts, k, S))] = k
           /\ \A r \in DOMAIN Ascending(S) : Ascending(S)[r] = k => r = Cardinality(UpTo(ts, k, S))
<1>1. \A i : i \in UpTo(ts, k, S) <=> i \in 1 .. k /\ i \in S
      BY DEF UpTo
<1>2. IsFiniteSet(DOMAIN ts) /\ DOMAIN ts \in SUBSET (Nat \ {0})
      BY AttemptsOf
<1> QED BY <1>1, <1>2, PlaceIsRank

\* The ranks the property speaks of are those of the two lists.
LEMMA Ranks ==
    ASSUME NEW ts, Attempts(ts), NEW k \in DOMAIN ts
    PROVE  /\ {i \in 1 .. k : IsVerifiedPositive(ts[i])} = UpTo(ts, k, Positives(ts))
           /\ {i \in 1 .. k : IsVerifiedNegative(ts[i])} = UpTo(ts, k, Negatives(ts))
<1>1. \A i \in 1 .. k : i \in DOMAIN ts
      BY AttemptsOf
<1> QED BY <1>1 DEF UpTo, Positives, Negatives

LEMMA AscendingPlaces ==
    ASSUME NEW ts, Attempts(ts), NEW S \in SUBSET DOMAIN ts
    PROVE  /\ IsFiniteSet(S) /\ S \in SUBSET Int /\ Cardinality(S) \in Nat
           /\ DOMAIN Ascending(S) = 1 .. Cardinality(S)
           /\ Len(Ascending(S)) = Cardinality(S)
           /\ \A r \in DOMAIN Ascending(S) : Ascending(S)[r] \in S
<1>1. IsFiniteSet(DOMAIN ts) /\ DOMAIN ts \in SUBSET Int
      BY AttemptsOf
<1>2. IsFiniteSet(S)
      BY <1>1, FS_Subset
<1>3. S \in SUBSET Int
      BY <1>1
<1> QED BY <1>2, <1>3, AscendingLaws

\* The pairs of BuildPreference, before those without two patches are left out.
PairsOf(ts) ==
    [k \in DOMAIN Ascending(Positives(ts)) \intersect DOMAIN Ascending(Negatives(ts)) |->
        <<Ascending(Positives(ts))[k], Ascending(Negatives(ts))[k]>>]
WithPatches(ts) ==
    {k \in DOMAIN PairsOf(ts) : /\ HasPatch(ts[Ascending(Positives(ts))[k]])
                                /\ HasPatch(ts[Ascending(Negatives(ts))[k]])}

\* The preference pairs, as what is picked of a list of pairs.
LEMMA PreferenceIsPicked ==
    ASSUME NEW ts, Attempts(ts)
    PROVE  /\ BuildPreference(ts) = Picked(PairsOf(ts), WithPatches(ts))
           /\ IsFiniteSet(WithPatches(ts)) /\ WithPatches(ts) \in SUBSET Int
<1>1. BuildPreference(ts) = Picked(PairsOf(ts), WithPatches(ts))
      BY Zenon DEF BuildPreference, PairsOf, WithPatches
<1>2. Positives(ts) \in SUBSET DOMAIN ts
      BY DEF Positives
<1>3. DOMAIN Ascending(Positives(ts)) = 1 .. Cardinality(Positives(ts)) /\ Cardinality(Positives(ts)) \in Nat
      BY <1>2, AscendingPlaces
<1>4. WithPatches(ts) \in SUBSET (1 .. Cardinality(Positives(ts)))
      BY <1>3 DEF WithPatches, PairsOf
<1>5. IsFiniteSet(1 .. Cardinality(Positives(ts)))
      BY <1>3, FS_Interval
<1>6. IsFiniteSet(WithPatches(ts))
      BY <1>4, <1>5, FS_Subset
<1>7. WithPatches(ts) \in SUBSET Int
      BY <1>3, <1>4
<1> QED BY <1>1, <1>6, <1>7

\* A pair is in it exactly when the ranks agree and both have a patch.
LEMMA PairsMatch ==
    ASSUME NEW ts, Attempts(ts), NEW x
    PROVE  At(PairsOf(ts), WithPatches(ts), x) <=>
             \E i \in Positives(ts), j \in Negatives(ts) :
                /\ x = <<i, j>>
                /\ Cardinality(UpTo(ts, i, Positives(ts))) = Cardinality(UpTo(ts, j, Negatives(ts)))
                /\ HasPatch(ts[i]) /\ HasPatch(ts[j])
<1> DEFINE P == Positives(ts)
           N == Negatives(ts)
           a == Ascending(P)
           b == Ascending(N)
<1>1. P \in SUBSET DOMAIN ts /\ N \in SUBSET DOMAIN ts
      BY DEF Positives, Negatives
<1>2. \A k \in DOMAIN a \intersect DOMAIN b : PairsOf(ts)[k] = <<a[k], b[k]>>
      BY DEF PairsOf
<1>3. \A k : k \in WithPatches(ts) <=> /\ k \in DOMAIN a \intersect DOMAIN b
                                       /\ HasPatch(ts[a[k]]) /\ HasPatch(ts[b[k]])
      BY DEF WithPatches, PairsOf
<1>4. (\A r \in DOMAIN a : a[r] \in P) /\ (\A r \in DOMAIN b : b[r] \in N)
      BY <1>1, AscendingPlaces
<1>5. \A i \in P : /\ Cardinality(UpTo(ts, i, P)) \in DOMAIN a /\ a[Cardinality(UpTo(ts, i, P))] = i
                   /\ \A r \in DOMAIN a : a[r] = i => r = Cardinality(UpTo(ts, i, P))
      BY <1>1, RankInList
<1>6. \A i \in N : /\ Cardinality(UpTo(ts, i, N)) \in DOMAIN b /\ b[Cardinality(UpTo(ts, i, N))] = i
                   /\ \A r \in DOMAIN b : b[r] = i => r = Cardinality(UpTo(ts, i, N))
      BY <1>1, RankInList
<1> HIDE DEF P, N, a, b
<1>7. ASSUME NEW k \in WithPatches(ts), PairsOf(ts)[k] = x
      PROVE  \E i \in P, j \in N : /\ x = <<i, j>>
                                   /\ Cardinality(UpTo(ts, i, P)) = Cardinality(UpTo(ts, j, N))
                                   /\ HasPatch(ts[i]) /\ HasPatch(ts[j])
      <2>1. k \in DOMAIN a /\ k \in DOMAIN b /\ HasPatch(ts[a[k]]) /\ HasPatch(ts[b[k]]) /\ x = <<a[k], b[k]>>
            BY <1>2, <1>3, <1>7
      <2>2. a[k] \in P /\ b[k] \in N
            BY <2>1, <1>4
      <2>3. k = Cardinality(UpTo(ts, a[k], P)) /\ k = Cardinality(UpTo(ts, b[k], N))
            BY <2>1, <2>2, <1>5, <1>6
      <2> QED BY <2>1, <2>2, <2>3
<1>8. ASSUME NEW i \in P, NEW j \in N, x = <<i, j>>,
             Cardinality(UpTo(ts, i, P)) = Cardinality(UpTo(ts, j, N)), HasPatch(ts[i]), HasPatch(ts[j])
      PROVE  \E k \in WithPatches(ts) : PairsOf(ts)[k] = x
      <2>1. PICK k : k = Cardinality(UpTo(ts, i, P))
            OBVIOUS
      <2>2. k \in DOMAIN a /\ a[k] = i /\ k \in DOMAIN b /\ b[k] = j
            BY <2>1, <1>5, <1>6, <1>8
      <2>3. k \in WithPatches(ts) /\ PairsOf(ts)[k] = x
            BY <2>2, <1>2, <1>3, <1>8
      <2> QED BY <2>3
<1> QED BY <1>7, <1>8 DEF At, P, N

LEMMA GoodAndBad ==
    ASSUME NEW ts
    PROVE  /\ {k \in DOMAIN ts : ts[k].status = "verified_candidate"} = Positives(ts)
           /\ {k \in DOMAIN ts : ts[k].status \in {"rejected", "failed"}} = Negatives(ts)
BY DEF Positives, Negatives, IsVerifiedPositive, IsVerifiedNegative

\* The pairs of a success and a failure of the same rank that have patches.
Matched(ts) ==
    {p \in Positives(ts) \X Negatives(ts) :
        /\ Cardinality({i \in 1 .. p[1] : IsVerifiedPositive(ts[i])})
             = Cardinality({i \in 1 .. p[2] : IsVerifiedNegative(ts[i])})
        /\ ts[p[1]].patches # <<>> /\ ts[p[2]].patches # <<>>}

\* So the pairs are those the property describes.
LEMMA PreferencesTrue ==
    ASSUME NEW ts, Attempts(ts)
    PROVE  Range(BuildPreference(ts)) = Matched(ts)
<1> DEFINE P == Positives(ts)
           N == Negatives(ts)
<1>1. P \in SUBSET DOMAIN ts /\ N \in SUBSET DOMAIN ts
      BY DEF Positives, Negatives
<1>2. \A k \in DOMAIN ts : HasPatch(ts[k]) <=> ts[k].patches # <<>>
      BY AttemptsOf
<1>3. ASSUME NEW i \in P, NEW j \in N
      PROVE  <<i, j>> \in Matched(ts) <=>
                /\ Cardinality(UpTo(ts, i, P)) = Cardinality(UpTo(ts, j, N))
                /\ HasPatch(ts[i]) /\ HasPatch(ts[j])
      <2>1. i \in DOMAIN ts /\ j \in DOMAIN ts
            BY <1>1
      <2>2. /\ {m \in 1 .. i : IsVerifiedPositive(ts[m])} = UpTo(ts, i, P)
            /\ {m \in 1 .. j : IsVerifiedNegative(ts[m])} = UpTo(ts, j, N)
            BY <2>1, Ranks
      <2>3. <<i, j>> \in Matched(ts) <=>
               /\ Cardinality({m \in 1 .. i : IsVerifiedPositive(ts[m])})
                    = Cardinality({m \in 1 .. j : IsVerifiedNegative(ts[m])})
               /\ ts[i].patches # <<>> /\ ts[j].patches # <<>>
            BY DEF Matched
      <2>4. (HasPatch(ts[i]) <=> ts[i].patches # <<>>) /\ (HasPatch(ts[j]) <=> ts[j].patches # <<>>)
            BY <2>1, <1>2
      <2> HIDE DEF P, N
      <2> QED BY Zenon, <2>2, <2>3, <2>4
<1>4. \A x \in Matched(ts) : \E i \in P, j \in N : x = <<i, j>>
      BY DEF Matched
<1>5. ASSUME NEW x
      PROVE  x \in Range(BuildPreference(ts)) <=> x \in Matched(ts)
      <2>1. x \in Range(BuildPreference(ts)) <=> At(PairsOf(ts), WithPatches(ts), x)
            BY PreferenceIsPicked, PickedRange
      <2>2. At(PairsOf(ts), WithPatches(ts), x) <=>
               \E i \in P, j \in N : /\ x = <<i, j>>
                                     /\ Cardinality(UpTo(ts, i, P)) = Cardinality(UpTo(ts, j, N))
                                     /\ HasPatch(ts[i]) /\ HasPatch(ts[j])
            BY PairsMatch
      <2>3. x \in Matched(ts) <=> \E i \in P, j \in N : x = <<i, j>> /\ <<i, j>> \in Matched(ts)
            BY <1>4
      <2> QED BY <2>1, <2>2, <2>3, <1>3
<1> QED BY <1>5

LEMMA AscendingRange ==
    ASSUME NEW S, IsFiniteSet(S), S \in SUBSET Int
    PROVE  Range(Ascending(S)) = S
<1>1. /\ DOMAIN Ascending(S) = 1 .. Cardinality(S)
      /\ \A k \in 1 .. Cardinality(S) : Ascending(S)[k] \in S
      /\ \A i \in S : \E k \in 1 .. Cardinality(S) : Ascending(S)[k] = i
      BY AscendingLaws
<1> QED BY <1>1 DEF Range

\* The examples are the successes, and repair examples are some of them.
LEMMA ExamplesTrue ==
    ASSUME NEW ts, Attempts(ts)
    PROVE  /\ Range(BuildSft(ts)) = Positives(ts)
           /\ Range(BuildRepair(ts)) \subseteq Range(BuildSft(ts))
           /\ Len(BuildSft(ts)) = Cardinality(Positives(ts))
           /\ DOMAIN BuildSft(ts) = 1 .. Cardinality(Positives(ts))
           /\ \A k \in DOMAIN BuildSft(ts) : BuildSft(ts)[k] \in DOMAIN ts
<1> DEFINE R == {k \in Positives(ts) : Len(ts[k].patches) >= 2}
<1>1. Positives(ts) \in SUBSET DOMAIN ts /\ R \in SUBSET DOMAIN ts /\ R \subseteq Positives(ts)
      BY DEF Positives
<1>2. BuildSft(ts) = Ascending(Positives(ts)) /\ BuildRepair(ts) = Ascending(R)
      BY DEF BuildSft, BuildRepair
<1> HIDE DEF R
<1>3. Range(Ascending(R)) = R
      BY <1>1, AscendingPlaces, AscendingRange
<1>4. Range(Ascending(Positives(ts))) = Positives(ts)
      BY <1>1, AscendingPlaces, AscendingRange
<1>5. /\ Len(BuildSft(ts)) = Cardinality(Positives(ts))
      /\ DOMAIN BuildSft(ts) = 1 .. Cardinality(Positives(ts))
      /\ \A k \in DOMAIN BuildSft(ts) : BuildSft(ts)[k] \in Positives(ts)
      BY <1>1, <1>2, AscendingPlaces
<1> QED BY <1>1, <1>2, <1>3, <1>4, <1>5

\* A label says what the status does.
LEMMA LabelsTrue ==
    ASSUME NEW ts, NEW k \in DOMAIN ts
    PROVE  /\ (CategoryOfTrajectory(ts[k]) = "verified_positive") <=> k \in Positives(ts)
           /\ IsUnresolved(ts[k]) => CategoryOfTrajectory(ts[k]) = "unresolved"
<1> DEFINE t == ts[k]
<1>1. CASE IsVerifiedPositive(t)
      <2>1. CategoryOfTrajectory(t) = "verified_positive"
            BY <1>1 DEF CategoryOfTrajectory, IsVerifiedPositive, IsVerifiedNegative
      <2> QED BY <2>1, <1>1 DEF Positives, IsUnresolved, IsVerifiedPositive
<1>2. CASE ~IsVerifiedPositive(t) /\ IsVerifiedNegative(t)
      <2>1. CategoryOfTrajectory(t) = "verified_negative"
            BY <1>2 DEF CategoryOfTrajectory
      <2> QED BY <2>1, <1>2 DEF Positives, IsUnresolved, IsVerifiedNegative
<1>3. CASE ~IsVerifiedPositive(t) /\ ~IsVerifiedNegative(t)
      <2>1. CategoryOfTrajectory(t) = "unresolved"
            BY <1>3 DEF CategoryOfTrajectory
      <2> QED BY <2>1, <1>3 DEF Positives
<1> QED BY <1>1, <1>2, <1>3

\* There is an entry of tool use for each piece of evidence.
LEMMA ToolUseLength ==
    ASSUME NEW ts, Attempts(ts)
    PROVE  Len(BuildToolUse(ts)) = SumFunction([k \in DOMAIN ts |-> ts[k].evidence])
<1> DEFINE s == [k \in DOMAIN ts |-> [e \in 1 .. ts[k].evidence |-> <<k, e>>]]
           g == [k \in DOMAIN ts |-> ts[k].evidence]
           T == Nat \X Nat
           n == Len(ts)
<1>1. n \in Nat /\ DOMAIN ts = 1 .. n /\ \A k \in 1 .. n : ts[k].evidence \in Nat
      BY AttemptsOf
<1>2. \A k \in DOMAIN ts : s[k] \in Seq(T) /\ Len(s[k]) = ts[k].evidence
      <2> SUFFICES ASSUME NEW k \in DOMAIN ts  PROVE s[k] \in Seq(T) /\ Len(s[k]) = ts[k].evidence
          OBVIOUS
      <2>1. PICK m \in Nat : m = ts[k].evidence
            BY <1>1
      <2>2. s[k] = [e \in 1 .. m |-> <<k, e>>]
            BY <2>1
      <2>3. k \in Nat
            BY <1>1
      <2>4. [e \in 1 .. m |-> <<k, e>>] \in [1 .. m -> T]
            BY <2>3
      <2>5. [e \in 1 .. m |-> <<k, e>>] \in Seq(T) /\ Len([e \in 1 .. m |-> <<k, e>>]) = m
            BY <2>4
      <2> QED BY <2>1, <2>2, <2>5
<1>3. s = [k \in 1 .. n |-> s[k]]
      BY <1>1
<1>4. DOMAIN s = DOMAIN ts
      OBVIOUS
<1>5. DOMAIN g = DOMAIN ts /\ \A k \in DOMAIN ts : g[k] = ts[k].evidence
      OBVIOUS
<1>6. BuildToolUse(ts) = FlattenSeq(s)
      BY Zenon DEF BuildToolUse
<1> HIDE DEF s, g, T, n
<1>7. s \in [1 .. n -> Seq(T)]
      BY <1>1, <1>2, <1>3
<1>8. s \in Seq(Seq(T))
      BY <1>1, <1>7
<1>9. \A k \in DOMAIN s : g[k] = Len(s[k])
      BY <1>2, <1>4, <1>5
<1>10. Len(FlattenSeq(s)) = SumFunctionOnSet(g, DOMAIN s)
       BY <1>8, <1>9, FlatLength
<1> QED BY Zenon, <1>4, <1>5, <1>6, <1>10 DEF SumFunction, g

\* The datasets and labels are true of the trajectories.
LEMMA EntriesHold ==
    ASSUME NEW ts, Attempts(ts),
           NEW entries, entries = [d \in {"sft", "repair", "preference", "tool_use"} |-> BuildDataset(ts, d)],
           NEW labels, labels = [k \in DOMAIN ts |-> CategoryOfTrajectory(ts[k])]
    PROVE  EntriesTrue(ts, entries, labels)
<1>1. /\ entries["sft"] = BuildDataset(ts, "sft") /\ entries["repair"] = BuildDataset(ts, "repair")
      /\ entries["preference"] = BuildDataset(ts, "preference")
      /\ entries["tool_use"] = BuildDataset(ts, "tool_use")
      OBVIOUS
<1>2. /\ BuildDataset(ts, "sft") = BuildSft(ts) /\ BuildDataset(ts, "repair") = BuildRepair(ts)
      /\ BuildDataset(ts, "preference") = BuildPreference(ts)
      /\ BuildDataset(ts, "tool_use") = BuildToolUse(ts)
      BY DEF BuildDataset
<1>3. \A k \in DOMAIN ts : /\ (labels[k] = "verified_positive") <=> k \in Positives(ts)
                           /\ IsUnresolved(ts[k]) => labels[k] = "unresolved"
      BY LabelsTrue
<1>4. Range(entries["preference"]) = Matched(ts)
      BY <1>1, <1>2, PreferencesTrue
<1>5. Range(entries["repair"]) \subseteq Range(entries["sft"]) /\ Range(entries["sft"]) = Positives(ts)
      BY <1>1, <1>2, ExamplesTrue
<1>6. Len(entries["tool_use"]) = SumFunction([k \in DOMAIN ts |-> ts[k].evidence])
      BY <1>1, <1>2, ToolUseLength
<1>7. /\ {k \in DOMAIN ts : ts[k].status = "verified_candidate"} = Positives(ts)
      /\ {k \in DOMAIN ts : ts[k].status \in {"rejected", "failed"}} = Negatives(ts)
      BY GoodAndBad
<1> QED BY Zenon, <1>3, <1>4, <1>5, <1>6, <1>7 DEF EntriesTrue, Matched

\* The statistics agree with the dataset: a total lies between what the bounds allow.
LEMMA StatsHold ==
    ASSUME NEW ts, Attempts(ts)
    PROVE  StatsTrue(Positives(ts), Stats([k \in DOMAIN BuildSft(ts) |-> ts[BuildSft(ts)[k]].evidence]))
<1> DEFINE n == Cardinality(Positives(ts))
           f == [k \in DOMAIN BuildSft(ts) |-> ts[BuildSft(ts)[k]].evidence]
           stats == Stats(f)
<1>1. n \in Nat
      BY AscendingPlaces DEF Positives
<1>2. DOMAIN f = 1 .. n /\ \A k \in 1 .. n : f[k] \in Nat
      BY ExamplesTrue, AttemptsOf
<1>3. f = [k \in 1 .. n |-> f[k]]
      BY ExamplesTrue
<1> HIDE DEF f, n
<1>4. Len(f) = n /\ f \in Seq(Nat)
      BY <1>1, <1>2, <1>3
<1>5. stats.entries = n
      BY <1>4 DEF Stats
<1>6. /\ stats.total = SumFunctionOnSet(f, 1 .. n)
      /\ stats.least = IF f = <<>> THEN 0 ELSE Min(Range(f))
      /\ stats.most = IF f = <<>> THEN 0 ELSE Max(Range(f))
      BY Zenon, <1>2 DEF Stats, SumFunction
<1>7. IsFiniteSet(1 .. n) /\ Cardinality(1 .. n) = n
      BY <1>2, <1>4, Places
<1>8. stats.least \in Int /\ stats.most \in Int /\ \A k \in 1 .. n : stats.least <= f[k] /\ f[k] <= stats.most
      <2>1. CASE f = <<>>
            BY <2>1, <1>2, <1>4, <1>6
      <2>2. CASE f # <<>>
            <3>1. n # 0
                  BY <2>2, <1>4
            <3>2. 1 \in DOMAIN f /\ \A k \in 1 .. n : f[k] \in Range(f)
                  BY <3>1, <1>1, <1>2 DEF Range
            <3>3. Range(f) # {} /\ Range(f) \subseteq Int
                  BY <3>2, <1>2 DEF Range
            <3>4. IsFiniteSet(Range(f))
                  <4>1. f \in Surjection(1 .. n, Range(f))
                        BY <1>2, <1>4 DEF Surjection, Range
                  <4> QED BY <4>1, <1>7, FS_Surjection
            <3>5. /\ Max(Range(f)) \in Range(f) /\ \A i \in Range(f) : i <= Max(Range(f))
                  /\ Min(Range(f)) \in Range(f) /\ \A i \in Range(f) : Min(Range(f)) <= i
                  BY <3>3, <3>4, MinMax
            <3> QED BY <2>2, <3>2, <3>3, <3>5, <1>6
      <2> QED BY <2>1, <2>2
<1>9. stats.total \in stats.least * n .. stats.most * n
      <2>1. PICK l \in Int, h \in Int : l = stats.least /\ h = stats.most
            BY <1>8
      <2>2. \A k \in 1 .. n : f[k] \in Int /\ l <= f[k] /\ f[k] <= h
            BY <1>2, <1>8, <2>1
      <2>3. SumFunctionOnSet(f, 1 .. n) \in l * Cardinality(1 .. n) .. h * Cardinality(1 .. n)
            BY <1>7, <2>2, SumBounds
      <2> QED BY <2>1, <2>3, <1>6, <1>7
<1> QED BY Zenon, <1>5, <1>9 DEF StatsTrue, n, f

\* A filter with more requirements keeps less.
LEMMA StricterFilter ==
    ASSUME NEW ts, Attempts(ts), NEW least
    PROVE  Range(Filter(ts, {"patch", "evidence"}, {}, least)) \subseteq Range(Filter(ts, {"patch"}, {}, <<>>))
<1> DEFINE A == {k \in DOMAIN ts : Passes(ts[k], {"patch", "evidence"}, {}, least)}
           B == {k \in DOMAIN ts : Passes(ts[k], {"patch"}, {}, <<>>)}
<1>1. Filter(ts, {"patch", "evidence"}, {}, least) = Picked(ts, A) /\ Filter(ts, {"patch"}, {}, <<>>) = Picked(ts, B)
      BY DEF Filter
<1>2. A \subseteq B
      <2> SUFFICES ASSUME NEW k \in DOMAIN ts, Passes(ts[k], {"patch", "evidence"}, {}, least)
                   PROVE  Passes(ts[k], {"patch"}, {}, <<>>)
          OBVIOUS
      <2>1. HasPatch(ts[k])
            BY DEF Passes
      <2>2. DOMAIN <<>> = {}
            OBVIOUS
      <2> QED BY <2>1, <2>2 DEF Passes
<1>3. IsFiniteSet(DOMAIN ts) /\ DOMAIN ts \in SUBSET Int
      BY AttemptsOf
<1>4. A \in SUBSET DOMAIN ts /\ B \in SUBSET DOMAIN ts
      OBVIOUS
<1> HIDE DEF A, B
<1>5. IsFiniteSet(A) /\ IsFiniteSet(B)
      BY <1>3, <1>4, FS_Subset
<1>6. A \in SUBSET Int /\ B \in SUBSET Int
      BY <1>3, <1>4
<1>7. ASSUME NEW x \in Range(Picked(ts, A))  PROVE x \in Range(Picked(ts, B))
      <2>1. At(ts, A, x)
            BY <1>5, <1>6, PickedRange
      <2>2. At(ts, B, x)
            BY <2>1, <1>2 DEF At
      <2> QED BY <2>2, <1>5, <1>6, PickedRange
<1> QED BY <1>1, <1>7

\* The share of the validation side is rounded down.
LEMMA ShareOf ==
    ASSUME NEW n \in Nat, NEW r \in 0 .. 10
    PROVE  LET c == (n * r) \div 10 IN c \in 0 .. n /\ 10 * c <= r * n
<1>1. PICK p \in Nat : p = n * r
      OBVIOUS
<1>2. p <= 10 * n
      <2>1. PICK d \in Nat : r + d = 10
            <3>1. 10 - r \in Nat /\ r + (10 - r) = 10
                  OBVIOUS
            <3> QED BY <3>1
      <2>2. n * r + n * d = n * 10 /\ n * d \in Nat
            <3>1. n * (r + d) = n * r + n * d /\ n * d \in Nat
                  OBVIOUS
            <3> QED BY <2>1, <3>1
      <2> QED BY <1>1, <2>2
<1>3. p \div 10 \in Nat /\ 10 * (p \div 10) <= p /\ p \div 10 <= n
      BY <1>2
<1>4. p = r * n
      BY <1>1
<1> QED BY <1>1, <1>3, <1>4

\* The trajectories after the shuffle.
Shuffled(ts, shuffle) == [k \in DOMAIN ts |-> ts[shuffle[k]]]

\* A shuffle loses nothing and adds nothing.
LEMMA ShuffledLaws ==
    ASSUME NEW ts, Attempts(ts), NEW shuffle \in Bijection(DOMAIN ts, DOMAIN ts)
    PROVE  /\ Shuffled(ts, shuffle) \in Seq(Range(ts)) /\ Len(Shuffled(ts, shuffle)) = Len(ts)
           /\ DOMAIN Shuffled(ts, shuffle) = DOMAIN ts
           /\ Range(Shuffled(ts, shuffle)) = Range(ts)
<1> DEFINE s == Shuffled(ts, shuffle)
<1>1. Len(ts) \in Nat /\ DOMAIN ts = 1 .. Len(ts)
      BY AttemptsOf
<1>2. \A k \in DOMAIN ts : s[k] = ts[shuffle[k]]
      BY DEF Shuffled
<1>3. /\ \A k \in DOMAIN ts : shuffle[k] \in DOMAIN ts
      /\ \A j \in DOMAIN ts : \E k \in DOMAIN ts : shuffle[k] = j
      BY DEF Bijection, Injection, Surjection
<1>4. \A k \in DOMAIN ts : ts[k] \in Range(ts)
      BY DEF Range
<1>5. s = [k \in 1 .. Len(ts) |-> s[k]]
      BY <1>1 DEF Shuffled
<1> HIDE DEF s
<1>6. \A k \in DOMAIN ts : s[k] \in Range(ts)
      BY <1>2, <1>3, <1>4
<1>7. s \in [1 .. Len(ts) -> Range(ts)]
      BY <1>1, <1>5, <1>6
<1>8. s \in Seq(Range(ts)) /\ Len(s) = Len(ts) /\ DOMAIN s = DOMAIN ts
      BY <1>1, <1>7
<1>9. ASSUME NEW x
      PROVE  x \in Range(ts) <=> x \in Range(s)
      <2>1. x \in Range(ts) <=> \E j \in DOMAIN ts : ts[j] = x
            BY DEF Range
      <2>2. (\E j \in DOMAIN ts : ts[j] = x) => \E k \in DOMAIN ts : s[k] = x
            BY <1>2, <1>3
      <2>3. (\E k \in DOMAIN ts : s[k] = x) => \E j \in DOMAIN ts : ts[j] = x
            BY <1>2, <1>3
      <2>4. x \in Range(s) <=> \E k \in DOMAIN ts : s[k] = x
            BY <1>8 DEF Range
      <2> QED BY <2>1, <2>2, <2>3, <2>4
<1> QED BY <1>8, <1>9 DEF s

\* Cutting a sequence in two and putting the parts the other way round keeps its elements.
LEMMA PartsOfCut ==
    ASSUME NEW T, NEW s \in Seq(T), NEW c \in Nat, NEW p \in Nat, Len(s) = c + p
    PROVE  LET t == SubSeq(s, c + 1, c + p)
               v == SubSeq(s, 1, c)
           IN  /\ Len(t) = p /\ Len(v) = c /\ DOMAIN (t \o v) = 1 .. c + p
               /\ \A k \in 1 .. p : (t \o v)[k] = s[c + k]
               /\ \A k \in 1 .. c : (t \o v)[p + k] = s[k]
<1> DEFINE t == SubSeq(s, c + 1, c + p)
           v == SubSeq(s, 1, c)
<1>1. t \in Seq(T) /\ Len(t) = p /\ \A k \in 1 .. p : t[k] = s[c + k]
      OBVIOUS
<1>2. v \in Seq(T) /\ Len(v) = c /\ \A k \in 1 .. c : v[k] = s[k]
      OBVIOUS
<1> HIDE DEF t, v
<1>3. DOMAIN (t \o v) = 1 .. c + p
      BY <1>1, <1>2
<1>4. \A k \in 1 .. p : (t \o v)[k] = s[c + k]
      BY <1>1, <1>2
<1>5. \A k \in 1 .. c : (t \o v)[p + k] = s[k]
      BY <1>1, <1>2
<1> QED BY <1>1, <1>2, <1>3, <1>4, <1>5 DEF t, v

\* Two halves of a list hold what the list does.
LEMMA CutInTwo ==
    ASSUME NEW T, NEW s \in Seq(T), NEW c \in Nat, NEW p \in Nat, Len(s) = c + p
    PROVE  Range(SubSeq(s, c + 1, c + p) \o SubSeq(s, 1, c)) = Range(s)
<1> DEFINE b == SubSeq(s, c + 1, c + p) \o SubSeq(s, 1, c)
           n == c + p
<1>1. DOMAIN s = 1 .. n /\ n \in Nat
      OBVIOUS
<1>2. /\ DOMAIN b = 1 .. n
      /\ \A k \in 1 .. p : b[k] = s[c + k]
      /\ \A k \in 1 .. c : b[p + k] = s[k]
      BY PartsOfCut
<1>3. \A k \in 1 .. n : k \in 1 .. p \/ \E j \in 1 .. c : k = p + j
      <2> SUFFICES ASSUME NEW k \in 1 .. n, ~(k \in 1 .. p)  PROVE \E j \in 1 .. c : k = p + j
          OBVIOUS
      <2>1. k - p \in 1 .. c /\ k = p + (k - p)
            OBVIOUS
      <2> QED BY <2>1
<1>4. \A k \in 1 .. n : k \in 1 .. c \/ \E j \in 1 .. p : k = c + j
      <2> SUFFICES ASSUME NEW k \in 1 .. n, ~(k \in 1 .. c)  PROVE \E j \in 1 .. p : k = c + j
          OBVIOUS
      <2>1. k - c \in 1 .. p /\ k = c + (k - c)
            OBVIOUS
      <2> QED BY <2>1
<1>5. (\A j \in 1 .. p : j \in 1 .. n /\ c + j \in 1 .. n) /\ \A j \in 1 .. c : j \in 1 .. n /\ p + j \in 1 .. n
      OBVIOUS
<1> HIDE DEF b, n
<1>6. ASSUME NEW k \in 1 .. n  PROVE \E j \in 1 .. n : b[k] = s[j]
      <2>1. CASE k \in 1 .. p
            BY <2>1, <1>2, <1>5
      <2>2. CASE \E j \in 1 .. c : k = p + j
            BY <2>2, <1>2, <1>5
      <2> QED BY <2>1, <2>2, <1>3
<1>7. ASSUME NEW k \in 1 .. n  PROVE \E j \in 1 .. n : b[j] = s[k]
      <2>1. CASE k \in 1 .. c
            BY <2>1, <1>2, <1>5
      <2>2. CASE \E j \in 1 .. p : k = c + j
            BY <2>2, <1>2, <1>5
      <2> QED BY <2>1, <2>2, <1>4
<1>8. \A x : x \in Range(b) <=> \E k \in 1 .. n : b[k] = x
      BY <1>2 DEF Range
<1>9. \A x : x \in Range(s) <=> \E k \in 1 .. n : s[k] = x
      BY <1>1 DEF Range
<1>10. Range(b) = Range(s)
       BY <1>6, <1>7, <1>8, <1>9
<1> QED BY <1>10 DEF b

\* The split gives every trajectory to one side.
LEMMA SplitHolds ==
    ASSUME NEW ts, Attempts(ts), NEW ratio \in 0 .. 10, NEW shuffle \in Bijection(DOMAIN ts, DOMAIN ts)
    PROVE  SplitTrue(ts, ratio, TrainValSplit(ts, ratio, shuffle))
<1> DEFINE s == Shuffled(ts, shuffle)
           n == Len(ts)
           c == (n * ratio) \div 10
           split == TrainValSplit(ts, ratio, shuffle)
<1>1. split.train = SubSeq(s, c + 1, n) /\ split.val = SubSeq(s, 1, c)
      BY DEF TrainValSplit, Shuffled
<1>2. n \in Nat
      BY AttemptsOf
<1>3. c \in 0 .. n /\ 10 * c <= ratio * n
      BY <1>2, ShareOf
<1>4. s \in Seq(Range(ts)) /\ Len(s) = n /\ DOMAIN s = DOMAIN ts
      BY ShuffledLaws
<1> HIDE DEF s, c, split, n
<1>5. PICK p \in Nat : n = c + p
      <2>1. c \in 0 .. n
            BY <1>3
      <2>2. n - c \in Nat /\ n = c + (n - c)
            BY <1>2, <2>1
      <2> QED BY <2>2
<1>6. c \in Nat /\ Len(s) = c + p /\ split.train = SubSeq(s, c + 1, c + p) /\ split.val = SubSeq(s, 1, c)
      BY <1>1, <1>2, <1>3, <1>4, <1>5
<1>7. Range(split.train \o split.val) = Range(ts)
      <2>1. Range(SubSeq(s, c + 1, c + p) \o SubSeq(s, 1, c)) = Range(s)
            BY <1>4, <1>6, CutInTwo
      <2>2. Range(s) = Range(ts)
            BY ShuffledLaws DEF s
      <2> QED BY <2>1, <2>2, <1>6
<1>8. Len(split.train) = p /\ Len(split.val) = c
      BY <1>4, <1>6, PartsOfCut
<1>9. Len(split.train) + Len(split.val) = n
      BY <1>5, <1>6, <1>8
<1> QED BY <1>3, <1>7, <1>8, <1>9 DEF SplitTrue, split, n

-----------------------------------------------------------------------------
(***************************************************************************)
(* The invariant: what was computed was computed from the input.           *)
(***************************************************************************)
ComputedFromInput ==
    \/ topic = "change" /\ input \in Changes /\ result \in {NoResult, VerifyAndReview(input)}
    \/ /\ topic = "polyglot" /\ input \in Polyglots
       /\ result \in {NoResult, VerifyLanguages(input.env, input.registry, input.repo,
                                            input.files, input.required)}
    \/ topic = "benchmark" /\ input \in Benchmarks /\ result \in {NoResult, BenchmarkResults(input)}
    \/ topic = "dataset" /\ input \in Trajectories /\ result \in {NoResult, DatasetResults(input)}

\* Nothing is computed initially.
LEMMA InitComputes == DecisionInit => ComputedFromInput
BY DEF DecisionInit, VerdictInit, ComputedFromInput

\* A step computes the results of the input, or leaves everything as it is.
LEMMA StepComputes == ComputedFromInput /\ [DecisionNext]_decisionVars => ComputedFromInput'
<1> SUFFICES ASSUME ComputedFromInput, [DecisionNext]_decisionVars PROVE ComputedFromInput'
    OBVIOUS
<1>1. CASE ReviewChange
      BY <1>1 DEF ComputedFromInput, ReviewChange, Compute
<1>2. CASE VerifyPolyglot
      BY <1>2 DEF ComputedFromInput, VerifyPolyglot, Compute
<1>3. CASE RunBenchmark
      BY <1>3 DEF ComputedFromInput, RunBenchmark, Compute
<1>4. CASE BuildDatasets
      BY <1>4 DEF ComputedFromInput, BuildDatasets, Compute
<1>5. CASE UNCHANGED decisionVars
      BY <1>5 DEF ComputedFromInput, decisionVars
<1>6. QED BY <1>1, <1>2, <1>3, <1>4, <1>5 DEF DecisionNext, VerdictNext

\* Computed verdicts follow from the tools.
LEMMA ComputedFollows ==
    ASSUME ComputedFromInput PROVE VerdictFollowsTools
<1>1. CASE result = NoResult \/ topic \in {"benchmark", "dataset"}
      BY <1>1 DEF VerdictFollowsTools, Computed
<1>2. CASE topic = "change" /\ input \in Changes /\ result = VerifyAndReview(input)
      BY <1>2, ChangeVerdict DEF VerdictFollowsTools, Computed
<1>3. CASE /\ topic = "polyglot" /\ input \in Polyglots
           /\ result = VerifyLanguages(input.env, input.registry, input.repo, input.files, input.required)
      <2>1. ASSUME result.passed, NEW a \in Range(input.registry), OneLanguage(a.lang),
                   NEW gate \in input.required
            PROVE  \/ a[gate] \in DOMAIN input.env.ends /\ input.env.ends[a[gate]] = "clean"
                   \/ a[gate] = "parse" /\ \A f \in input.files : f.state = "good"
                   \/ a[gate] = "parse all" /\ input.env.parses
            <3>1. PICK p \in Polyglots : p = input
                  BY <1>3
            <3>2. /\ VerifyLanguages(p.env, p.registry, p.repo, p.files, p.required).passed
                  /\ a \in Range(p.registry) /\ gate \in p.required
                  /\ p.files # {} /\ \A f \in p.files : f.lang = a.lang
                  BY <1>3, <2>1, <3>1 DEF OneLanguage
            <3>3. \/ a[gate] \in DOMAIN p.env.ends /\ p.env.ends[a[gate]] = "clean"
                  \/ a[gate] = "parse" /\ \A f \in p.files : f.state = "good"
                  \/ a[gate] = "parse all" /\ p.env.parses
                  BY <3>2, PolyglotVerdict
            <3>4. QED BY <3>1, <3>3
      <2>2. QED BY <1>3, <2>1 DEF VerdictFollowsTools, Computed
<1>4. QED BY <1>1, <1>2, <1>3 DEF ComputedFromInput

\* What is computed of a benchmark is true of it.
LEMMA BenchmarkTrue ==
    ASSUME NEW b \in Benchmarks
    PROVE  LET tasks == Range(BenchmarkSet(b.tasks))
           IN  /\ ScoresAddUp(tasks, b.base, BenchmarkResults(b).report)
               /\ ImprovementTrue(tasks, b.base, b.tuned, BenchmarkResults(b).comparison)
               /\ RateNotLower(tasks, b.base, BenchmarkResults(b).distributed)
<1> DEFINE set == BenchmarkSet(b.tasks)
<1>1. /\ BenchmarkResults(b).report = RunAll(set, b.base)
      /\ BenchmarkResults(b).comparison = Comparison(set, b.base, b.tuned)
      /\ BenchmarkResults(b).distributed = DistributedReport(set, b.base, b.order)
      BY DEF BenchmarkResults
<1>2. b.tasks \in Seq(Range(b.tasks))
      BY BenchmarksAssumption
<1>3. TaskList(set) /\ Range(set) \subseteq Range(b.tasks)
      BY <1>2, BenchmarkSetLaws
<1> HIDE DEF set
<1>4. Typed(set)
      BY <1>3, BenchmarksAssumption DEF Typed
<1>5. Outcomes(set, b.base) /\ Outcomes(set, b.tuned)
      BY <1>3, BenchmarksAssumption DEF Outcomes
<1>6. InOrder(set, b.order)
      BY BenchmarksAssumption DEF InOrder, set
<1>7. ScoresAddUp(Range(set), b.base, RunAll(set, b.base))
      BY <1>3, <1>4, <1>5, ScoresHold
<1>8. ImprovementTrue(Range(set), b.base, b.tuned, Comparison(set, b.base, b.tuned))
      BY <1>3, <1>5, ImprovementHolds
<1>9. RateNotLower(Range(set), b.base, DistributedReport(set, b.base, b.order))
      BY <1>3, <1>5, <1>6, RateHolds
<1> QED BY <1>1, <1>7, <1>8, <1>9 DEF set

\* What is computed of trajectories is true of them.
LEMMA DatasetTrue ==
    ASSUME NEW d \in Trajectories
    PROVE  /\ EntriesTrue(d.ts, DatasetResults(d).entries, DatasetResults(d).labels)
           /\ StatsTrue({k \in DOMAIN d.ts : IsVerifiedPositive(d.ts[k])}, DatasetResults(d).stats)
           /\ SplitTrue(d.ts, d.ratio, DatasetResults(d).split)
           /\ Range(DatasetResults(d).kept) \subseteq Range(Filter(d.ts, {"patch"}, {}, <<>>))
<1>1. Attempts(d.ts)
      BY TrajectoriesAssumption DEF Attempts
<1>2. d.ratio \in 0 .. 10 /\ d.shuffle \in Bijection(DOMAIN d.ts, DOMAIN d.ts)
      BY TrajectoriesAssumption
<1>3. EntriesTrue(d.ts, DatasetResults(d).entries, DatasetResults(d).labels)
      <2>1. /\ DatasetResults(d).entries =
                 [type \in {"sft", "repair", "preference", "tool_use"} |-> BuildDataset(d.ts, type)]
            /\ DatasetResults(d).labels = [k \in DOMAIN d.ts |-> CategoryOfTrajectory(d.ts[k])]
            BY Zenon DEF DatasetResults
      <2> QED BY <1>1, <2>1, EntriesHold
<1>4. StatsTrue({k \in DOMAIN d.ts : IsVerifiedPositive(d.ts[k])}, DatasetResults(d).stats)
      <2>1. DatasetResults(d).stats =
               Stats([k \in DOMAIN BuildSft(d.ts) |-> d.ts[BuildSft(d.ts)[k]].evidence])
            BY Zenon DEF DatasetResults
      <2>2. StatsTrue(Positives(d.ts), Stats([k \in DOMAIN BuildSft(d.ts) |-> d.ts[BuildSft(d.ts)[k]].evidence]))
            BY <1>1, StatsHold
      <2> QED BY Zenon, <2>1, <2>2 DEF Positives
<1>5. SplitTrue(d.ts, d.ratio, DatasetResults(d).split)
      <2>1. DatasetResults(d).split = TrainValSplit(d.ts, d.ratio, d.shuffle)
            BY Zenon DEF DatasetResults
      <2> QED BY <1>1, <1>2, <2>1, SplitHolds
<1>6. Range(DatasetResults(d).kept) \subseteq Range(Filter(d.ts, {"patch"}, {}, <<>>))
      <2>1. DatasetResults(d).kept = Filter(d.ts, {"patch", "evidence"}, {}, d.least)
            BY Zenon DEF DatasetResults
      <2> QED BY <1>1, <2>1, StricterFilter
<1> QED BY <1>3, <1>4, <1>5, <1>6

\* Computed results are true.
LEMMA ComputedAddsUp ==
    ASSUME ComputedFromInput PROVE EvaluationAddsUp
<1>1. CASE result = NoResult \/ topic \in {"change", "polyglot"}
      BY <1>1 DEF EvaluationAddsUp, ReportsAddUp, DatasetsTrue, Computed
<1>2. CASE topic = "benchmark" /\ input \in Benchmarks /\ result = BenchmarkResults(input)
      <2>1. ReportsAddUp
            BY <1>2, BenchmarkTrue DEF ReportsAddUp
      <2>2. DatasetsTrue
            BY <1>2 DEF DatasetsTrue, Computed
      <2> QED BY <2>1, <2>2 DEF EvaluationAddsUp
<1>3. CASE topic = "dataset" /\ input \in Trajectories /\ result = DatasetResults(input)
      <2>1. DatasetsTrue
            BY <1>3, DatasetTrue DEF DatasetsTrue
      <2>2. ReportsAddUp
            BY <1>3 DEF ReportsAddUp, Computed
      <2> QED BY <2>1, <2>2 DEF EvaluationAddsUp
<1>4. QED BY <1>1, <1>2, <1>3 DEF ComputedFromInput

(***************************************************************************)
(* For any tools, files, tasks, risks and languages, a verified candidate  *)
(* is earned, and every verdict says what the checks said                  *)
(* (verify/runner.py, reasoning/critic.py, repair/categorizer.py,          *)
(* verify/multilang.py).                                                   *)
(***************************************************************************)
THEOREM VerdictsFollowTools == DecisionSpec => []VerdictFollowsTools
<1>1. DecisionInit => ComputedFromInput
      BY InitComputes
<1>2. ComputedFromInput /\ [DecisionNext]_decisionVars => ComputedFromInput'
      BY StepComputes
<1>3. ComputedFromInput => VerdictFollowsTools
      BY ComputedFollows
<1>4. QED BY <1>1, <1>2, <1>3, PTL DEF DecisionSpec

(***************************************************************************)
(* For any tasks, outcomes and order of the results, a report counts every *)
(* score once, a comparison improves exactly when more tasks succeed, and  *)
(* a distributed rate is not lower; for any trajectories, the datasets,    *)
(* their statistics and the split are true (eval/, distributed/,           *)
(* finetuning/comparison.py, training/).                                   *)
(***************************************************************************)
THEOREM EvaluationsAddUp == DecisionSpec => []EvaluationAddsUp
<1>1. DecisionInit => ComputedFromInput
      BY InitComputes
<1>2. ComputedFromInput /\ [DecisionNext]_decisionVars => ComputedFromInput'
      BY StepComputes
<1>3. ComputedFromInput => EvaluationAddsUp
      BY ComputedAddsUp
<1>4. QED BY <1>1, <1>2, <1>3, PTL DEF DecisionSpec
=============================================================================
