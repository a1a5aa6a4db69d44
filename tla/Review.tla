------------------------------- MODULE Review -------------------------------
(***************************************************************************)
(* What a verification report leads to: the categories a repair works from *)
(* (repair/categorizer.py, repair/repair_reasoner.py), the critic's        *)
(* findings and the final decision (reasoning/critic.py and the review     *)
(* stage of orchestrator.py).                                              *)
(*                                                                         *)
(* A patch is a record [files, symbols, assumptions, falsified, diff]: the *)
(* changed files; for each changed symbol whether it shares a word with    *)
(* the instruction; for each assumption a subset of {"safe", "import",     *)
(* "module", "behavior", "correct"}, the words it contains; whether it has *)
(* falsification checks; and a subset of {"text", "long", "debug"} of what *)
(* its diff contains.  A task is [type, criteria, required].               *)
(***************************************************************************)
EXTENDS Verification

Categories == <<"syntax", "test_failure", "type_error", "import_error", "lint", "security", "config">>

CategorizeError(type, marks) ==
    LET hits == {k \in DOMAIN Categories : Categories[k] \in marks} IN
    CASE type = "syntax" -> "syntax"
      [] type \in {"existing_tests", "new_targeted_tests"} ->
             IF "import_error" \in marks THEN "import_error" ELSE "test_failure"
      [] type = "type_check" -> "type_error"
      [] type = "lint" -> "lint"
      [] type \in {"security_scan", "static_analysis"} -> "security"
      [] type = "dependency_validation" ->
             IF "import_error" \in marks THEN "import_error" ELSE "other"
      [] type = "build" -> IF "config" \in marks THEN "config" ELSE "other"
      [] OTHER -> IF hits = {} THEN "other" ELSE Categories[Min(hits)]

CategorizeCheck(check) ==
    [type |-> check.type, status |-> check.status,
     category |-> CategorizeError(check.type, check.marks), at |-> check.at]

\* A failure has the place of its check.
Categorize(checks) ==
    [k \in {i \in DOMAIN checks : checks[i].status \notin {"pass", "skip", "waived"}} |->
        CategorizeCheck(checks[k])]

HasBlockingFailures(checks) == \E k \in DOMAIN checks : checks[k].status \in {"fail", "error"}

FailureCategories(checks) == {s.category : s \in Range(Categorize(checks))}

-----------------------------------------------------------------------------
(* RepairReasoner.repair: no diff, the files the failures name, and the    *)
(* assumptions with those the failures refute replaced by new ones.        *)

Lesson(category) ==
    CASE category = "import_error" -> {{"import", "module"}}
      [] category = "test_failure" -> {{"behavior"}}
      [] category \in {"syntax", "type_error"} -> {{category}}
      [] OTHER -> {}

Refuted(category) ==
    CASE category = "import_error" -> {"import", "module"}
      [] category = "test_failure" -> {"behavior", "correct"}
      [] OTHER -> {}

\* One failure after the other.  No lesson is refuted by a failure of another category,
\* and one that a failure of its own category refutes is learnt again.
ReviseAssumptions(prior, failures) ==
    LET met == {f.category : f \in Range(failures)}
    IN  {a \in prior : \A c \in met : a \intersect Refuted(c) = {}}
        \union UNION {Lesson(c) : c \in met}

Repair(patch, failures) ==
    [patch EXCEPT !.diff = {}, !.symbols = <<>>, !.falsified = FALSE,
                  !.files = UNION {f.at : f \in Range(failures)},
                  !.assumptions = ReviseAssumptions(patch.assumptions, failures)]

\* What is reviewed after a repair is not its proposal: the orchestrator makes a patch of
\* the original's files and of nothing else.
AfterRepair(patch) ==
    [patch EXCEPT !.diff = {}, !.symbols = <<>>, !.falsified = FALSE, !.assumptions = {}]

-----------------------------------------------------------------------------
(* The critic: a set of <<severity, category>>, as only the presence of a  *)
(* severity counts in the decision.                                        *)

Found(condition, findings) == IF condition THEN findings ELSE {}

\* contract: the assumptions and falsification checks the reasoning stated, or
\* <<>> when there is none.
CheckAssumptions(patch, contract) ==
    LET grounded == IF contract = <<>> THEN {} ELSE contract[1].assumptions
    IN  {<<IF "safe" \in a THEN "minor" ELSE "major", "unsupported_assumption">> :
            a \in patch.assumptions \ grounded}

CheckTestGaps(patch, task, checks) ==
    LET targeted == Positions(checks, "new_targeted_tests")
        edge == \E k \in DOMAIN checks : "edge" \in checks[k].marks
    IN  Found(\E k \in targeted : checks[k].status = "skip", {<<"major", "test_gap">>})
        \union Found(task.criteria /\ \A k \in targeted : checks[k].status # "pass",
                    {<<"major", "test_gap">>})
        \union Found(patch.files # {} /\ ~edge /\ task.type \in {"bugfix", "feature", "security"},
                    {<<"minor", "test_gap">>})

ExpectedMaxFiles ==
    [bugfix |-> 3, feature |-> 5, refactor |-> 10, test |-> 5, security |-> 3, migration |-> 7]

CheckOverreach(patch, task) ==
    Found(Cardinality(patch.files) > ExpectedMaxFiles[task.type], {<<"major", "overreach">>})
    \union Found(Len(patch.symbols) > 3 /\ FALSE \in Range(patch.symbols), {<<"minor", "overreach">>})

\* evidence: the set of files the locators name, whole or in part; cited: whether
\* there are locators at all.
CheckGrounding(patch, cited, evidence) ==
    IF ~cited THEN Found(patch.files # {}, {<<"major", "grounding_issue">>})
    ELSE Found(~(patch.files \subseteq evidence), {<<"minor", "grounding_issue">>})

CheckFalsification(patch, contract) ==
    Found(contract # <<>> /\ ~contract[1].falsified, {<<"major", "missing_falsification">>})
    \union Found(~patch.falsified, {<<"minor", "missing_falsification">>})

CheckDiffQuality(patch) ==
    IF "text" \notin patch.diff THEN {<<"blocker", "diff_quality">>}
    ELSE Found("long" \in patch.diff, {<<"minor", "diff_quality">>})
         \union Found("debug" \in patch.diff, {<<"major", "diff_quality">>})

CheckBehaviorPreservation(checks) ==
    LET Failed(type) == \E k \in Positions(checks, type) : checks[k].status = "fail"
    IN  Found(Failed("existing_tests"), {<<"blocker", "behavior_preservation">>})
        \union Found(Failed("api_compatibility"), {<<"major", "behavior_preservation">>})

CheckVerificationFailures(checks) ==
    LET OfStatus(s) == {checks[k].type : k \in {i \in DOMAIN checks : checks[i].status = s}}
    IN  Found(OfStatus("error") # {}, {<<"major", "diff_quality">>})
        \union Found("security_scan" \in OfStatus("fail"), {<<"blocker", "security_concern">>})

CriticReview(patch, task, checks, contract, cited, evidence) ==
    CheckAssumptions(patch, contract)
    \union CheckTestGaps(patch, task, checks)
    \union CheckOverreach(patch, task)
    \union CheckGrounding(patch, cited, evidence)
    \union CheckFalsification(patch, contract)
    \union CheckDiffQuality(patch)
    \union CheckBehaviorPreservation(checks)
    \union CheckVerificationFailures(checks)

OfSeverity(findings, severity) == {f \in findings : f[1] = severity}

\* The blockers of a rejection are the report's, which the decision lists anyway.
Decide(report, findings) ==
    LET blockers == OfSeverity(findings, "blocker")
        majors == OfSeverity(findings, "major")
    IN  CASE ~report.passed -> [status |-> "rejected", blockers |-> report.blockers]
          [] report.passed /\ blockers # {} ->
                 [status |-> "needs_review", blockers |-> blockers]
          [] report.passed /\ blockers = {} /\ majors # {} ->
                 [status |-> "needs_review", blockers |-> majors]
          [] OTHER -> [status |-> "verified_candidate", blockers |-> {}]

NoReport == [checks |-> <<>>, blockers |-> {"no report"}, passed |-> FALSE, status |-> "needs_review"]

\* The review stage of a run.  reasoning: <<>>, or <<[cited, evidence]>>; reports: <<>> or
\* <<the report>>.  The contract repeats what the patch itself assumes.
StageReview(patch, task, reports, reasoning) ==
    LET report == IF reports = <<>> THEN NoReport ELSE reports[1]
        contract == IF reasoning = <<>> THEN <<>>
                    ELSE <<[assumptions |-> patch.assumptions, falsified |-> patch.falsified]>>
        cited == reasoning # <<>> /\ reasoning[1].cited
        evidence == IF cited THEN reasoning[1].evidence ELSE {}
    IN  Decide(report, CriticReview(patch, task, report.checks, contract, cited, evidence))
=============================================================================
