---------------------------- MODULE Verification ----------------------------
(***************************************************************************)
(* Verification of a patch: core/policy.py, verify/gates.py,               *)
(* verify/runner.py and the adapters of pytest, ruff, mypy and bandit.     *)
(*                                                                         *)
(* A changed file is a record [lang, test, state, flagged]: its language,  *)
(* whether its name contains "test", what it is in the worktree ("good",   *)
(* "broken", "absent") and whether its name contains a word the sandbox    *)
(* refuses in a command.  A tool ends "clean", with "issues", by "timeout" *)
(* or is "missing".  Of a check's message the model keeps `marks`: the     *)
(* words later stages look for in it (the categories of                    *)
(* repair/categorizer.py whose keywords it contains, and "edge"); and      *)
(* `at`: the file it locates a failure in, {} or {file}.                   *)
(*                                                                         *)
(* Files are sets: nothing depends on their order.  A list of checks is a  *)
(* function of their places, which need not be consecutive.                *)
(***************************************************************************)
EXTENDS Integers, Sequences, SequencesExt, FiniteSets, FiniteSetsExt

-----------------------------------------------------------------------------
(* Which gates a task requires (core/policy.py).                           *)

DefaultPolicy ==
    [syntax |-> "mandatory", build |-> "mandatory_when_applicable",
     existing_tests |-> "mandatory", new_targeted_tests |-> "mandatory",
     type_check |-> "mandatory_when_applicable", lint |-> "policy_dependent",
     static_analysis |-> "risk_dependent", dependency_validation |-> "mandatory",
     security_scan |-> "risk_dependent", api_compatibility |-> "mandatory",
     migration_check |-> "mandatory", performance_benchmark |-> "optional"]

GateNames == DOMAIN DefaultPolicy

TaskExtraGates ==
    [bugfix |-> {"new_targeted_tests"}, feature |-> {"new_targeted_tests", "api_compatibility"},
     refactor |-> {"api_compatibility"}, security |-> {"security_scan", "static_analysis"},
     migration |-> {"migration_check"}, test |-> {}]

RiskGates ==
    [low |-> {}, medium |-> {"static_analysis"}, high |-> {"static_analysis", "security_scan"}]

\* touches: what else the caller says of the change, a subset of
\* {"dependencies", "public_api", "perf", "build", "types"}.
SelectGates(type, risk, touches) ==
    LET conditional == [dependencies |-> "dependency_validation", public_api |-> "api_compatibility",
                        perf |-> "performance_benchmark", build |-> "build", types |-> "type_check"]
        mandatory == {g \in GateNames : DefaultPolicy[g] = "mandatory"}
                     \union TaskExtraGates[type] \union RiskGates[risk]
                     \union {conditional[t] : t \in touches}
    IN  [g \in GateNames |-> IF g \in mandatory THEN "mandatory" ELSE "optional"]

RequiredGates(gates) == {g \in DOMAIN gates : gates[g] = "mandatory"}

-----------------------------------------------------------------------------
(* The checks and the gates (verify/gates.py).                             *)

Check(type, status, marks, at) == [type |-> type, status |-> status, marks |-> marks, at |-> at]
Skipped(type) == Check(type, "skip", {}, {})

Positions(checks, type) == {k \in DOMAIN checks : checks[k].type = type}

\* The checks are put in a dictionary by type: the last one of a type counts.
Blocks(checks, gate) ==
    LET ran == Positions(checks, gate)
    IN  ~\E last \in ran : (\A k \in ran : k <= last) /\ checks[last].status = "pass"

EvaluateGates(checks, required) == {g \in required : Blocks(checks, g)}

Report(checks, required) ==
    LET blockers == EvaluateGates(checks, required)
    IN  [checks |-> checks, blockers |-> blockers, passed |-> blockers = {},
         status |-> IF blockers = {} THEN "verified_candidate" ELSE "needs_review"]

-----------------------------------------------------------------------------
(***************************************************************************)
(* Running a tool.  env: [sandboxed, tools, located, failures], where      *)
(* tools gives the outcome of the tool behind each check, located the      *)
(* files a finding may be in and failures what pytest prints when it has   *)
(* issues: records [collection, marks].                                    *)
(***************************************************************************)

\* In the sandbox a shell runs the command, so a missing program exits 127, and a
\* command that names a flagged file is not run at all.
ExitCode(env, type, paths) ==
    LET ends == env.tools[type] IN
    IF env.sandboxed /\ \E f \in paths : f.flagged THEN -1
    ELSE CASE ends = "timeout" -> -1
           [] ends = "missing" -> IF env.sandboxed THEN 127 ELSE -1
           [] ends = "issues" -> 1
           [] ends = "clean" -> 0

\* An adapter that reports a tool that could not run as skipped.
FaultyStatusOf(exit) == IF exit = 0 THEN "pass" ELSE IF exit = -1 THEN "skip" ELSE "fail"

StatusOf(exit) == IF exit = 0 THEN "pass" ELSE IF exit = -1 THEN "error" ELSE "fail"

\* Of the first five failures, a collection error is shown by its kind only.
PytestMarks(failures) ==
    LET shown == SubSeq(failures, 1, Min({5, Len(failures)}))
    IN  UNION {shown[k].marks : k \in {i \in DOMAIN shown : ~shown[i].collection}}

RunPytest(env, paths, type) ==
    LET exit == ExitCode(env, type, paths)
    IN  Check(type, StatusOf(exit), IF exit = 1 THEN PytestMarks(env.failures) ELSE {}, {})

\* ruff, mypy and bandit print the file of a finding.
Located(exit, env) == IF exit = 1 THEN env.located ELSE {}

RunLint(env, paths) ==
    LET exit == ExitCode(env, "lint", paths)
    IN  Check("lint", StatusOf(exit), {}, Located(exit, env))

RunMypy(env, paths) ==
    LET exit == ExitCode(env, "type_check", paths)
    IN  Check("type_check", StatusOf(exit), {}, Located(exit, env))

RunBandit(env, paths) ==
    LET exit == ExitCode(env, "security_scan", paths)
    IN  Check("security_scan", StatusOf(exit), {}, Located(exit, env))

-----------------------------------------------------------------------------
(* VerificationRunner.verify                                               *)

OfLanguage(files, lang) == {f \in files : f.lang = lang}
InState(files, state) == {f \in files : f.state = state}

\* Only a syntax error is reported with its line, and the first of them is found again.
CheckSyntax(files) ==
    LET broken == InState(files, "broken")
    IN  IF broken \union InState(files, "absent") = {}
        THEN Check("syntax", "pass", {}, {})
        ELSE Check("syntax", "fail", {}, IF broken = {} THEN {} ELSE {CHOOSE f \in broken : TRUE})

\* The imports are looked at and nothing is decided from them: the check fails for a
\* file that cannot be parsed.
CheckDependencies(files) ==
    Check("dependency_validation",
          IF InState(files, "broken") = {} THEN "pass" ELSE "fail", {}, {})

Targeted(files) == {f \in files : f.test}

\* enabled: the checks among lint, type_check and security_scan that are switched on.
RunChecks(env, enabled, files) ==
    LET python == OfLanguage(files, "python")
        targeted == Targeted(python)
        On(check) == IF check.type \in enabled THEN check ELSE Skipped(check.type)
    IN  << CheckSyntax(python),
           RunPytest(env, {}, "existing_tests"),
           IF targeted = {} THEN Skipped("new_targeted_tests")
           ELSE RunPytest(env, targeted, "new_targeted_tests"),
           On(RunLint(env, python)), On(RunMypy(env, python)), On(RunBandit(env, python)),
           CheckDependencies(python) >>

Verify(env, enabled, files, required) == Report(RunChecks(env, enabled, files), required)
=============================================================================
