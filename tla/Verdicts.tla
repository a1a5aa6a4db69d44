------------------------------ MODULE Verdicts ------------------------------
(***************************************************************************)
(* The computations of Verification, Review and Languages, each made once  *)
(* on an input chosen initially and compared with what a verdict promises, *)
(* stated from how the tools ended.                                        *)
(***************************************************************************)
EXTENDS Review, Languages

CONSTANTS
    Changes,       \* inputs of one verification and review: records
                   \*   [env, config, patch, task, risk, reasoning]
    Polyglots,     \* of one verification in several languages:
                   \*   [env, registry, repo, files, required]
    NoResult       \* nothing computed yet

ToolGates == {"existing_tests", "new_targeted_tests", "lint", "type_check", "security_scan"}
AdapterGates == {"syntax", "build", "existing_tests", "lint", "type_check"}
Ends == {"clean", "issues", "timeout", "missing"}
FileStates == {"good", "broken", "absent"}

\* Every tool ends in one of four ways, a file is in one of three states, and the task is
\* of a kind the code knows.
ASSUME ChangesAssumption ==
    \A c \in Changes :
        /\ c.env.tools \in [ToolGates -> Ends]
        /\ IsFiniteSet(c.patch.files)
        /\ \A f \in c.patch.files : f.state \in FileStates
        /\ c.task.type \in DOMAIN ExpectedMaxFiles

\* A registry holds a language once; what is behind a check is a command, but for Python's
\* own parser.
ASSUME PolyglotsAssumption ==
    \A p \in Polyglots :
        /\ \A k, m \in DOMAIN p.registry : p.registry[k].lang = p.registry[m].lang => k = m
        /\ \A a \in Range(p.registry) : \A gate \in AdapterGates :
              \/ a[gate] \in DOMAIN p.env.ends \ {"parse", "parse all"}
              \/ gate = "syntax" /\ a[gate] = "parse"
              \/ gate = "build" /\ a[gate] = "parse all"
        /\ \A command \in DOMAIN p.env.ends : p.env.ends[command] \in Ends
        /\ p.registry \in Seq(Range(p.registry))
        /\ \A f \in p.files : f.state \in FileStates

VARIABLES
    topic,    \* which computation
    input,    \* its input
    result    \* what it gave, NoResult before

decisionVars == <<topic, input, result>>

VerdictInit ==
    /\ \/ topic = "change" /\ input \in Changes
       \/ topic = "polyglot" /\ input \in Polyglots
    /\ result = NoResult

Compute(name, value) == topic = name /\ result = NoResult /\ result' = value /\ UNCHANGED <<topic, input>>

\* A patch is verified and reviewed.  The repair loop verifies the patch it proposes, which
\* changes nothing in the worktree, and the patch after repair is reviewed with that report.
VerifyAndReview(change) ==
    LET Verified(patch) == Verify(change.env, change.config, patch.files, change.task.required)
        Reviewed(patch, reports) == StageReview(patch, change.task, reports, change.reasoning)
        report == Verified(change.patch)
        failures == Categorize(report.checks)
        proposed == Repair(change.patch, failures)
        gates == SelectGates(change.task.type, change.risk, {})
    IN  [report |-> report, failures |-> failures, categories |-> FailureCategories(report.checks),
         decision |-> Reviewed(change.patch, <<report>>),
         repaired |-> Reviewed(AfterRepair(change.patch), <<Verified(proposed)>>),
         unverified |-> Reviewed(change.patch, <<>>),
         byPolicy |-> Report(report.checks, RequiredGates(gates))]

ReviewChange == Compute("change", VerifyAndReview(input))

VerifyPolyglot ==
    Compute("polyglot",
        VerifyLanguages(input.env, input.registry, input.repo, input.files, input.required))

VerdictNext == ReviewChange \/ VerifyPolyglot

-----------------------------------------------------------------------------
Computed(name) == topic = name /\ result # NoResult

\* What the tool behind a check did, as a shell would see it.
EndedWell(gate) == input.env.tools[gate] = "clean"
Refused(files) == input.env.sandboxed /\ \E f \in files : f.flagged

ChangedPython == OfLanguage(input.patch.files, "python")

\* A run is decided a verified candidate only if the existing tests, and the security
\* scan when it is switched on, were run and ended well, no tool was refused or timed
\* out, every required gate was run and ended well, new tests were run, and the patch
\* changes something, within its limits and on the evidence it cites.
VerifiedIsEarned ==
    result.decision.status = "verified_candidate" =>
        /\ EndedWell("existing_tests")
        /\ \A gate \in input.config \intersect {"lint", "type_check", "security_scan"} :
              input.env.tools[gate] # "timeout" /\ ~Refused(ChangedPython)
        /\ "security_scan" \in input.config => EndedWell("security_scan")
        /\ \A gate \in input.task.required :
              \/ gate = "syntax" /\ \A f \in ChangedPython : f.state = "good"
              \/ gate = "dependency_validation" /\ \A f \in ChangedPython : f.state # "broken"
              \/ /\ gate \in DOMAIN input.env.tools
                 /\ EndedWell(gate)
                 /\ gate \in {"lint", "type_check", "security_scan"} => gate \in input.config
        /\ \E f \in ChangedPython : f.test
        /\ input.task.criteria => EndedWell("new_targeted_tests")
        /\ "text" \in input.patch.diff /\ "debug" \notin input.patch.diff
        /\ Cardinality(input.patch.files) <= ExpectedMaxFiles[input.task.type]
        /\ input.reasoning # <<>> => input.patch.falsified
        /\ input.reasoning # <<>> /\ input.reasoning[1].cited

\* Something is changed, and all that is changed is in one language.
OneLanguage(lang) == input.files # {} /\ \A f \in input.files : f.lang = lang

\* What verification runs decides the verdict of a change: a verified candidate is
\* earned; a run is rejected exactly when a required gate is not passed; whatever is not
\* verified says why; the failures a repair works from are the checks that failed or
\* could not run, one for each; a repaired patch, whose diff is empty, and a run without
\* a report are never verified candidates; the gates that the policy selects include
\* checks that are never run, so no report passes them.  For a change
\* in one language that has an adapter, the multi-language runner passes a gate only if
\* the command behind it ended well.
VerdictFollowsTools ==
    /\ Computed("change") =>
        /\ VerifiedIsEarned
        /\ (result.decision.status = "rejected") <=> ~result.report.passed
        /\ result.decision.status # "verified_candidate" => result.decision.blockers # {}
        /\ DOMAIN result.failures = {k \in DOMAIN result.report.checks :
                                       result.report.checks[k].status \in {"fail", "error"}}
        /\ (DOMAIN result.failures # {}) <=> HasBlockingFailures(result.report.checks)
        /\ result.categories \intersect {"test_failure", "import_error"} # {} <=>
              \E k \in DOMAIN result.report.checks :
                 /\ result.report.checks[k].type \in {"existing_tests", "new_targeted_tests"}
                 /\ result.report.checks[k].status \in {"fail", "error"}
        /\ result.repaired.status # "verified_candidate"
        /\ result.unverified.status = "rejected"
        /\ ~result.byPolicy.passed
    /\ Computed("polyglot") /\ result.passed =>
        \A a \in Range(input.registry) : OneLanguage(a.lang) => \A gate \in input.required :
            \/ a[gate] \in DOMAIN input.env.ends /\ input.env.ends[a[gate]] = "clean"
            \/ a[gate] = "parse" /\ \A f \in input.files : f.state = "good"
            \/ a[gate] = "parse all" /\ input.env.parses
=============================================================================
