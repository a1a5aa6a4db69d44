----------------------------- MODULE MCDecisions -----------------------------
(***************************************************************************)
(* The inputs TLC computes Decisions on.                                   *)
(***************************************************************************)
EXTENDS Decisions, TLC

File(name, lang, test, state, flagged) ==
    [name |-> name, lang |-> lang, test |-> test, state |-> state, flagged |-> flagged]

plain(n) == File(n, "python", FALSE, "good", FALSE)
tests == File("test", "python", TRUE, "good", FALSE)
broken == File("b", "python", FALSE, "broken", FALSE)
deleted == File("d", "python", FALSE, "absent", FALSE)
shutdown == File("test_shutdown", "python", TRUE, "good", TRUE)

FileSets == {{}, {plain("1")}, {tests}, {shutdown}, {broken, tests}, {deleted, tests},
             {plain("1"), plain("2"), plain("3"), tests}}

Environments ==
    {[sandboxed |-> s, located |-> {plain("1")},
      failures |-> << [collection |-> c, marks |-> {"import_error"}] >>,
      tools |-> [existing_tests |-> e, new_targeted_tests |-> t, lint |-> l,
                 type_check |-> "clean", security_scan |-> b]] :
        s \in BOOLEAN, c \in {TRUE}, e \in {"clean", "issues", "timeout", "missing"},
        t \in {"clean", "issues"}, l \in {"clean", "issues", "timeout"},
        b \in {"clean", "issues", "missing"}}

\* What is wrong with a patch, one thing at a time.
Patch(files, flaw) ==
    [files |-> files, symbols |-> IF flaw = "symbols" THEN <<TRUE, TRUE, TRUE, FALSE>> ELSE <<TRUE>>,
     assumptions |-> IF flaw = "assumption" THEN {{"behavior"}} ELSE {},
     falsified |-> flaw # "unfalsified",
     diff |-> CASE flaw = "empty" -> {} [] flaw = "debug" -> {"text", "debug"} [] OTHER -> {"text"}]

Reasoning(files, flaw) ==
    CASE flaw = "unreasoned" -> <<>>
      [] flaw = "uncited" -> << [cited |-> FALSE, evidence |-> {}] >>
      [] OTHER -> << [cited |-> TRUE, evidence |-> files] >>

Flaws == {"none", "symbols", "assumption", "unfalsified", "empty", "debug", "unreasoned", "uncited"}

Task(type, criteria, required) == [type |-> type, criteria |-> criteria, required |-> required]

Tasks == {Task("bugfix", TRUE, {}), Task("bugfix", FALSE, {"existing_tests"}),
          Task("refactor", FALSE, {}), Task("security", TRUE, {"syntax", "dependency_validation"}),
          Task("feature", FALSE, {"lint", "security_scan", "new_targeted_tests"}),
          Task("test", TRUE, {"api_compatibility"})}

TheChanges ==
    {[env |-> e, config |-> c, patch |-> Patch(fs, flaw), task |-> t, risk |-> "high",
      reasoning |-> Reasoning(fs, flaw)] :
        e \in Environments, c \in {{}, {"lint", "type_check", "security_scan"}},
        fs \in FileSets, flaw \in Flaws, t \in Tasks}

-----------------------------------------------------------------------------
gofile == File("m", "go", FALSE, "good", FALSE)
javafile == File("j", "java", FALSE, "good", FALSE)

Commands == {"pytest", "ruff", "mypy", "go vet", "go build", "go test", "staticcheck",
             "cargo check", "cargo build", "cargo test", "cargo clippy", "tsc", "npm build", "npm test",
             "eslint", "javac", "gradlew compileJava", "gradlew test", "gradlew checkstyleMain",
             "mvn compile", "mvn test", "mvn checkstyle", "mvn compiler"}

\* One command or two end otherwise.
ToolEnds == {[c \in Commands |-> IF c = x THEN u ELSE IF c = y THEN v ELSE "clean"] :
            x \in {"pytest", "ruff", "mypy", "mvn test"}, y \in {"go vet", "go test", "gradlew test"},
            u, v \in {"clean", "issues", "timeout", "missing"}}

Repo(root) == [root |-> root, langs |-> {"python"}]

ThePolyglots ==
    {[env |-> [ends |-> e, parses |-> p], repo |-> Repo(root), files |-> fs, required |-> g,
      registry |-> r] :
        e \in ToolEnds, p \in BOOLEAN, fs \in {{}, {plain("1")}, {broken}, {gofile}, {javafile},
                                           {plain("1"), gofile}},
        g \in {{"existing_tests"}, {"syntax", "build", "lint"}, {"type_check", "existing_tests"}},
        root \in {{"go.mod"}, {"build.gradle"}},
        r \in {RegisterBuiltins(<<>>, {"build.gradle"}),
               Unregister(RegisterBuiltins(<<>>, {"pom.xml"}), "go")}}

-----------------------------------------------------------------------------
Outcome(raises, patches, status, hidden) ==
    [raises |-> raises, patches |-> patches, status |-> status, hidden |-> hidden,
     reports |-> [k \in DOMAIN patches |-> [checks |-> 7, passed |-> hidden, unknowns |-> FALSE]],
     hiddenTotal |-> 2, newTests |-> Len(patches), regressed |-> ~hidden, invented |-> 0]

Outcomes == {Outcome(TRUE, <<1>>, "failed", FALSE), Outcome(FALSE, <<1>>, "verified_candidate", TRUE),
             Outcome(FALSE, <<3, 2>>, "verified_candidate", TRUE),
             Outcome(FALSE, <<2>>, "verified_candidate", FALSE), Outcome(FALSE, <<>>, "needs_review", FALSE)}

taskA == [id |-> "a", type |-> "bugfix"]
taskB == [id |-> "b", type |-> "feature"]
taskC == [id |-> "c", type |-> "bugfix"]

TheBenchmarks ==
    {[tasks |-> ts, base |-> x, tuned |-> y, order |-> IF Len(ts) = 3 THEN <<2, 1, 3>> ELSE <<2, 1>>] :
        ts \in {<<taskA, taskB, taskC>>, <<taskA, taskB>>}, x, y \in [{"a", "b", "c"} -> Outcomes]}
    \union {[tasks |-> <<taskB, taskA, [taskA EXCEPT !.type = "feature"]>>, base |-> x, tuned |-> x, order |-> <<2, 1>>] :
        x \in [{"a", "b"} -> Outcomes]}

-----------------------------------------------------------------------------
Trajectory(status, patches, evidence, checks) ==
    [snapshot |-> TRUE, status |-> status, patches |-> patches, evidence |-> evidence,
     checks |-> checks, hypotheses |-> 1]

Kinds == {Trajectory("verified_candidate", <<1>>, 2, 1), Trajectory("verified_candidate", <<4, 3>>, 1, 1),
          Trajectory("rejected", <<2>>, 1, 0), Trajectory("failed", <<>>, 0, 0),
          Trajectory("needs_review", <<1, 1>>, 1, 1)}

Backwards(ts) == [k \in DOMAIN ts |-> Len(ts) + 1 - k]

TheTrajectories ==
    {[ts |-> ts, least |-> l, ratio |-> r, shuffle |-> Backwards(ts)] :
        ts \in BoundedSeq(Kinds, 4), r \in {2, 5}, l \in {<<>>, [minimality |-> 16], [repair |-> 16, evidence |-> 10]}}

=============================================================================
