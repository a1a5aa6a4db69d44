------------------------------ MODULE Languages ------------------------------
(***************************************************************************)
(* Verification of a patch in several languages: languages/*.py and        *)
(* verify/multilang.py.                                                    *)
(*                                                                         *)
(* An adapter says how its language is recognised (markers: files of the   *)
(* root that give it away; else any file of the language) and which        *)
(* command is behind each check.  Two checks of an adapter may run the     *)
(* same command.  "parse" and "parse all" are Python's own parser.         *)
(***************************************************************************)
EXTENDS Verification

\* Python checks without a command of its own for syntax and build.
PythonAdapter ==
    [lang |-> "python", markers |-> {}, syntax |-> "parse", build |-> "parse all",
     existing_tests |-> "pytest", lint |-> "ruff", type_check |-> "mypy"]
GoAdapter ==
    [lang |-> "go", markers |-> {"go.mod"}, syntax |-> "go vet", build |-> "go build",
     existing_tests |-> "go test", lint |-> "staticcheck", type_check |-> "go vet"]
RustAdapter ==
    [lang |-> "rust", markers |-> {"Cargo.toml"}, syntax |-> "cargo check",
     build |-> "cargo build", existing_tests |-> "cargo test", lint |-> "cargo clippy",
     type_check |-> "cargo check"]
TypeScriptAdapter ==
    [lang |-> "typescript", markers |-> {"tsconfig.json"}, syntax |-> "tsc",
     build |-> "npm build", existing_tests |-> "npm test", lint |-> "eslint", type_check |-> "tsc"]
\* The build tool is Maven's unless the root has only Gradle's files.
JavaAdapter(root) ==
    LET gradle == "pom.xml" \notin root /\ root \intersect {"build.gradle", "build.gradle.kts"} # {}
    IN  [lang |-> "java", markers |-> {"pom.xml", "build.gradle", "build.gradle.kts"},
         syntax |-> "javac",
         build |-> IF gradle THEN "gradlew compileJava" ELSE "mvn compile",
         existing_tests |-> IF gradle THEN "gradlew test" ELSE "mvn test",
         lint |-> IF gradle THEN "gradlew checkstyleMain" ELSE "mvn checkstyle",
         type_check |-> IF gradle THEN "gradlew compileJava" ELSE "mvn compiler"]

\* The registry is a sequence of adapters; registering a name twice raises.
Register(known, adapter) ==
    IF \E k \in DOMAIN known : known[k].lang = adapter.lang THEN known
    ELSE Append(known, adapter)

Unregister(known, lang) == SelectSeq(known, LAMBDA a : a.lang # lang)

RegisterBuiltins(known, root) ==
    FoldLeft(Register, known,
             <<PythonAdapter, GoAdapter, RustAdapter, TypeScriptAdapter, JavaAdapter(root)>>)

\* repo: [root, langs], the names in the root and the languages of the files.
Detect(adapter, repo) ==
    adapter.markers \intersect repo.root # {} \/ adapter.lang \in repo.langs

\* The adapters found are the set of their places among the known ones.
DetectForRepo(known, repo) == {k \in DOMAIN known : Detect(known[k], repo)}
DetectForFiles(known, files) ==
    {k \in DOMAIN known : OfLanguage(files, known[k].lang) # {}}

-----------------------------------------------------------------------------
(* env.ends gives the outcome of every command, env.parses whether all the *)
(* Python files of the worktree can be parsed.                             *)

RunCommand(env, command, type) ==
    Check(type, CASE env.ends[command] = "clean" -> "pass"
                  [] env.ends[command] = "issues" -> "fail"
                  [] env.ends[command] \in {"timeout", "missing"} -> "error", {}, {})

\* A check of the changed files, which is skipped when none is of the language.
FileCheck(env, command, type, files) ==
    IF files = {} THEN Skipped(type) ELSE RunCommand(env, command, type)

SyntaxCheck(env, adapter, files) ==
    IF adapter.syntax = "parse" THEN CheckSyntax(files)
    ELSE FileCheck(env, adapter.syntax, "syntax", files)

Build(env, adapter) ==
    IF adapter.build = "parse all" THEN Check("build", IF env.parses THEN "pass" ELSE "fail", {}, {})
    ELSE RunCommand(env, adapter.build, "build")

AdapterChecks(env, adapter, files) ==
    << SyntaxCheck(env, adapter, files),
       Build(env, adapter),
       RunCommand(env, adapter.existing_tests, "existing_tests"),
       FileCheck(env, adapter.lint, "lint", files),
       FileCheck(env, adapter.type_check, "type_check", files) >>

\* MultiLanguageVerificationRunner.verify: the five checks of every adapter, in the order
\* of the registry.
VerifyLanguages(env, known, repo, files, required) ==
    LET ofFiles == DetectForFiles(known, files)
        adapters == IF ofFiles # {} THEN ofFiles ELSE DetectForRepo(known, repo)
        ChecksOf(k) == AdapterChecks(env, known[k], OfLanguage(files, known[k].lang))
        checks == [n \in {5 * k + i : k \in adapters, i \in 0 .. 4} |-> ChecksOf(n \div 5)[(n % 5) + 1]]
    IN  Report(IF adapters = {} THEN <<Skipped("syntax")>> ELSE checks, required)
=============================================================================
