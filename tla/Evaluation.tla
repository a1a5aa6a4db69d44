----------------------------- MODULE Evaluation -----------------------------
(***************************************************************************)
(* Scores and reports: eval/scorer.py, eval/reports.py, eval/runner.py,    *)
(* eval/tasks.py, the comparison of two models (finetuning/comparison.py)  *)
(* and the result of a distributed benchmark (distributed/benchmark.py).   *)
(*                                                                         *)
(* A rate is a pair <<count, of>>, so that two can be subtracted without   *)
(* rounding; patch minimality is in tenths.  A benchmark task is a record  *)
(* [id, type].  What running it gives is a record [raises, patches,        *)
(* reports, status, hidden, hiddenTotal, newTests, regressed, invented]:   *)
(* patches has the number of files of each attempt, a report is            *)
(* [checks, passed, unknowns].                                             *)
(***************************************************************************)
EXTENDS Selection, Sequences, SequencesExt, FiniteSetsExt

NoId == "" \* the task_id of a score made without a patch

PatchMinimality(patches) ==
    IF patches = <<>> THEN 0 ELSE Max({0, 10 - Last(patches)})

TestAdequacy(new, total) ==
    IF total > 0 THEN <<Min({new, total}), total>>
    ELSE IF new > 0 THEN <<1, 2>> ELSE <<0, 1>>

\* A scorer that counts a verified task with several attempts as solved at once.
FaultyPassAt1(verified, patches) == verified /\ patches # <<>>

PassAt1(verified, patches) == verified /\ Len(patches) = 1

ScoreTask(task, o) ==
    LET verified == o.status = "verified_candidate" /\ o.hidden /\ ~o.regressed
        latest == Last(o.reports)
    IN  [id |-> IF o.patches = <<>> THEN NoId ELSE task.id,
         verified |-> verified,
         pass1 |-> PassAt1(verified, o.patches),
         repaired |-> Len(o.patches) > 1 /\ verified /\ ~PassAt1(verified, o.patches),
         regressed |-> o.regressed,
         grounding |-> o.invented,
         complete |-> o.reports # <<>> /\ latest.passed /\ ~latest.unknowns,
         calls |-> SumFunction([k \in DOMAIN o.reports |-> o.reports[k].checks]),
         minimality |-> PatchMinimality(o.patches),
         adequacy |-> TestAdequacy(o.newTests, o.hiddenTotal),
         escalated |-> o.status = "needs_review"]

\* The score of a task whose runner raised (finetuning/comparison.py).
FailedScore(id) ==
    [id |-> id, verified |-> FALSE, pass1 |-> FALSE, repaired |-> FALSE, regressed |-> FALSE,
     grounding |-> 0, complete |-> FALSE, calls |-> 0, minimality |-> 10,
     adequacy |-> <<0, 1>>, escalated |-> FALSE]

-----------------------------------------------------------------------------
(* EvaluationReport: the scores, with the category given for each; the     *)
(* category of an identifier is the last one given for it, if any is.      *)

EvaluationReport(scores, given) ==
    LET Given(id) == {k \in DOMAIN scores : scores[k].id = id /\ given[k] # ""}
    IN  [scores |-> scores,
         category |-> [id \in {i \in {s.id : s \in Range(scores)} : Given(i) # {}} |->
                          given[Max(Given(id))]]]

FromScores(scores) == EvaluationReport(scores, [k \in DOMAIN scores |-> ""])

Total(report) == Len(report.scores)
Count(scores, Holds(_)) == Cardinality({k \in DOMAIN scores : Holds(scores[k])})

IsVerified(s) == s.verified
IsPass1(s) == s.pass1
IsRepaired(s) == s.repaired
IsRegressed(s) == s.regressed
IsComplete(s) == s.complete
IsEscalated(s) == s.escalated

Over(count, total) == IF total = 0 THEN <<0, 1>> ELSE <<count, total>>

Rates(report) ==
    LET n == Total(report)
        Sum(Of(_)) == SumFunction([k \in DOMAIN report.scores |-> Of(report.scores[k])])
    IN  [verified |-> Over(Count(report.scores, IsVerified), n),
         pass1 |-> Over(Count(report.scores, IsPass1), n),
         repaired |-> Over(Count(report.scores, IsRepaired), n),
         regressed |-> Over(Count(report.scores, IsRegressed), n),
         grounding |-> Over(Sum(LAMBDA s : s.grounding), n),
         complete |-> Over(Count(report.scores, IsComplete), n),
         calls |-> Over(Sum(LAMBDA s : s.calls), n)]

CategoryOf(categories, id) == IF id \in DOMAIN categories THEN categories[id] ELSE "unknown"

Breakdown(report) ==
    LET scores == report.scores
        Category(k) == CategoryOf(report.category, scores[k].id)
        CountIn(c, Holds(_)) == Cardinality({k \in DOMAIN scores : Category(k) = c /\ Holds(scores[k])})
    IN  [c \in {Category(k) : k \in DOMAIN scores} |->
            [total |-> CountIn(c, LAMBDA s : TRUE), verified |-> CountIn(c, IsVerified),
             pass1 |-> CountIn(c, IsPass1), repaired |-> CountIn(c, IsRepaired),
             regressed |-> CountIn(c, IsRegressed), escalated |-> CountIn(c, IsEscalated)]]

Minus(a, b) == <<a[1] * b[2] - b[1] * a[2], a[2] * b[2]>>

Compare(baseline, experimental) ==
    LET b == Rates(baseline)  e == Rates(experimental)
    IN  [m \in DOMAIN b |-> Minus(e[m], b[m])]

-----------------------------------------------------------------------------
(* Running a benchmark.                                                    *)

\* A benchmark set is a dictionary by identifier: a task that is added again replaces the
\* one there was and leaves it where it was.
BenchmarkSet(tasks) ==
    LET Same(k) == {m \in DOMAIN tasks : tasks[m].id = tasks[k].id}
    IN  Picked([k \in DOMAIN tasks |-> tasks[Max(Same(k))]],
               {k \in DOMAIN tasks : k = Min(Same(k))})

\* BenchmarkRunner.run_all, whose report is only returned when no task raises.  outcomes gives
\* the outcome of an id.
RunAll(tasks, outcomes) ==
    EvaluationReport([k \in DOMAIN tasks |-> ScoreTask(tasks[k], outcomes[tasks[k].id])],
                     [k \in DOMAIN tasks |-> tasks[k].type])

\* The runner of one model in a comparison turns an exception into a failed score.
RunModel(tasks, outcomes) ==
    [k \in DOMAIN tasks |-> IF outcomes[tasks[k].id].raises THEN FailedScore(tasks[k].id)
                            ELSE ScoreTask(tasks[k], outcomes[tasks[k].id])]

\* Each list is put in a dictionary by identifier, of which the last score stays.
ByTask(scores) ==
    [id \in {s.id : s \in Range(scores)} |->
        scores[Max({k \in DOMAIN scores : scores[k].id = id})]]

Truth(b) == IF b THEN 1 ELSE 0

ComputePerTaskDeltas(base, tuned) ==
    LET b == ByTask(base)  f == ByTask(tuned)
    IN  [id \in DOMAIN b \intersect DOMAIN f |->
            [verified |-> Truth(f[id].verified) - Truth(b[id].verified),
             grounding |-> f[id].grounding - b[id].grounding,
             minimality |-> f[id].minimality - b[id].minimality,
             adequacy |-> Minus(f[id].adequacy, b[id].adequacy),
             calls |-> f[id].calls - b[id].calls]]

\* ModelComparisonHarness.run and ComparisonResult.improvement
Comparison(tasks, base, tuned) ==
    LET b == RunModel(tasks, base)  f == RunModel(tasks, tuned)
        deltas == Compare(FromScores(b), FromScores(f))
    IN  [perTask |-> ComputePerTaskDeltas(b, f), aggregate |-> deltas,
         improvement |-> deltas.verified[1] > 0]

\* A distributed benchmark reports the jobs that succeeded, in the order found.
DistributedReport(tasks, outcomes, order) ==
    LET Score(k) == ScoreTask(tasks[order[k]], outcomes[tasks[order[k]].id])
    IN  FromScores(Picked([k \in DOMAIN order |-> Score(k)],
                          {k \in DOMAIN order : ~outcomes[tasks[order[k]].id].raises}))
=============================================================================
