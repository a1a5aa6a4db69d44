------------------------------ MODULE Decisions ------------------------------
(***************************************************************************)
(* The computations of Verdicts, Evaluation and Training, each made once   *)
(* on an input chosen initially and compared with what it promises,        *)
(* defined without its algorithm.                                          *)
(***************************************************************************)
EXTENDS Verdicts, Evaluation, Training

CONSTANTS
    Benchmarks,    \* inputs of a benchmark and a comparison: [tasks, base, tuned, order]
    Trajectories   \* of the datasets: [ts, least, ratio, shuffle]

\* Every task has a type, there is an outcome for each under both models, and the results
\* of a distributed benchmark come back in some order.
ASSUME BenchmarksAssumption ==
    \A b \in Benchmarks :
        /\ b.tasks \in Seq(Range(b.tasks)) /\ \A t \in Range(b.tasks) : t.type # ""
        /\ \A t \in Range(b.tasks), outcomes \in {b.base, b.tuned} :
              /\ outcomes[t.id].patches \in Seq(Nat)
              /\ {outcomes[t.id].raises, outcomes[t.id].hidden, outcomes[t.id].regressed} \subseteq BOOLEAN
        /\ b.order \in Bijection(DOMAIN b.order, DOMAIN BenchmarkSet(b.tasks))
        /\ b.order \in Seq(Nat)

\* A trajectory has attempts and counts, a split takes some of the ten tenths, and a
\* shuffle permutes.
ASSUME TrajectoriesAssumption ==
    \A d \in Trajectories :
        /\ d.ts \in Seq(Range(d.ts))
        /\ \A t \in Range(d.ts) : t.patches \in Seq(Nat) /\ t.evidence \in Nat
        /\ d.ratio \in 0 .. 10
        /\ d.shuffle \in Bijection(DOMAIN d.ts, DOMAIN d.ts)

DecisionInit ==
    \/ VerdictInit
    \/ /\ \/ topic = "benchmark" /\ input \in Benchmarks
          \/ topic = "dataset" /\ input \in Trajectories
       /\ result = NoResult

BenchmarkResults(b) ==
    LET set == BenchmarkSet(b.tasks)
    IN  [report |-> RunAll(set, b.base), comparison |-> Comparison(set, b.base, b.tuned),
         distributed |-> DistributedReport(set, b.base, b.order)]

DatasetResults(d) ==
    [kept |-> Filter(d.ts, {"patch", "evidence"}, {}, d.least),
     entries |-> [type \in {"sft", "repair", "preference", "tool_use"} |-> BuildDataset(d.ts, type)],
     labels |-> [k \in DOMAIN d.ts |-> CategoryOfTrajectory(d.ts[k])],
     stats |-> Stats([k \in DOMAIN BuildSft(d.ts) |-> d.ts[BuildSft(d.ts)[k]].evidence]),
     split |-> TrainValSplit(d.ts, d.ratio, d.shuffle)]

RunBenchmark == Compute("benchmark", BenchmarkResults(input))
BuildDatasets == Compute("dataset", DatasetResults(input))

DecisionNext == VerdictNext \/ RunBenchmark \/ BuildDatasets

DecisionSpec == DecisionInit /\ [][DecisionNext]_decisionVars

-----------------------------------------------------------------------------
\* What the outcome of a task says of it.
Solves(o) == o.status = "verified_candidate" /\ o.hidden /\ ~o.regressed

Patched(tasks, outcomes) == \A t \in tasks : outcomes[t.id].patches # <<>>
Solved(tasks, outcomes) == {t \in tasks : Solves(outcomes[t.id])}
Successes(tasks, outcomes) == {t \in Solved(tasks, outcomes) : ~outcomes[t.id].raises}

\* The scores of a benchmark are counted once each, and alike everywhere: every verified
\* task is solved at once, by repair or without a patch, never two of these; and the
\* categories add up to the whole, and are those of the tasks when every task has a patch.
ScoresAddUp(tasks, outcomes, report) ==
    LET scores == report.scores
        cells == Breakdown(report)
    IN  /\ Len(scores) = Cardinality(tasks)
        /\ \A s \in Range(scores) : ~(s.pass1 /\ s.repaired) /\ (s.pass1 \/ s.repaired => s.verified)
        /\ Patched(tasks, outcomes) => \A s \in Range(scores) : s.verified => s.pass1 \/ s.repaired
        /\ Count(scores, IsPass1) =
              Cardinality({t \in Solved(tasks, outcomes) : Len(outcomes[t.id].patches) = 1})
        /\ SumFunction([c \in DOMAIN cells |-> cells[c].total]) = Len(scores)
        /\ SumFunction([c \in DOMAIN cells |-> cells[c].repaired]) = Count(scores, IsRepaired)
        /\ Patched(tasks, outcomes) =>
              \A c \in DOMAIN cells : cells[c].total = Cardinality({t \in tasks : t.type = c})

\* A model improves on another exactly when it verifies more tasks, and then more tasks
\* improve than regress, when every task gets a patch.
ImprovementTrue(tasks, base, tuned, comparison) ==
    LET verified == [i \in DOMAIN comparison.perTask |-> comparison.perTask[i].verified]
    IN  /\ comparison.improvement <=>
              Cardinality(Successes(tasks, tuned)) > Cardinality(Successes(tasks, base))
        /\ Patched(tasks, base) /\ Patched(tasks, tuned) =>
              (comparison.improvement <=> SumFunction(verified) > 0)

\* A distributed benchmark, which leaves out the jobs that failed, never shows a lower
\* rate than a run that counts them as failed.
RateNotLower(tasks, outcomes, distributed) ==
    LET counted == Over(Cardinality(Successes(tasks, outcomes)), Cardinality(tasks))
    IN  Minus(Rates(distributed).verified, counted)[1] >= 0

ReportsAddUp ==
    Computed("benchmark") =>
        LET tasks == Range(BenchmarkSet(input.tasks))
        IN  /\ ScoresAddUp(tasks, input.base, result.report)
            /\ ImprovementTrue(tasks, input.base, input.tuned, result.comparison)
            /\ RateNotLower(tasks, input.base, result.distributed)

\* Training data is what it is labelled: the k-th preference pair is the k-th success
\* with the k-th failure; repair examples are successes, and no success is a negative of
\* any pair.
EntriesTrue(ts, entries, labels) ==
    LET Rank(k, Holds(_)) == Cardinality({i \in 1 .. k : Holds(ts[i])})
        good == {k \in DOMAIN ts : ts[k].status = "verified_candidate"}
        bad == {k \in DOMAIN ts : ts[k].status \in {"rejected", "failed"}}
    IN  /\ Range(entries["preference"]) =
              {p \in good \X bad : /\ Rank(p[1], IsVerifiedPositive) = Rank(p[2], IsVerifiedNegative)
                                   /\ ts[p[1]].patches # <<>> /\ ts[p[2]].patches # <<>>}
        /\ Range(entries["repair"]) \subseteq Range(entries["sft"])
        /\ Range(entries["sft"]) = good
        /\ \A k \in DOMAIN ts : /\ (labels[k] = "verified_positive") <=> k \in good
                                /\ IsUnresolved(ts[k]) => labels[k] = "unresolved"
        /\ Len(entries["tool_use"]) = SumFunction([k \in DOMAIN ts |-> ts[k].evidence])

\* The statistics agree with the dataset.
StatsTrue(good, stats) ==
    /\ stats.entries = Cardinality(good)
    /\ stats.total \in stats.least * Cardinality(good) .. stats.most * Cardinality(good)

\* A split gives every trajectory to one side, the validation side never more than its
\* share.
SplitTrue(ts, ratio, split) ==
    /\ Range(split.train \o split.val) = Range(ts)
    /\ Len(split.train) + Len(split.val) = Len(ts)
    /\ 10 * Len(split.val) <= ratio * Len(ts)

\* The datasets, their statistics and the split are true, and a stricter filter keeps a
\* part of what a laxer one keeps.
DatasetsTrue ==
    Computed("dataset") =>
        LET ts == input.ts
        IN  /\ EntriesTrue(ts, result.entries, result.labels)
            /\ StatsTrue({k \in DOMAIN ts : IsVerifiedPositive(ts[k])}, result.stats)
            /\ SplitTrue(ts, input.ratio, result.split)
            /\ Range(result.kept) \subseteq Range(Filter(ts, {"patch"}, {}, <<>>))

\* Every report, comparison and dataset is true of what it was made from.
EvaluationAddsUp == ReportsAddUp /\ DatasetsTrue

=============================================================================
