------------------------------ MODULE Training ------------------------------
(***************************************************************************)
(* Training data from stored trajectories: training/filters.py and         *)
(* training/datasets.py.                                                   *)
(*                                                                         *)
(* A trajectory is a record [snapshot, status, patches, evidence, checks,  *)
(* hypotheses]: patches has the number of files of every attempt, the last *)
(* of which is the final patch; the others say how many entries there are. *)
(* Scores are in twentieths.                                               *)
(***************************************************************************)
EXTENDS Selection, Sequences, SequencesExt, FiniteSetsExt

IsReproducible(t) == t.snapshot
IsVerifiedPositive(t) == t.status = "verified_candidate"
IsVerifiedNegative(t) == t.status \in {"rejected", "failed"}
IsUnresolved(t) == t.status = "needs_review"
HasPatch(t) == Len(t.patches) > 0
HasEvidence(t) == t.evidence > 0
HasVerificationResults(t) == t.checks > 0

MinimalityScore(t) ==
    IF t.patches = <<>> \/ Last(t.patches) = 0 THEN 0 ELSE Max({0, 20 - 2 * Last(t.patches)})

EvidenceQualityScore(t) ==
    LET Points(holds, n) == IF holds THEN n ELSE 0
    IN  Min({20, Points(HasEvidence(t), 6) + Points(HasVerificationResults(t), 6)
                 + Points(t.hypotheses > 0, 4)
                 + Points(HasEvidence(t) /\ HasVerificationResults(t), 4)})

RepairEfficiency(t) ==
    IF ~IsVerifiedPositive(t) \/ t.patches = <<>> THEN 0
    ELSE Max({0, 20 - 5 * (Len(t.patches) - 1)})

Score(t) == [minimality |-> MinimalityScore(t), evidence |-> EvidenceQualityScore(t),
             repair |-> RepairEfficiency(t)]

\* required: a subset of {"reproducible", "patch", "evidence", "verification"};
\* excluded: statuses; least: the least of each score.
Passes(t, required, excluded, least) ==
    /\ "reproducible" \in required => IsReproducible(t)
    /\ "patch" \in required => HasPatch(t)
    /\ "evidence" \in required => HasEvidence(t)
    /\ "verification" \in required => HasVerificationResults(t)
    /\ t.status \notin excluded
    /\ \A s \in DOMAIN least : Score(t)[s] >= least[s]

Filter(ts, required, excluded, least) ==
    Picked(ts, {k \in DOMAIN ts : Passes(ts[k], required, excluded, least)})

CategoryOfTrajectory(t) ==
    CASE IsVerifiedPositive(t) -> "verified_positive"
      [] IsVerifiedNegative(t) -> "verified_negative"
      [] OTHER -> "unresolved"

-----------------------------------------------------------------------------
(* The datasets, as sequences of entries; an entry names its trajectories  *)
(* by their place in the input.                                            *)

Positives(ts) == {k \in DOMAIN ts : IsVerifiedPositive(ts[k])}
Negatives(ts) == {k \in DOMAIN ts : IsVerifiedNegative(ts[k])}

BuildSft(ts) == Ascending(Positives(ts))

BuildRepair(ts) == Ascending({k \in Positives(ts) : Len(ts[k].patches) >= 2})

\* The k-th success is paired with the k-th failure, whatever their tasks; a pair
\* without two patches is left out.
BuildPreference(ts) ==
    LET good == Ascending(Positives(ts))
        bad == Ascending(Negatives(ts))
        pairs == [k \in DOMAIN good \intersect DOMAIN bad |-> <<good[k], bad[k]>>]
    IN  Picked(pairs, {k \in DOMAIN pairs : HasPatch(ts[good[k]]) /\ HasPatch(ts[bad[k]])})

BuildToolUse(ts) ==
    FlattenSeq([k \in DOMAIN ts |-> [e \in 1 .. ts[k].evidence |-> <<k, e>>]])

BuildDataset(ts, type) ==
    CASE type = "sft" -> BuildSft(ts)
      [] type = "repair" -> BuildRepair(ts)
      [] type = "preference" -> BuildPreference(ts)
      [] type = "tool_use" -> BuildToolUse(ts)

\* ratio, in tenths; the shuffle is a permutation of the input.
TrainValSplit(ts, ratio, shuffle) ==
    LET shuffled == [k \in DOMAIN ts |-> ts[shuffle[k]]]
        count == (Len(ts) * ratio) \div 10
    IN  [train |-> SubSeq(shuffled, count + 1, Len(ts)), val |-> SubSeq(shuffled, 1, count)]

\* lengths: the length of each entry.  No entry of any dataset has a status of its own, so
\* the distribution stays empty.
Stats(lengths) ==
    [entries |-> Len(lengths), total |-> SumFunction(lengths),
     least |-> IF lengths = <<>> THEN 0 ELSE Min(Range(lengths)),
     most |-> IF lengths = <<>> THEN 0 ELSE Max(Range(lengths)), statuses |-> <<>>]
=============================================================================
