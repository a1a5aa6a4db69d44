-------------------------- MODULE ProvenanceGraph --------------------------
(***************************************************************************)
(* The provenance graph of one run, as                                     *)
(* EvidenceGraph.build_from_pipeline makes it:                             *)
(* src/src/vsrs/provenance/graph.py.                                       *)
(*                                                                         *)
(* A graph is the sequence of its edges in the order they are stored.  A   *)
(* node is <<type, identifier>>.  The verification is named after the      *)
(* patch, the decision after the task; a locator or a finding is a member  *)
(* of a set.                                                               *)
(***************************************************************************)
EXTENDS Integers, Sequences, SequencesExt, FiniteSets

Edge(from, relation, to) == [from |-> from, relation |-> relation, to |-> to]

LinkAll(from, relation, type, ids) ==
    LET order == SetToSeq(ids)
    IN  [k \in DOMAIN order |-> Edge(from, relation, <<type, order[k]>>)]

When(condition, es) == IF condition THEN es ELSE <<>>

\* r: [run, task, locators, hypothesis, patch, files, verified, checks, findings, decision];
\* hypothesis, patch and decision are <<>> when there is none, <<value>> otherwise.
BuildFromPipeline(r) ==
    LET run == <<"run", r.run>>
        task == <<"task", r.task>>
        reasoned == r.hypothesis # <<>>
        hypothesis == <<"hypothesis", r.hypothesis[1]>>
        patched == r.patch # <<>>
        patch == <<"patch", r.patch[1]>>
        decided == r.decision # <<>>
        verification == <<"verification", r.patch[1]>>
        Supports(l) == Edge(<<"evidence", l>>, "supports", hypothesis)
        locators == SetToSeq(r.locators)
    IN  << Edge(run, "executes", task) >>
        \o LinkAll(task, "retrieved", "evidence", r.locators)
        \o When(reasoned, << Edge(task, "hypothesized", hypothesis) >>
                          \o [k \in DOMAIN locators |-> Supports(locators[k])])
        \o When(reasoned /\ patched, << Edge(hypothesis, "produces", patch) >>)
        \o When(patched, << Edge(run, "produced", patch) >>
                         \o LinkAll(patch, "modifies", "file", r.files))
        \o When(patched /\ r.verified, << Edge(patch, "checked_by", verification) >>
                                       \o LinkAll(verification, "includes", "check", r.checks))
        \o When(patched, LinkAll(patch, "criticized_by", "finding", r.findings))
        \o When(patched /\ decided, << Edge(patch, "results_in", <<"result", r.decision[1]>>) >>)
        \o When(decided, << Edge(run, "decided", <<"decision", r.task>>) >>)
=============================================================================
