----------------------------- MODULE MCPipeline -----------------------------
(***************************************************************************)
(* Small instances of Pipeline: two runs, of one task or of two.           *)
(***************************************************************************)
EXTENDS Pipeline, TLC

CONSTANTS r1, r2, t1, t2

\* Runs are interchangeable, and so are tasks: it is enough to look at the
\* behaviours in which r1 is the first run and t1 its task.
Ordered ==
    /\ run[r2].pc # "new" => run[r1].pc # "new"
    /\ run[r1].task \in {None, t1}

\* FairSpec without those that only swap names.  A condition on creations takes
\* nothing from a run once it is created, so it does not meet the fairness.
OrderedSpec ==
    /\ Init /\ [][Next /\ Ordered']_vars
    /\ \A r \in Runs : WF_vars(Stage(r))
=============================================================================
