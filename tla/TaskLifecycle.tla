--------------------------- MODULE TaskLifecycle ---------------------------
(***************************************************************************)
(* What src/vsrs/core/state.py promises of a task run: its state only      *)
(* moves along the transition table.                                       *)
(***************************************************************************)
CONSTANT Runs

VARIABLE state

States == {"intake", "retrieving", "reasoning", "patching", "verifying", "revising",
           "reviewing", "verified", "rejected", "needs_review", "escalated", "failed"}

\* _TRANSITIONS: the states a run may move to.
Targets ==
    [intake       |-> {"retrieving", "failed"},
     retrieving   |-> {"reasoning", "failed"},
     reasoning    |-> {"patching", "escalated", "failed"},
     patching     |-> {"verifying", "failed"},
     verifying    |-> {"verified", "revising", "reviewing", "rejected", "failed"},
     revising     |-> {"reasoning", "patching", "escalated", "failed"},
     reviewing    |-> {"verified", "rejected", "needs_review", "revising", "failed"},
     verified     |-> {},
     rejected     |-> {},
     needs_review |-> {"revising", "verified", "rejected"},
     escalated    |-> {"retrieving", "reasoning", "failed"},
     failed       |-> {}]

\* RESULT_STATES: the states a user is shown as a result.
ResultStates == {"verified", "rejected", "needs_review"}

Init == state = [r \in Runs |-> "intake"]

Transition(r) == \E s \in Targets[state[r]] : state' = [state EXCEPT ![r] = s]

Next == \E r \in Runs : Transition(r)

Spec == Init /\ [][Next]_state
=============================================================================
