------------------------------ MODULE Selection ------------------------------
(***************************************************************************)
(* What is kept of a sequence, by the places at which it stands.           *)
(***************************************************************************)
EXTENDS Integers, FiniteSets

\* The numbers of a set, the least first.
Ascending(S) ==
    [k \in 1 .. Cardinality(S) |-> CHOOSE i \in S : Cardinality({j \in S : j < i}) = k - 1]

\* The elements of a sequence at these places, in their order.
Picked(s, S) == [n \in 1 .. Cardinality(S) |-> s[Ascending(S)[n]]]
=============================================================================
