------------------------------ MODULE MCWorker ------------------------------
(***************************************************************************)
(* A small instance of Worker: jobs of two priorities, two of them equal,  *)
(* and a task type without handler besides one with.                       *)
(***************************************************************************)
EXTENDS Worker

CONSTANTS j1, j2, j3, t1, t2, w1, echo, other

Jobs3 == {j1, j2, j3}

Priority3 == [j \in Jobs3 |-> IF j = j3 THEN 0 ELSE 1]
TypeOf3 == [j \in Jobs3 |-> IF j = j1 THEN echo ELSE other]
=============================================================================
