---------------------------- MODULE MCWorkerPool ----------------------------
(***************************************************************************)
(* Small instances of WorkerPool.                                          *)
(***************************************************************************)
EXTENDS WorkerPool, TLC

CONSTANTS j1, j2, c1, c2, s1, s2, h1, h2, wx, o1, o2

\* Callers, scaler, health and stopping threads are interchangeable.
Interchangeable ==
    Permutations(Callers) \union Permutations(Scalers) \union Permutations(Healths)
        \union Permutations(Stoppers)
=============================================================================
