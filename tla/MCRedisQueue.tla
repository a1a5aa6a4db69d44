---------------------------- MODULE MCRedisQueue ----------------------------
(***************************************************************************)
(* Small instances of RedisQueue.                                          *)
(***************************************************************************)
EXTENDS RedisQueue

CONSTANTS j1, j2, w1, w2, c1, c2
=============================================================================
