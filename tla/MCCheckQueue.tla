---------------------------- MODULE MCCheckQueue ----------------------------
(***************************************************************************)
(* An instance of CheckQueue.                                               *)
(***************************************************************************)
EXTENDS CheckQueue

CONSTANTS w1, w2, m1, m2

MCWorker == {w1, w2}
MCMaster == {m1, m2}
MCCheck == 1..4
MCPasses == {1, 2, 3}
=============================================================================
