-------------------------- MODULE MCSyncCheckpoint --------------------------
(***************************************************************************)
(* An instance of SyncCheckpoint: a master that has all blocks and a node   *)
(* that has yet to hear of a chain of two; a fork, on which the operator of *)
(* the master may set checkpoints as well.                                  *)
(***************************************************************************)
EXTENDS SyncCheckpoint

MCParent == [g |-> "none", a1 |-> "g", a2 |-> "a1", b1 |-> "g"]
MCBlock == DOMAIN MCParent
MCAncestors == [g |-> {"g"}, a1 |-> {"g", "a1"}, a2 |-> {"g", "a1", "a2"}, b1 |-> {"g", "b1"}]
MCHeight == [g |-> 0, a1 |-> 1, a2 |-> 2, b1 |-> 1]
MCLink == {<<"master", "peer">>, <<"peer", "master">>}
MCStart == [n \in {"master", "peer"} |-> IF n = "master" THEN MCBlock ELSE {"g", "b1"}]
=============================================================================
