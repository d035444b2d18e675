----------------------------- MODULE MCRecovery -----------------------------
(***************************************************************************)
(* An instance of Recovery.  After the block c1 the chain forks, and the    *)
(* transaction that spends p and makes x is in both branches, at different  *)
(* heights.  In b3 its output is spent in the same block.                   *)
(***************************************************************************)
EXTENDS Recovery

MCParent == [g |-> "none", c1 |-> "g", a2 |-> "c1", a3 |-> "a2", b2 |-> "c1", b3 |-> "b2"]
MCBlock == DOMAIN MCParent

MCAncestors ==
    LET up[b \in MCBlock] == {b} \cup (IF MCParent[b] = "none" THEN {} ELSE up[MCParent[b]])
    IN  up

MCHeight ==
    LET up[b \in MCBlock] == IF MCParent[b] = "none" THEN 0 ELSE up[MCParent[b]] + 1
    IN  up

Tx(in, out) == [in |-> in, out |-> out]

MCTxs == [g |-> <<>>,
          c1 |-> <<Tx({}, {"p"})>>,
          a2 |-> <<Tx({"p"}, {"x"})>>,
          a3 |-> <<Tx({"x"}, {"y"})>>,
          b2 |-> <<Tx({}, {"q"})>>,
          b3 |-> <<Tx({"p"}, {"x"}), Tx({"x", "q"}, {"z"})>>]
=============================================================================
