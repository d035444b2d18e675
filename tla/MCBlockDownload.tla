--------------------------- MODULE MCBlockDownload --------------------------
(***************************************************************************)
(* An instance of BlockDownload: two children of a block that is not there  *)
(* yet, one of them bad with a header above it.                             *)
(***************************************************************************)
EXTENDS BlockDownload

MCParent == [g |-> "none", a1 |-> "g", a2 |-> "a1", b2 |-> "a1", b3 |-> "b2"]
MCBlock == DOMAIN MCParent
MCAncestors == [g |-> {"g"}, a1 |-> {"g", "a1"}, a2 |-> {"g", "a1", "a2"}, b2 |-> {"g", "a1", "b2"},
                b3 |-> {"g", "a1", "b2", "b3"}]
MCHeight == [g |-> 0, a1 |-> 1, a2 |-> 2, b2 |-> 2, b3 |-> 3]
=============================================================================
