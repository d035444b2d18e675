---------------------------- MODULE MCChainState ----------------------------
(***************************************************************************)
(* Instances of ChainState.  A block is named by its branch and its height. *)
(***************************************************************************)
EXTENDS ChainState

AncestorsIn(parent) ==
    LET up[b \in DOMAIN parent] == {b} \cup (IF parent[b] = "none" THEN {} ELSE up[parent[b]])
    IN  up

HeightIn(parent) ==
    LET up[b \in DOMAIN parent] == IF parent[b] = "none" THEN 0 ELSE up[parent[b]] + 1
    IN  up

Addressings(order) == {[b \in {order[i] : i \in DOMAIN order} |->
                            CHOOSE i \in DOMAIN order : order[i] = b]}

(* A counter that is exhausted after the first call of preciousblock.       *)
OneSequenceId == -1

(* The branch with the most trust fails at its second block, and the other  *)
(* branch is then the best.                                                 *)
PeersParent == [g |-> "none", a1 |-> "g", a2 |-> "a1", a3 |-> "a2", b1 |-> "g"]
PeersBlock == DOMAIN PeersParent
PeersAncestors == AncestorsIn(PeersParent)
PeersHeight == HeightIn(PeersParent)
PeersTrust == [g |-> 0, a1 |-> 1, a2 |-> 3, a3 |-> 4, b1 |-> 2]
PeersAddresses == Addressings(<<"g", "a1", "a2", "a3", "b1">>)
PeersVerdict == [b \in PeersBlock |-> IF b = "a2" THEN "badConnect" ELSE "ok"]

(* Two branches of two blocks.                                              *)
ForkParent == [g |-> "none", a1 |-> "g", a2 |-> "a1", b1 |-> "g", b2 |-> "b1"]
ForkBlock == DOMAIN ForkParent
ForkAncestors == AncestorsIn(ForkParent)
ForkHeight == HeightIn(ForkParent)
ForkTrust == HeightIn(ForkParent)
ForkAddresses == Addressings(<<"g", "a1", "a2", "b1", "b2">>)
ForkVerdict == [b \in ForkBlock |-> CASE b = "a2" -> "corrupt" [] b = "b2" -> "noKernel"
                                     [] OTHER -> "ok"]

(* The same, with a block whose stake is refused, and in two memory layouts.*)
RestartParent == [g |-> "none", a1 |-> "g", a2 |-> "a1", b1 |-> "g", b2 |-> "b1", c1 |-> "g"]
RestartBlock == DOMAIN RestartParent
RestartAncestors == AncestorsIn(RestartParent)
RestartHeight == HeightIn(RestartParent)
RestartTrust == HeightIn(RestartParent)
RestartAddresses == Addressings(<<"g", "a1", "a2", "b1", "b2", "c1">>)
                    \cup Addressings(<<"g", "b2", "a2", "c1", "b1", "a1">>)
RestartVerdict == [b \in RestartBlock |-> CASE b = "a2" -> "corrupt" [] b = "b2" -> "noKernel"
                                           [] b = "c1" -> "badStake" [] OTHER -> "ok"]

(* A fork above the first block, and on one side of it a block that is      *)
(* refused on arrival.                                                      *)
OperatorParent == [g |-> "none", a1 |-> "g", a2 |-> "a1", b2 |-> "a1", a3 |-> "a2"]
OperatorBlock == DOMAIN OperatorParent
OperatorAncestors == AncestorsIn(OperatorParent)
OperatorHeight == HeightIn(OperatorParent)
OperatorTrust == HeightIn(OperatorParent)
OperatorAddresses == Addressings(<<"g", "a1", "a2", "b2", "a3">>)
OperatorVerdict == [b \in OperatorBlock |-> CASE b = "b2" -> "badConnect" [] b = "a3" -> "badContext"
                                            [] OTHER -> "ok"]

(* A chain that forks above its first block.                                *)
SmallParent == [g |-> "none", a1 |-> "g", a2 |-> "a1", b2 |-> "a1"]
SmallBlock == DOMAIN SmallParent
SmallAncestors == AncestorsIn(SmallParent)
SmallHeight == HeightIn(SmallParent)
SmallTrust == HeightIn(SmallParent)
SmallAddresses == Addressings(<<"g", "a1", "a2", "b2">>)
SmallVerdict == [b \in SmallBlock |-> IF b = "b2" THEN "badConnect" ELSE "ok"]
SmallVerdictOk == [b \in SmallBlock |-> "ok"]
=============================================================================
