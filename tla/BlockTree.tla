----------------------------- MODULE BlockTree -----------------------------
(***************************************************************************)
(* The tree of block headers a node may learn of (class CBlockIndex in     *)
(* chain.h).  A block is an opaque value; what consensus reads from it is   *)
(* given by constant functions, because a header never changes after        *)
(* AddToBlockIndex has linked it to its parent.                             *)
(***************************************************************************)
EXTENDS Integers, FiniteSets

CONSTANTS
    Block,       \* every header that can exist in an instance
    Genesis,     \* chainparams.GenesisBlock()
    NoBlock,     \* the null CBlockIndex pointer, the null uint256
    Parent,      \* pprev
    Ancestors,   \* the blocks GetAncestor reaches, the block itself included
    Height,      \* nHeight
    ChainTrust   \* nChainTrust: the trust of the chain up to the block

(***************************************************************************)
(* The shape AddToBlockIndex gives the tree: a block's height and ancestors *)
(* come from its parent's, and every block adds trust (GetBlockTrust is at  *)
(* least 1 for a target that ContextualCheckBlockHeader lets through).      *)
(***************************************************************************)
ASSUME TreeAssumption ==
    /\ IsFiniteSet(Block)
    /\ Genesis \in Block
    /\ NoBlock \notin Block
    /\ Parent \in [Block -> Block \cup {NoBlock}]
    /\ Height \in [Block -> Nat]
    /\ ChainTrust \in [Block -> Nat]
    /\ Ancestors \in [Block -> SUBSET Block]
    /\ Parent[Genesis] = NoBlock
    /\ Ancestors[Genesis] = {Genesis}
    /\ Height[Genesis] = 0
    /\ \A b \in Block \ {Genesis} :
          /\ Parent[b] \in Block
          /\ Height[b] = Height[Parent[b]] + 1
          /\ Ancestors[b] = {b} \cup Ancestors[Parent[b]]
          /\ ChainTrust[b] > ChainTrust[Parent[b]]
    /\ \A b \in Block :
          /\ Genesis \in Ancestors[b]
          /\ \A a \in Ancestors[b] : /\ Ancestors[a] \subseteq Ancestors[b]
                                     /\ Height[a] <= Height[b]
                                     /\ Height[a] = Height[b] => a = b
                                     /\ a # b => \E c \in Ancestors[b] : Parent[c] = a

(* The blocks that descend from b, b included.                             *)
Descendants(b) == {d \in Block : b \in Ancestors[d]}

(* The block after b on the way to its descendant d.                       *)
NextTowards(b, d) == CHOOSE c \in Ancestors[d] : Parent[c] = b
=============================================================================
