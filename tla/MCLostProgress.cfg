\* reconsiderblock on a descendant that then fails.
SPECIFICATION Spec
CONSTANTS
    Block <- SmallBlock
    Genesis = "g"
    NoBlock = "none"
    Parent <- SmallParent
    Ancestors <- SmallAncestors
    Height <- SmallHeight
    ChainTrust <- SmallTrust
    Verdict <- SmallVerdict
    Addresses <- SmallAddresses
    Operations = {"invalidate", "reconsider"}
    MinBlocksToKeep = 1
    MinimumChainWork = 1
    MinSequenceId <- OneSequenceId
INVARIANTS
    ForwardProgress
