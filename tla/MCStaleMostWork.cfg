\* invalidateblock between two rounds.
SPECIFICATION Spec
CONSTANTS
    Block <- SmallBlock
    Genesis = "g"
    NoBlock = "none"
    Parent <- SmallParent
    Ancestors <- SmallAncestors
    Height <- SmallHeight
    ChainTrust <- SmallTrust
    Verdict <- SmallVerdictOk
    Addresses <- SmallAddresses
    Operations = {"invalidate"}
    MinBlocksToKeep = 1
    MinimumChainWork = 1
    MinSequenceId <- OneSequenceId
INVARIANTS
    ActiveChainValid
