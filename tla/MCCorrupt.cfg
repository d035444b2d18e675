\* A stored block is corrupt.
SPECIFICATION Spec
CONSTANTS
    Block <- ForkBlock
    Genesis = "g"
    NoBlock = "none"
    Parent <- ForkParent
    Ancestors <- ForkAncestors
    Height <- ForkHeight
    ChainTrust <- ForkTrust
    Verdict <- ForkVerdict
    Addresses <- ForkAddresses
    Operations = {}
    MinBlocksToKeep = 1
    MinimumChainWork = 1
    MinSequenceId <- OneSequenceId
PROPERTIES
    ActivationEnds
