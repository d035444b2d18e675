\* The node is restarted; a stored block is corrupt, another cannot be checked.
SPECIFICATION Spec
CONSTANTS
    Block <- RestartBlock
    Genesis = "g"
    NoBlock = "none"
    Parent <- RestartParent
    Ancestors <- RestartAncestors
    Height <- RestartHeight
    ChainTrust <- RestartTrust
    Verdict <- RestartVerdict
    Addresses <- RestartAddresses
    Operations = {"import", "restart"}
    MinBlocksToKeep = 1
    MinimumChainWork = 1
    MinSequenceId <- OneSequenceId
INVARIANTS
    LinkedIffProcessed
    UnlinkedExact
    FailureHasCause
