\* invalidateblock and reconsiderblock between the rounds of ActivateBestChain.
SPECIFICATION Spec
CONSTANTS
    Block <- OperatorBlock
    Genesis = "g"
    NoBlock = "none"
    Parent <- OperatorParent
    Ancestors <- OperatorAncestors
    Height <- OperatorHeight
    ChainTrust <- OperatorTrust
    Verdict <- OperatorVerdict
    Addresses <- OperatorAddresses
    Operations = {"import", "invalidate", "reconsider"}
    MinBlocksToKeep = 1
    MinimumChainWork = 1
    MinSequenceId <- OneSequenceId
INVARIANTS
    CandidatesLinked
    FailedBlocksMarked
