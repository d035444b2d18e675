\* Blocks from peers and from a block file, and preciousblock between the rounds.
SPECIFICATION Spec
CONSTANTS
    Block <- PeersBlock
    Genesis = "g"
    NoBlock = "none"
    Parent <- PeersParent
    Ancestors <- PeersAncestors
    Height <- PeersHeight
    ChainTrust <- PeersTrust
    Verdict <- PeersVerdict
    Addresses <- PeersAddresses
    Operations = {"import", "precious"}
    MinBlocksToKeep = 1
    MinimumChainWork = 1
    MinSequenceId <- OneSequenceId
INVARIANTS
    TypeOK
    ActiveChainValid
    ForwardProgress
    CandidatesComplete
PROPERTIES
    ActivationEnds
    BestChainActivated
