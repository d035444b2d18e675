\* The master and a node, with one fault: a broken link or a restart, of the master too.
SPECIFICATION Spec
CONSTANTS
    Block <- MCBlock
    Genesis = "g"
    NoBlock = "none"
    Parent <- MCParent
    Ancestors <- MCAncestors
    Height <- MCHeight
    ChainTrust <- MCHeight
    Node = {"master", "peer"}
    Master = "master"
    Link <- MCLink
    Start <- MCStart
    MaxFaults = 1
INVARIANTS
    CheckpointsAgree
    NoFalseWarning
PROPERTIES
    OnlyDescendants
    CheckpointsSpread
