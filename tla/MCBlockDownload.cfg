\* An honest peer, and one that announces, sends, withholds and leaves as it likes.
SPECIFICATION Spec
CONSTANTS
    Block <- MCBlock
    Genesis = "g"
    NoBlock = "none"
    Parent <- MCParent
    Ancestors <- MCAncestors
    Height <- MCHeight
    ChainTrust <- MCHeight
    Peer = {"p1", "p2"}
    NoPeer = "nobody"
    Honest = {"p1"}
    Target = "a2"
    Valid = {"g", "a1", "a2"}
    Refused = {"b3"}
    Mutated = {"b3"}
    Local = {"b2"}
    MaxInTransit = 1
    Window = 1
    CompactDepth = 1
INVARIANTS
    TypeOK
    InFlightExact
    TransitLimit
    StoredNotInFlight
PROPERTIES
    DownloadCompletes
