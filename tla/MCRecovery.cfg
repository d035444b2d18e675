\* Crashes at any moment, also while a crash is being repaired.
SPECIFICATION Spec
CONSTANTS
    Block <- MCBlock
    Genesis = "g"
    NoBlock = "none"
    Parent <- MCParent
    Ancestors <- MCAncestors
    Height <- MCHeight
    ChainTrust <- MCHeight
    Outpoint = {"p", "q", "x", "y", "z"}
    Spent = "spent"
    Txs <- MCTxs
INVARIANTS
    TypeOK
    CoinsMatchTip
    DiskMatchesBest
    NeverStuck
    FlushesToHead
PROPERTIES
    ImplementsDurableTip
