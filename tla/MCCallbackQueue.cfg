\* Two service threads, as in scheduler_tests; an RPC thread, a minter, and a shutdown at any time.
SPECIFICATION Spec
CONSTANTS
    Service = {"s1", "s2"}
    Poster = {"rpc", "minter"}
    Group = {"minter"}
    Main = "main"
    PendingLimit = 0
    MaxCallbacks = 3
INVARIANTS
    Serial
    InOrder
    NotForgotten
    NothingDropped
PROPERTIES
    SyncReturns
    EveryCallbackRuns
    ShutdownEnds
