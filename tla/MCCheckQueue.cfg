\* Two workers, two threads that connect blocks, four checks of which one fails.
SPECIFICATION Spec
CONSTANTS
    w1 = w1
    w2 = w2
    m1 = m1
    m2 = m2
    NoMaster = NoMaster
    Worker <- MCWorker
    Master <- MCMaster
    Check <- MCCheck
    Passes <- MCPasses
    nBatchSize = 2
INVARIANTS
    TodoExact
    VerdictExact
    NothingLeft
PROPERTIES
    WaitReturns
