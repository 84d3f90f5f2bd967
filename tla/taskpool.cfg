\* Both pool runners under fair scheduling, two connectors, both limits.
SPECIFICATION FairSpec
CONSTANTS
    ThreadNum = 2
    MaxTasks = 2
    HasMaxTime = TRUE
    IdBound = 4
    MaxBugs = 1
INVARIANTS
    ResultInvariant
    OwnDatabase
    BackToPoolNeverBlocks
    StartBound
    SavedResultIsComplete
    CloseFindsAll
    PgClosesConnections
PROPERTIES
    ResultFrozen
    ImplementsLedger
    PoolReturns
