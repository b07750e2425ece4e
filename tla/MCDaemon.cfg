CONSTANTS
    c1 = c1
    c2 = c2
    c3 = c3
    k1 = k1
    Clients = {c1, c2, c3}
    Keys = {k1}
    NoKey = NoKey
    Permits = 2
    Budget = 2
    TTL = 1
    MaxRecords = 2
    MaxTime = 1
    MaxSecond = 1
    MaxActions = 3
    MaxStarts = 2
SPECIFICATION FairSpec
CHECK_DEADLOCK FALSE
INVARIANTS
    PermitsAccounted
    OncePerMemory
    BudgetPerStart
    RecentProofsAreKept
PROPERTIES
    QueueDrains
    ShutdownCompletes
