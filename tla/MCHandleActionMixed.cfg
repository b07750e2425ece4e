CONSTANTS
    h1 = h1
    h2 = h2
    a1 = a1
    a2 = a2
    k1 = k1
    k2 = k2
    e1 = e1
    Callers = {h1, h2}
    Agents = {a1, a2}
    Domains = {"on"}
    Policies <- MixedPolicies
    MaxCapacity <- MixedMaxCapacity
    Magnitudes = {1, 2}
    MaxWord = 7
    Requests <- Mixed
    Keys = {k1, k2}
    Headers = {e1}
    Unsigned = Unsigned
    NoRequest = NoRequest
    NoResult = NoResult
    MaxActions = 2
    MaxTime = 0
    NumShards = 1
    ShardOf <- OneShard
    MaxEntries = 1
    TTL = 1
    MaxPerWindow <- MixedPerWindow
    WindowSecs <- MixedWindowSecs
    TicksPerSec = 1
    Tolerance = 2
    MaxHeaders = 1
    Seconds = {0}
    MaxRecords = 1
SPECIFICATION FairSpec
INVARIANTS
    AnswersAreProved
    CountersMatchProofs
PROPERTIES
    RequestsEnd
