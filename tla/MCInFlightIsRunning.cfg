CONSTANTS
    h1 = h1
    h2 = h2
    a1 = a1
    a2 = a2
    k1 = k1
    k2 = k2
    e1 = e1
    Callers = {h1, h2}
    Agents = {a1}
    Domains = {"on"}
    Policies <- MCPolicies
    MaxCapacity <- MCMaxCapacity
    Magnitudes = {1, 2}
    MaxWord = 7
    Requests <- Effectful
    Keys = {k1, k2}
    Headers = {e1}
    Unsigned = Unsigned
    NoRequest = NoRequest
    NoResult = NoResult
    MaxActions = 4
    MaxTime = 2
    NumShards = 1
    ShardOf <- OneShard
    MaxEntries = 1
    TTL = 2
    MaxPerWindow <- MCFour
    WindowSecs <- MCWindowSecs
    TicksPerSec = 1
    Tolerance = 2
    MaxHeaders = 1
    Seconds = {0}
    MaxRecords = 4
SYMMETRY HandlerSymmetry
SPECIFICATION Spec
INVARIANTS
    InFlightIsRunning
