CONSTANTS
    h1 = h1
    h2 = h2
    h3 = h3
    k1 = k1
    k2 = k2
    x1 = x1
    a1 = a1
    a2 = a2
    Headers = {h1, h2, h3}
    Keys = {k1, k2}
    Handlers = {x1}
    Envelopes = {h1, h2, h3}
    EnvelopeOf <- OneSpelling
    Timestamp <- SignedAtZero
    Settings = {0}
    Tolerance = 2
    MaxHeaders = 2
    Agents = {a1, a2}
    MaxPerWindow <- MCMaxPerWindow
    WindowSecs <- MCWindowSecs
    TicksPerSec = 2
    ReplayTime = 4
    MaxTime = 6
SYMMETRY HeaderSymmetry
SPECIFICATION GatesSpec
INVARIANTS
    RefusalIsJustified
    SlidingQuota
    NoEarlyRefusal
PROPERTIES
    BoundToFirstKey
