CONSTANTS
    NumProcs = 3
    PipeSize = 2
    MaxOutput = 1
    MaxWritten = 2
    Pieces = {"api", "API", "hub", "a", "443", ".", "..", "/", "?", "#", ":", "@"}
    InHost = {"api", "API", "hub", "a", "443", ".", ".."}
    LowerCase <- InLowerCase
    Urls <- SmallUrls
    Methods = {"GET", "POST"}
    Allowlist <- SmallAllowlist
    MaxRedirects = 2
    MaxResponse = 3
    MaxSent = 5
SPECIFICATION ActuateFairSpec
CHECK_DEADLOCK FALSE
INVARIANTS
    GroupIsDead
    OutputIsComplete
    TheListDecides
    BodyIsFaithful
PROPERTIES
    ActuationEnds
