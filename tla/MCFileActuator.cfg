CONSTANTS
    h1 = h1
    h2 = h2
    p1 = p1
    p2 = p2
    short = short
    long = long
    Callers = {h1, h2}
    Paths = {p1, p2}
    TempLike = {p2}
    Contents = {short, long}
    Len <- MCLen
    NoFile = NoFile
    Directory = Directory
    MaxRead = 1
    MaxActions = 2
SYMMETRY HandlerSymmetry
SPECIFICATION Spec
INVARIANTS
    FailuresLeaveNoTrace
    NoOrphans
    ReadDescribesItsFile
PROPERTIES
    DurableUntilReplaced
    ImplementsAtomicFiles
