CONSTANTS
    k1 = k1
    k2 = k2
    k3 = k3
    t1 = t1
    t2 = t2
    t3 = t3
    Keys = {k1, k2, k3}
    Threads = {t1, t2}
    Results = {"body1", "body2"}
    NoResult = NoResult
    NumShards = 2
    ShardOf <- MCShardOf
    MaxEntries = 1
    TTL = 2
    MaxTime = 3
SYMMETRY ThreadSymmetry
SPECIFICATION Spec
INVARIANTS
    ExclusiveOwnership
    ReservationHeld
    BoundedOvershoot
PROPERTIES
    DoneIsFinal
    ImplementsOwnership
