\* One worker and one call over a takeover, two projectors of one name, one
\* failure or lapse under work, and a cache that may lose its keys once.
SPECIFICATION FairSpec
CONSTANTS
    Worker = {w1}
    Call = {c1}
    Projector = {p1, p2}
    NameOf <- SharedName
    Capacity = 1
    LeaseTtl = 1
    BatchSize = 2
    MaxTime = 2
    MaxFence = 2
    MaxEvents = 5
    MaxFaults = 1
    MaxFlushes = 1
INVARIANTS
    CacheFollowsDatabase
PROPERTIES
    BacklogConverges
CHECK_DEADLOCK FALSE
