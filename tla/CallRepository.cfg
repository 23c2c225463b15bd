\* One call in depth: three incarnations of its worker, a changed catalog,
\* effects in batches, claims that lapse, crashes during recovery.
SPECIFICATION FairSpec
CONSTANTS
    Worker = {w1}
    Call = {c1}
    Catalog = {k1, k2}
    Capacity = {1}
    MaxFence = 3
    MaxVersion = 3
    MaxIgnored = 1
    MaxRows = 2
    MaxBatch = 1
    MaxDeadlines = 1
    MaxClaims = 2
INVARIANTS
    StoreIsConsistent
PROPERTIES
    OnlyTheNewestWrites
    InOrderDelivery
    CallsRelease
CHECK_DEADLOCK FALSE
