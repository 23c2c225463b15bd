SPECIFICATION FairSpec
CONSTANTS
    t1 = t1
    t2 = t2
    w1 = w1
    w2 = w2
    leg = leg
    other = other
    call = call
    Task = {t1, t2}
    Worker = {w1, w2}
    Call = {call}
    Key = {leg, other}
    Jobs <- MCJobs
    CallOf <- MCCallOf
    MaxAdmissions = 2
    MaxRoutes = 2
    MaxPeerRoutes = 2
    MaxPeers = 2
INVARIANTS
    OneWorkerPerCall
    EndedSetupIsNotServed
    NothingIsKept
PROPERTIES
    StopLeavesNothing
