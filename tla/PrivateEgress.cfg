SPECIFICATION EgressFairSpec
CONSTANTS
    Target = {t1}
    MaxEpoch = 2
    MaxFaults = 1
    MaxSends = 2
INVARIANTS
    NothingIsLeftBehind
    RoutesAreAccountedFor
PROPERTIES
    HangupsRetireTheirRoute
CHECK_DEADLOCK FALSE
