SPECIFICATION Spec
CONSTANTS
    Plans <- SomePlans
    Journaled = TRUE
    MaxTroubles = 1
INVARIANTS RoutesFollowTheirCall
PROPERTIES EndedCallsRelease ActiveCallsBridge
CHECK_DEADLOCK FALSE
