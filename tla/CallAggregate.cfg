SPECIFICATION Spec
CONSTANTS
    inLeg = inLeg
    outLeg = outLeg
    Leg = {inLeg, outLeg}
    Initiator <- MCInitiator
    Direction <- MCDirection
    InitialKind <- MCInitialKind
    Time = {0, 1, 2}
    MaxVersion = 10
    MaxBinding = 3
    MaxDeadline = 2
INVARIANTS
    BridgeMatchesCall
    DeadlinesHold
    RoutesMatchLegs
PROPERTIES
    HistoryIsKept
CHECK_DEADLOCK FALSE
