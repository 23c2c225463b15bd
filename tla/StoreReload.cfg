SPECIFICATION MCSpec
CONSTANTS
    inLeg = inLeg
    outLeg = outLeg
    Leg = {inLeg, outLeg}
    Initiator <- MCInitiator
    Direction <- MCDirection
    InitialKind <- MCInitialKind
    Conn = {c1, c2, c3}
    Time = {0, 1}
    MaxVersion = 7
    ProviderVersions = 3
    MaxBinding = 2
    MaxDeadline = 1
    MaxFence = 2
    MaxControl = 1
SYMMETRY ConnSymmetry
VIEW Stored
CONSTRAINT ProviderBound
INVARIANTS
    ReloadDecidesAlike
    TablesAgree
PROPERTIES
    TransactionsPersist
CHECK_DEADLOCK FALSE
