SPECIFICATION Spec
CONSTANTS
    r1 = r1
    r2 = r2
    k1 = k1
    Key = {k1}
    Request = {r1, r2}
    RequestKey <- MCKeys
    Scenario <- MCScenario
    Worker = {w1}
    Leg = {a}
    Guarded = TRUE
    MaxSlots = 2
    MaxVersion = 4
    MaxEpoch = 2
    MaxFaults = 1
    MaxTries = 2
    MaxAttempts = 2
INVARIANTS
    LostAnswersReplay
    ReceiptsLoad
    RacesAreRetried
PROPERTIES
    OneOperationPerKey
CHECK_DEADLOCK FALSE
