SPECIFICATION Spec
CONSTANTS
    InitialKind = "telnyx"
    EventKind = {"progress", "bridged", "hangup"}
    ClientState = {"dial", "transfer"}
    MaxGeneration = 2
    MaxAttempt = 2
    MaxFence = 2
    MaxEvents = 3
VIEW Observable
INVARIANTS
    ProviderLegIsProven
    EventsInOrder
    ProviderEndIsFinal
PROPERTIES
    TransfersNeedTheirCallback
CHECK_DEADLOCK FALSE
