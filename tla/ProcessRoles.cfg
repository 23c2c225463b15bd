SPECIFICATION Spec
CONSTANTS
    MaxRequests = 2
    MaxBroadcasts = 1
    Gateways <- Companions
    Deployments <- Bases
    Changed <- OneChange
INVARIANTS
    AcceptedIsUsable
    ExitsRelease
PROPERTIES
    OrderHolds
    StopsWhenItMust
CHECK_DEADLOCK FALSE
