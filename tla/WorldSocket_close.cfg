CONSTANTS
    ownMap = "ownMap"
    otherMap = "otherMap"
    Maps <- TwoMaps
    MaxSent = 3
SPECIFICATION FairSpec
INVARIANTS
    SessionAlive
    StreamIntact
    RefusalReachesClient
PROPERTIES
    ConnectionEnds
    EverythingWritten
CHECK_DEADLOCK FALSE
