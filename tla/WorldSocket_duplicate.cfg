CONSTANTS
    ownMap = "ownMap"
    otherMap = "otherMap"
    Maps <- TwoMaps
    MaxSent = 3
SPECIFICATION Spec
INVARIANT
    LogsSafely
CHECK_DEADLOCK FALSE
