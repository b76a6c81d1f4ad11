CONSTANTS
    p1 = p1
    p2 = p2
    p3 = p3
    auth = auth
    tenant = tenant
    Procs = {p1}
    Groups = {auth}
    GroupOf <- SoloGroupOf
    Handles <- SoloHandles
    Fails <- SoloFails
    Types <- MCTypes
    MaxDeliveries = 2
    Count = 2
    MaxMsgs = 3
    MaxFaults = 2
    MaxCrashes = 2
SPECIFICATION FairSpec
INVARIANTS TypeOK DeadLetterNeedsFailures RetriesBounded
PROPERTIES EventuallyDelivered RestartSettles
CHECK_DEADLOCK FALSE
