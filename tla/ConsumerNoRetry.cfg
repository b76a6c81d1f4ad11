CONSTANTS
    p1 = p1
    p2 = p2
    p3 = p3
    auth = auth
    tenant = tenant
    Procs = {p1}
    Groups = {auth}
    GroupOf <- SoloGroupOf
    Handles <- SoloHandles
    Fails <- SoloFails
    Types <- MCTypes
    MaxDeliveries = 2
    Count = 1
    MaxMsgs = 2
    MaxFaults = 0
    MaxCrashes = 0
SPECIFICATION FairSpec
CHECK_DEADLOCK FALSE
PROPERTIES FailedIsSettled
