CONSTANTS
    p1 = p1
    p2 = p2
    p3 = p3
    auth = auth
    tenant = tenant
    Procs = {p1, p2, p3}
    Groups = {auth, tenant}
    GroupOf <- SharedGroupOf
    Handles <- SharedHandles
    Fails <- SharedFails
    Types <- SharedTypes
    MaxDeliveries = 2
    Count = 1
    MaxMsgs = 2
    MaxFaults = 1
    MaxCrashes = 1
SPECIFICATION Spec
INVARIANTS NothingLost
PROPERTIES AtLeastOnce
CHECK_DEADLOCK FALSE
SYMMETRY Replicas
