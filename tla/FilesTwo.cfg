CONSTANTS
    u1 = u1
    u2 = u2
    th1 = th1
    th2 = th2
    NoUser = NoUser
    Users = {u1, u2}
    Threads = {th1, th2}
    MaxMedia = 2
    MaxFaults = 2
    MaxCrashes = 1
SPECIFICATION Spec
CHECK_DEADLOCK FALSE
INVARIANTS InOrder DamageBounded OneRowUnlessContended LastUploadIsServed EndpointRestored
SYMMETRY Symm
