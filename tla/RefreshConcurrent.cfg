CONSTANTS
    u1 = u1
    u2 = u2
    th1 = th1
    th2 = th2
    th3 = th3
    NoUser = NoUser
    Users = {u1}
    Threads = {th1, th2, th3}
    MaxTokens = 3
    MaxCascades = 2
SPECIFICATION Spec
SYMMETRY Symm
CHECK_DEADLOCK FALSE
INVARIANTS TypeOK LiveBornThisEpoch EscapesBounded
