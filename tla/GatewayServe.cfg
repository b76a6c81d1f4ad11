CONSTANTS
    r1 = r1
    r2 = r2
    Reqs = {r1, r2}
    Kinds <- MCKinds
    Attempts = 3
    Window = 2
    Ttl = 3
    Limit = 1
    MaxTime = 3
    Timeout = 3
    ServiceTtl = 4
    Waits = {0, 3}
    MaxDelay = 1
    MaxFaults = 1
    MaxCrashes = 1
SPECIFICATION FairSpec
CHECK_DEADLOCK FALSE
INVARIANTS WindowLimit CountersExpire AnswerTellsEffect IdentityIsVerified ExpiredOnlyWhenLate
PROPERTIES RequestEnds
