CONSTANTS
    r1 = r1
    r2 = r2
    a1 = a1
    a2 = a2
    t1 = t1
    Reqs = {r1, r2}
    Procs = {a1, a2, t1}
    ServiceOf <- MCServiceOf
    NoEmail = "none"
    MaxDeliveries = 2
    Scenarios <- OneOrTwo
SPECIFICATION FairSpec
CHECK_DEADLOCK FALSE
INVARIANTS AnswerMatchesUser CompletedOnce WaiterIsAnswered
PROPERTIES ImplementsSaga RequestedBecomesActive RequestEnds
