CONSTANTS
    c1 = c1
    c2 = c2
    Clients = {c1, c2}
    MayAsk <- MCMayAsk
    Services <- MCServices
    RangeHeaders <- MCHeaders
    MaxSize = 2
    ChunkSize = 1
    MaxVersion = 2
    Flaky <- MCFlaky
SPECIFICATION FairSpec
CHECK_DEADLOCK FALSE
INVARIANTS RangeIsExact SentIsPromised BlamedWasDown DocumentedIsReachable
PROPERTIES DocsCatchUp
