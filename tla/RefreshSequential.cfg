CONSTANTS
    u1 = u1
    u2 = u2
    b1 = b1
    b2 = b2
    x1 = x1
    x2 = x2
    th1 = th1
    NoUser = NoUser
    NoTab = NoTab
    Forgetful = {b2}
    Users = {u1, u2}
    Browsers = {b1, b2}
    Tabs = {x1, x2}
    Threads = {th1}
    UserOf <- MCUserOf
    Layouts <- MCLayouts
    AccessTtl = 1
    RefreshTtl = 2
    MaxTime = 2
    MaxTokens = 2
    MaxCascades = 1
SPECIFICATION SessionsSpec
CHECK_DEADLOCK FALSE
INVARIANTS OneLivePerSession CascadeRevokesAll CascadeNeedsMishap LogoutIsFinal
PROPERTIES KeepsLedger
