SPECIFICATION Spec
CONSTANTS
    worker = worker
    other = other
    Requesters = {worker, other}
    Ops <- MCOps
    MayCall <- MCMayCall
    MayFail <- MCMayFail
    Logins = {"user", "malformed"}
    Passwords = {"right", "wrong"}
    AccessTtl = 1
    RefreshTtl = 2
    GenBefore = 1
    CsrfTtl = 2
    ThrottleDelay = 1
    AutoProlongateAccess = TRUE
    AutoProlongateRefresh = TRUE
    DisableRefresh = FALSE
    MaxTime = 3
    MaxSessions = 12
    MaxFaults = 1
    MaxDepth = 12
    RequestLimit = 14
INVARIANTS
    HandlerSession
    RetriesAreSafe
    SessionCoversTokens
    RecoversInTwo
