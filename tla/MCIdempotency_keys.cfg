SPECIFICATION FairSpec
CONSTANTS
    r1 = r1
    r2 = r2
    r3 = r3
    r4 = r4
    r5 = r5
    r6 = r6
    k1 = k1
    k2 = k2
    Requests = {r1, r2, r4, r5, r6}
    Keys = {k1, k2}
    NoKey = NoKey
    KeyOf <- KeysOfAttempts
    Absent = Absent
    InFlight = InFlight
    NoResult = NoResult
    Expiring = {k2}
    DbMayFail = TRUE
    MayCrash = TRUE
INVARIANTS
    TypeOK
    NoConcurrentHandlers
    AtMostOneExecution
    OneResultPerKey
    ResultsAreReal
PROPERTIES
    CachedResponseIsStable
    PromiseKept
    NoKeyBlockedForever
CHECK_DEADLOCK FALSE
