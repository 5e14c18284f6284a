SPECIFICATION Spec
CONSTANTS
    r1 = r1
    r2 = r2
    r3 = r3
    r4 = r4
    r5 = r5
    r6 = r6
    k1 = k1
    k2 = k2
    Requests = {r1, r2, r3, r6}
    Keys = {k1}
    NoKey = NoKey
    KeyOf <- KeysOfAttempts
    Absent = Absent
    InFlight = InFlight
    NoResult = NoResult
    Expiring = {k1}
    DbMayFail = FALSE
    MayCrash = FALSE
INVARIANTS
    ConcurrentDuplicatesRejected
CHECK_DEADLOCK FALSE
