SPECIFICATION Spec
CONSTANTS
    i1 = i1
    i2 = i2
    q1 = q1
    q2 = q2
    q3 = q3
    q4 = q4
    k1 = k1
    k2 = k2
    Intents = {i1, i2}
    Amount <- Amounts
    InitialStatus <- AllCaptured
    AtGateway = {i1, i2}
    FaultKinds = {"gateway", "db", "redis", "crash"}
    MaxFaults = 2
    Requests = {q1, q2, q3, q4}
    IntentOf <- IntentOfRequests
    Foreign = {}
    Wanted <- WantedAmounts
    WholeRest = WholeRest
    RefundOutcomes = {"SUCCEEDED", "PENDING", "FAILED"}
    Patient = {i1}
    Keys = {k1, k2}
    NoKey = NoKey
    KeyOf <- KeyOfRequests
    Absent = Absent
    InFlight = InFlight
    NoResult = NoResult
    Expiring = {}
    DbMayFail = FALSE
    MayCrash = TRUE
INVARIANTS
    PaidAgainOnlyAfterFailure
    AnsweredRefundIsReal
    RefundedIsPaidInFull
    LedgerMatchesGateway
    ExhaustedIsMarked
    RefusedMayRetry
CHECK_DEADLOCK FALSE
