SPECIFICATION RefundSpec
CONSTANTS
    i1 = i1
    i2 = i2
    q1 = q1
    q2 = q2
    q3 = q3
    q4 = q4
    q5 = q5
    q6 = q6
    Intents = {i1, i2}
    Amount <- Amounts
    InitialStatus <- AllCaptured
    AtGateway = {i1, i2}
    FaultKinds = {}
    MaxFaults = 0
    Requests = {q1, q2, q3, q4, q5, q6}
    IntentOf <- IntentOfRequests
    Foreign = {q6}
    Wanted <- WantedAmounts
    WholeRest = WholeRest
    RefundOutcomes = {"SUCCEEDED"}
    Patient = {}
INVARIANTS
    PaidBackWithinAmount
CHECK_DEADLOCK FALSE
