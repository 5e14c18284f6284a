SPECIFICATION FairSpec
CONSTANTS
    i1 = i1
    e1 = e1
    d1 = d1
    d2 = d2
    q1 = q1
    q2 = q2
    worker = worker
    manual = manual
    Intents = {i1}
    Amount <- Amounts
    InitialStatus <- AllPending
    AtGateway = {i1}
    FaultKinds = {}
    MaxFaults = 0
    Events = {e1}
    About <- AboutIntents
    Reports <- AllCaptures
    NamesIntent = {e1}
    Deliveries = {d1, d2}
    EventOf <- EventOfDeliveries
    Unsigned = {}
    Malformed = {}
    Runs = {worker, manual}
    Worker = worker
    Unreachable = {}
    NoIntent = NoIntent
    Requests = {q1, q2}
    IntentOf <- IntentOfRequests
    Foreign = {}
    Wanted <- WantedAmounts
    WholeRest = WholeRest
    RefundOutcomes = {"SUCCEEDED"}
    Patient = {i1}
INVARIANTS
    TypeOK
    CapturedAtGateway
    PaidBackWithinAmount
    OverviewAddsUp
PROPERTIES
    SettledIsResolved
    CaptureIsAnnounced
    VolumeNeverFalls
CHECK_DEADLOCK FALSE
