SPECIFICATION HookFairSpec
CONSTANTS
    i1 = i1
    i2 = i2
    e1 = e1
    e2 = e2
    e3 = e3
    e4 = e4
    d1 = d1
    d2 = d2
    d3 = d3
    d4 = d4
    d5 = d5
    Intents = {i1, i2}
    Amount <- Amounts
    InitialStatus <- AllPending
    AtGateway = {i1, i2}
    FaultKinds = {"db", "redis", "crash"}
    MaxFaults = 2
    Events = {e1, e2, e3, e4}
    About <- AboutIntents
    Reports <- AllCaptures
    NamesIntent = {e1, e2, e4}
    Deliveries = {d1, d2, d3, d4, d5}
    EventOf <- EventOfDeliveries
    Unsigned = {d3}
    Malformed = {d5}
INVARIANTS
    OneNotificationPerEvent
    RecordedIsCaptured
PROPERTIES
    CapturesGetThrough
CHECK_DEADLOCK FALSE
