SPECIFICATION FairSpec
CONSTANTS
    c1 = c1
    c2 = c2
    s1 = s1
    Gateways = {"STRIPE", "PAYMOB", "FAWRY"}
    Calls = {c1, c2}
    Timeout = 1
    ResetTimeout = 2
    UpperCase <- Spellings
    Amounts = {99, 100}
    Absent = Absent
    Sessions = {s1}
    NoRoute = NoRoute
INVARIANTS
    BreakerTypeOK
    HalfOpenHasItsTrial
    RoutesPreferAvailable
    HealthTellsRoutes
PROPERTIES
    NeverShutForGood
CHECK_DEADLOCK FALSE
