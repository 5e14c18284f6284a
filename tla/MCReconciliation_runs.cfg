SPECIFICATION ReconFairSpec
CONSTANTS
    i1 = i1
    i2 = i2
    i3 = i3
    worker = worker
    manual = manual
    Intents = {i1, i2, i3}
    Amount <- Amounts
    InitialStatus <- AllPending
    AtGateway = {i1, i2}
    FaultKinds = {"db", "redis", "gateway", "crash"}
    MaxFaults = 1
    Runs = {worker, manual}
    Worker = worker
    Unreachable = {i2}
    NoIntent = NoIntent
INVARIANTS
    VerdictIsGateways
    NotifiedVerdictIsStored
    CompensatedOnce
PROPERTIES
    SettledIsReconciled
CHECK_DEADLOCK FALSE
