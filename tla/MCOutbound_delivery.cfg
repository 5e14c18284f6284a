SPECIFICATION OutFairSpec
CONSTANTS
    m1 = m1
    ma = ma
    s1 = s1
    k1 = k1
    r1 = r1
    d1 = d1
    d2 = d2
    Merchants = {m1}
    Seeded = {m1}
    Emails = {ma}
    Urls = {}
    NoUrl = NoUrl
    NoSecret = NoSecret
    Secrets = {s1}
    Given <- Applications
    Keys = {k1}
    FirstKey <- FirstKeys
    IssuedTo <- Owners
    Requests = {r1}
    KeyIn <- KeysOfRequests
    Dispatches = {d1, d2}
    MerchantOf <- OneMerchant
    DefaultUrl = DefaultUrl
    DefaultSecret = DefaultSecret
    NoEndpoint = NoEndpoint
    Attempts = 2
    Concurrency = 1
    MaxFaults = 2
INVARIANTS
    OutTypeOK
    PostsAreBounded
PROPERTIES
    DeliveredAtLeastOnce
CHECK_DEADLOCK FALSE
