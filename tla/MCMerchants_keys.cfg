SPECIFICATION MerchantSpec
CONSTANTS
    m1 = m1
    m2 = m2
    m3 = m3
    ma = ma
    mb = mb
    s1 = s1
    k1 = k1
    k2 = k2
    k3 = k3
    k4 = k4
    r1 = r1
    r2 = r2
    r3 = r3
    Merchants = {m1, m2, m3}
    Seeded = {m1}
    Emails = {ma, mb}
    Urls = {}
    NoUrl = NoUrl
    NoSecret = NoSecret
    Secrets = {s1}
    Given <- Applications
    Keys = {k1, k2, k3, k4}
    FirstKey <- FirstKeys
    IssuedTo <- Owners
    Requests = {r1, r2, r3}
    KeyIn <- KeysOfRequests
INVARIANTS
    EmailsAreUnique
    BarredStaysOut
    MerchantsHaveKeys
CHECK_DEADLOCK FALSE
