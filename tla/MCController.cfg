SPECIFICATION FairSpec
CONSTANTS
    s1 = s1
    s2 = s2
    i1 = i1
    i2 = i2
    http = http
    dns = dns
    p1 = p1
    none = none
    Svc = {s1, s2}
    IP = {i1, i2}
    Port = {http, dns}
    PoolName = {p1}
    SharingKey = {"", "key"}
    BackendKey = {"", "app"}
    Pools <- BothPools
    BuggyIP = {}
    NoSharing = ""
    None = none
    Specs <- Various
    NoBackend = ""
    Invalid = invalid
    MaxEdits = 4
    MaxCrashes = 1
    MaxFailures = 1
INVARIANTS
    ConfigInForce
    PublishedIsAllocated
    RequestHonoured
    QuietExclusive
PROPERTIES
    Converges
    Served
CHECK_DEADLOCK FALSE
