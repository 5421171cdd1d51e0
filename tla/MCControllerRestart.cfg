SPECIFICATION Spec
CONSTANTS
    s1 = s1
    s2 = s2
    i1 = i1
    i2 = i2
    http = http
    dns = dns
    p1 = p1
    none = none
    Svc = {s1, s2}
    IP = {i1, i2}
    Port = {http, dns}
    PoolName = {p1}
    SharingKey = {"", "key"}
    BackendKey = {"", "app"}
    Pools <- LargePool
    BuggyIP = {}
    NoSharing = ""
    None = none
    Specs <- PlainOnly
    NoBackend = ""
    Invalid = invalid
    MaxEdits = 3
    MaxCrashes = 1
    MaxFailures = 0
SYMMETRY Symmetry
INVARIANTS
    PublishedExclusive
CHECK_DEADLOCK FALSE
