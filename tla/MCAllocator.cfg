CONSTANTS
    s1 = s1
    s2 = s2
    s3 = s3
    i0 = i0
    i1 = i1
    i2 = i2
    p1 = p1
    p2 = p2
    http = http
    dns = dns
    b1 = b1
    b2 = b2
    None = None
    NoSharing = NoSharing
    Svc <- MCSvc
    IP <- MCIP
    Port <- MCPort
    PoolName <- MCPoolName
    SharingKey = {NoSharing, k1}
    BackendKey <- MCBackendKey
    Pools <- MCPools
    BuggyIP <- MCBuggyIP
SPECIFICATION CallSpec
INVARIANTS
    NoPanic
    IndexesExact
    SharingSafe
    InConfiguredPool
    CountsRight
    RearrangeInAnyOrder
SYMMETRY Symmetry
PROPERTY IsAddressBook
