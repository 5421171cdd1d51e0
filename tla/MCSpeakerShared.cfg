CONSTANTS
    s1 = s1
    s2 = s2
    n1 = n1
    n2 = n2
    low = low
    high = high
    rack = rack
    plain = plain
    addr1 = addr1
    None = None
    Invalid = Invalid
    NoIngress = NoIngress
    Svc <- MCSvc
    V4 <- MCV4
    V6 = {}
    Node = {n1, n2}
    PodIP = {"p1", "p2", "p3"}
    Rank <- MCRank
    Path = {low, high}
    LongPath = {}
    Labels = {rack, plain}
    NoLabels = plain
    Peer <- MCPeer
    Name <- MCName
    NameOf <- MCNameOf
    NodeAddr = {addr1}
    Me = n1
    Configs <- OnlyMixed
    Cluster <- SharedCluster
    Services <- SharedServices
    Eps <- FewEps
    Nodes <- FewNodes
    MaxEdits = 1
    MaxCrashes = 0
    MaxFailures = 0
    AnnounceMayFail = FALSE
SPECIFICATION Spec
INVARIANT GaugeTrue
CHECK_DEADLOCK FALSE
