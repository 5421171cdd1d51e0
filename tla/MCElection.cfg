SPECIFICATION FairSpec
CONSTANTS
    s1 = s1
    s2 = s2
    n1 = n1
    n2 = n2
    plain = plain
    None = None
    Invalid = Invalid
    NoIngress = NoIngress
    Svc <- MCSvc
    V4 <- MCV4
    V6 = {}
    Node = {n1, n2}
    PodIP = {"p1", "p2"}
    Rank <- MCRank
    Path = {}
    LongPath = {}
    Labels = {plain}
    NoLabels = plain
    Peer <- MCPeer
    Name <- MCName
    NameOf <- MCNameOf
    NodeAddr = {}
    Configs <- MCConfigs
    Cluster <- MCCluster
    Services <- MCServices
    Eps <- MCEps
    Nodes <- MCNodes
    MaxEdits = 2
    MaxCrashes = 1
    MaxFailures = 1
    AnnounceMayFail = TRUE
INVARIANTS
    Agree
PROPERTY OneAnswers
CHECK_DEADLOCK FALSE
