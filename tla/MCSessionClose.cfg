SPECIFICATION FairSpec
CONSTANTS
    a = a
    b = b
    v = v
    w = w
    c1 = c1
    c2 = c2
    c3 = c3
    c4 = c4
    Prefix = {a}
    Path = {v}
    HoldTime = 9
    PeerHoldTimes = {0, 3, 90}
    BackoffMax = 3
    Conn <- MCConn
    None = None
    MaxSets = 0
    MaxFailures = 2
PROPERTIES
    KeepalivesEnd
CHECK_DEADLOCK FALSE
