SPECIFICATION FairSpec
CONSTANTS
    a = a
    b = b
    v = v
    w = w
    c1 = c1
    c2 = c2
    c3 = c3
    c4 = c4
    Prefix = {a, b}
    Path = {v, w}
    HoldTime = 9
    PeerHoldTimes = {0, 90}
    BackoffMax = 3
    Conn <- MCConn
    None = None
    MaxSets = 2
    MaxFailures = 3
INVARIANTS
    WantedIsKept
    WaitsInSync
    ConnectionOwned
    TickerCurrent
    NotStuckUp
PROPERTIES
    NoSpuriousDown
    OnlyWantedRoutes
    Learns
    CloseEnds
CHECK_DEADLOCK FALSE
