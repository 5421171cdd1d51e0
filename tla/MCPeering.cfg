CONSTANTS
    rack = rack
    plain = plain
    None = None
    Bad = Bad
    Bits = 9
    Labels = {rack, plain}
    Raws <- MCRaws
    Remotes <- MCRemotes
    Locals <- MCLocals
    LbIPs <- MCLbIPs
    Counts = {1, 814, 815, 13102, 13103}
SPECIFICATION Spec
INVARIANTS
    RefusesOverlap
    AsWritten
    AggregatesInside
    OpenReadBack
    Negotiates
    WellFormed
CHECK_DEADLOCK FALSE
