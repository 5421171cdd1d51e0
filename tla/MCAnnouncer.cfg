SPECIFICATION FairSpec
CONSTANTS
    s1 = s1
    s2 = s2
    four = four
    six1 = six1
    six2 = six2
    Svc = {s1, s2}
    V4 = {four}
    V6 = {six1, six2}
    Group <- OneGroup
    Assigned <- Addresses
    NIfc = 2
    Start <- OneOrTwo
    None = None
    Rounds = 2
    MaxCalls = 3
    MaxChanges = 1
    MaxAnswering = 1
    MaxFailures = 1
INVARIANTS
    GroupCounts
PROPERTIES
    
    RespondersFollow
    MadeKnown
