SPECIFICATION FairSpec
CONSTANTS
    s1 = s1
    n1 = n1
    n2 = n2
    w1 = w1
    w2 = w2
    None = None
    MaxRequests = 2
    MaxCalls = 2
    Sockets = {s1}
    Names = {n1, n2}
    Settled = {n2}
    Spellings = {"plain", "caps"}
    Passwords = {w1, w2}
    MaxEvents = 2
    MaxCrashes = 1
PROPERTIES
    CallEnds
INVARIANTS
    TypeOK
    TrailComplete
    AccountIsTheRegistrants
CHECK_DEADLOCK FALSE
