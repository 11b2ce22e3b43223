SPECIFICATION FairSpec
CONSTANTS
    p1 = p1
    s1 = s1
    s2 = s2
    r1 = r1
    None = None
    Players = {p1}
    Sockets = {s1, s2}
    Rooms = {r1}
    SendBuffer = 2
    MaxRounds = 2
    MaxMessages = 1
    Watched = {}
CHECK_DEADLOCK FALSE
PROPERTIES
    PushEnds
    ClosedSocketLeaves
