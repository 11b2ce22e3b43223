SPECIFICATION Spec
CONSTANTS
    p1 = p1
    p2 = p2
    p3 = p3
    r1 = r1
    r2 = r2
    c1 = c1
    c2 = c2
    c3 = c3
    None = None
    Gone = Gone
    Players = {p1, p2}
    Rooms = {r1, r2}
    Calls = {c1, c2}
    MaxPlayers = 2
    FaultKinds = {"unbound"}
    MaxFaults = 1
SYMMETRY Symmetry
INVARIANT
    OneRoomPerPlayer
CHECK_DEADLOCK FALSE
