SPECIFICATION Spec
CONSTANTS
    p1 = p1
    p2 = p2
    p3 = p3
    r1 = r1
    r2 = r2
    c1 = c1
    c2 = c2
    c3 = c3
    None = None
    Gone = Gone
    Players = {p1, p2, p3}
    Rooms = {r1, r2}
    Calls = {c1, c2}
    MaxPlayers = 2
    FaultKinds = {"rollback", "crash", "redis", "unbound", "expire"}
    MaxFaults = 1
SYMMETRY Symmetry
INVARIANTS
    SeatedIsBound
    OneRoomWhileBound
    TypeOK
    SeatCap
    
CHECK_DEADLOCK FALSE
