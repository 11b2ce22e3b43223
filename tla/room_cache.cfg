SPECIFICATION Spec
CONSTANTS
    r1 = r1
    r2 = r2
    r3 = r3
    c1 = c1
    c2 = c2
    l1 = l1
    None = None
    Rooms = {r1, r2, r3}
    Ops = {c1, c2}
    Listings = {l1}
    Asked = {1, 0, 2, 5, 8}
    HalfRange = 8
    DefaultLimit = 2
    MaxLimit = 3
    MaxFaults = 1
SYMMETRY Symmetry
INVARIANTS
    TypeOK
    OpenRoomsCached
    ListingFindsATable
CHECK_DEADLOCK FALSE
