SPECIFICATION Spec
CONSTANTS
    p1 = p1
    p2 = p2
    c1 = c1
    c2 = c2
    MaxMoney = 32767
    Players = {p1, p2}
    Owner = p1
    MaxPlayers = 2
    MaxRounds = 2
    Amounts = {2}
    BetChoices = {"even"}
    StartBalance = 4
    Faces = {1, 2}
    Calls = {c1, c2}
    FaultKinds = {"rollback", "lost"}
    MaxFaults = 1
    MaxBoots = 1
    WindowTicks = 1
    LongWindow = FALSE
    PeerBoot = TRUE
SYMMETRY CallSymmetry
INVARIANTS
    NoDoubleCredit
    OnlyLateBetsStranded
