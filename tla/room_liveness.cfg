SPECIFICATION FairSpec
CONSTANTS
    p1 = p1
    p2 = p2
    c1 = c1
    c2 = c2
    MaxMoney = 500
    Players = {p1, p2}
    Owner = p1
    MaxPlayers = 2
    MaxRounds = 2
    Amounts = {3}
    BetChoices = {"even"}
    StartBalance = 3
    Faces = {1, 2}
    Calls = {c1}
    FaultKinds = {"rollback", "lost"}
    MaxFaults = 2
    MaxBoots = 1
    WindowTicks = 1
    LongWindow = TRUE
    PeerBoot = FALSE
PROPERTIES
    RoundResolves
    RestartResolves
    ShutdownEndsLoops
