SPECIFICATION Spec
CONSTANTS
    Player = {ana, ben}
    Null = Null
    MaxMatch = 1
    MaxKills = 1
    MaxLost = 0
    MaxLinks = 0
    MaxMoves = 2
    Overtime = TRUE
    Forfeits = TRUE
INVARIANTS
    NeverOvercounts
CHECK_DEADLOCK FALSE
