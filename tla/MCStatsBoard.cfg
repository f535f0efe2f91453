SPECIFICATION Spec
CONSTANTS
    Player = {ana, ben}
    Null = Null
    MaxMatch = 1
    MaxKills = 1
    MaxLost = 1
    MaxLinks = 1
    MaxMoves = 2
    Overtime = TRUE
    Forfeits = FALSE
INVARIANTS
    TypeOK
    NeverOvercounts
    BoardIsExact
    NothingSeenIsLost
    BoardsComeDown
PROPERTIES
    ReloadKeepsHalftime
SYMMETRY Symmetry
CHECK_DEADLOCK FALSE
