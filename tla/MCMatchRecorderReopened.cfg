SPECIFICATION FairSpec
CONSTANTS
    Match = {m1}
    Server = {s1, s2}
    Map = {dod_anzio, unknown}
    Unknown = unknown
    Null = Null
    Torn = Torn
    SettleWindow = 1
    StaleAfter = 1
    FlushInterval = 2
    TornWrites = TRUE
    MaxRows = 3
    MaxCrashes = 1
    LastPost = 2
    LastCrash = 2
    Horizon = 4
PROPERTIES
    NeverReopened
CHECK_DEADLOCK FALSE
