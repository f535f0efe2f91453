SPECIFICATION Spec
CONSTANTS
    Match = {m1}
    Server = {s1, s2}
    Map = {dod_anzio, unknown}
    Unknown = unknown
    Null = Null
    Torn = Torn
    SettleWindow = 1
    StaleAfter = 2
    FlushInterval = 2
    TornWrites = FALSE
    MaxRows = 3
    MaxCrashes = 2
    LastPost = 3
    LastCrash = 3
    Horizon = 6
INVARIANTS
    ActiveIsWhatDiskSays
    CountIsExact
    NoStrandedLog
    OneOwner
PROPERTIES
    KeepsMatchLog
    CompletedIsFinal
    TransientsAreGated
CHECK_DEADLOCK FALSE
