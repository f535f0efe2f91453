SPECIFICATION Spec
CONSTANTS
    MaxMatch = 2
    Null = Null
    Rosters = {2, 3}
    MaxWave = 2
    Globals = {TRUE, FALSE}
    Burst = 3
    BurstWindow = 0
    ClanTimer = 1
    RewipeSlack = 1
    LiveWindow = 3
    HalfEndGuard = 1
    Hold = 2
    InitDelay = 1
    MaxTime = 4
    MaxScore = 1
    MaxKills = 1
INVARIANTS
    ScoreboardAgrees
    RowsAreLabelled
    ScoreIsFiled
    HalfHasFinal
    HalfEndsOnce
PROPERTIES
    PhaseIsTrue
    OnAirAtOnce
    RowsInOrder
