SPECIFICATION LiveSpec
CONSTANTS
    t1 = t1
    t2 = t2
    t3 = t3
    Turn <- TwoTurns
    NoTurn = NoTurn
    MaxReplies = 2
    MaxFailures = 2
    MaxCrashes = 1
    MaxReloads = 0
CHECK_DEADLOCK FALSE
INVARIANTS
    TypeOK
    WholeTurns
    SeesPast
    TokenLeft
PROPERTIES
    StopsNobodyWaiting
    TurnsEnd
