SPECIFICATION FairSpec
CONSTANTS
    t1 = t1
    t2 = t2
    t3 = t3
    a = a
    b = b
    s1 = s1
    s2 = s2
    u1 = u1
    u2 = u2
    Task <- TwoTasks
    Id <- OneId
    SystemMsg <- TwoSystem
    UserMsg <- TwoUser
    Ops <- AllOps
    MaxCalls = 3
    MaxErrors = 1
    MaxCrashes = 1
INVARIANTS
    TypeOK
    FlightInv
    OneCopyAgrees
    QuietDeleteIsFinal
PROPERTIES
    SingleFlightSpec
    CallsReturn
CHECK_DEADLOCK FALSE
