SPECIFICATION Spec
CONSTANTS
    t1 = t1
    t2 = t2
    t3 = t3
    a = a
    b = b
    s1 = s1
    s2 = s2
    u1 = u1
    u2 = u2
    Task <- TwoTasks
    Id <- OneId
    SystemMsg <- TwoSystem
    UserMsg <- TwoUser
    Ops <- ColdOps
    MaxCalls = 2
    MaxErrors = 0
    MaxCrashes = 0
INVARIANTS AckedVisible
CHECK_DEADLOCK FALSE
