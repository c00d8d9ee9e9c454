SPECIFICATION Spec
CONSTANTS
    Task = {t1, t2}
    Client = {c1}
    Start = 2
    MaxSessions = 4
    MaxDeletes = 1
    MaxReads = 1
    MaxCrashes = 1
    Depth = 1
SYMMETRY Sym
INVARIANT TreeKept
INVARIANT ReadIsTree
CHECK_DEADLOCK FALSE
