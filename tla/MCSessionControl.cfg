SPECIFICATION MCSpec
CONSTANTS
    Task = {t1, t2}
    Assigned = {}
    Added = {usage}
    Length = {2}
    MinTexts <- MCMinTexts
    MinChars = 2
    MaxAttempts = 2
    MaxCalls = 3
    FewCalls = 2
    MaxErrors = 1
    MaxCrashes = 1
INVARIANT RowKept
PROPERTY NamedOnce
PROPERTY TitleSettles
CHECK_DEADLOCK FALSE
