SPECIFICATION ToolsSpec
CONSTANTS
    Parts = {"registry", "tasks", "files", "command"}
    Root = root
    Child = child
    search = search
    host = host
    Host <- MCHost
    Tool <- MCTool
    Core = {}
    Broken <- MCHost
    MaxIterations = 2
    MaxTurns <- MCTurns
    MaxCalls = 1
    TaskCaller = {"c1"}
    MaxTasks = 3
    MaxUpdates = 2
    MaxAdded = 1
    FileCaller <- MCCaller
    File <- MCFile
    Token = {"a", "b"}
    Contents <- MCContents
    HasProject = TRUE
    FileCalls = 3
    MaxSize = 3
    Trigger = 3
    Ends = 1
    MaxUnits = 3
    MaxShown <- MCMaxShown
    c1 = c1  c2 = c2  f = f  g = g
SYMMETRY Alike
INVARIANTS TasksAgree OwnTools  
PROPERTY LoadedIsOffered
CHECK_DEADLOCK FALSE
