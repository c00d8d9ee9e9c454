SPECIFICATION EngineSpec
CONSTANTS
  Parts = {"orchestration", "runtime", "events", "mcp"}
  a1 = a1  a2 = a2  a3 = a3  a4 = a4  a5 = a5
  s1 = s1  s2 = s2  s3 = s3  s4 = s4
  path = path  none = none  old = old  new = new  t = t  u = u
  Tool = {"Read", "Edit"}  Kept = {path}  LeftOut = {none, old, new}  Text = {t, u}
  Replies <- Said
  Nothing = Nothing
  Budget = 4  MaxDuplicates = 2  MaxStalled = 2  GuardEnabled = TRUE  RejectMode = TRUE
  Plain = {}  Shell = {"bash"}  SubAgent = {"agent"}  Fallible = {"bash"}  Capacity = 1
  Caller = {"c1", "c2"}  MaxCalls = 4  MaxNoise = 1
  Agent = {a1, a2, a3, a4, a5}
  StageId = {s1, s2, s3, s4}
  Unknown = Unknown
  Plans <- Submitted
  MaxPanics = 2
INVARIANTS AnswerSettles OwnAnswer ConversationWhole GuardEnds ResultsEarned
PROPERTIES EventsArrive EachEnds AfterDependencies
CHECK_DEADLOCK FALSE
