SPECIFICATION HostSpec
CONSTANTS
    Sides = {"turn", "stream", "configuration", "migration", "delegation", "records"}
    Worlds <- HostWorlds
    Scripts <- HostScripts
    Raws <- HostRaws
    LlmName = {"m", "n"}
    Provider = {"p", "q"}
    Client <- HostClients
    MaxChanges = 2
    Databases <- HostDatabases
    MaxStarts = 2
    MaxRows = 1
    Delegated <- HostDelegated
    AgentName <- HostAgents
    Default = nova
    Stranger = stranger
    Prompts <- HostPrompts
    PromptFiles <- HostFiles
    Skill <- HostSkills
    NoSkill = missing
    Preload <- HostPreload
    External <- HostExternal
    Seed <- HostSeeds
    Run <- HostRuns
    Limit = 1
    MaxClock = 1
    MaxStops = 1
    MaxWalks = 1
    MaxRestarts = 1
    Nobody = nobody
    nova = nova  coder = coder  broken = broken  stranger = stranger  nobody = nobody
    f1 = f1  skill = skill  missing = missing  t1 = t1  t2 = t2  t3 = t3
    d1 = d1  d2 = d2  k1 = k1  k2 = k2  r1 = r1  r2 = r2  r3 = r3
SYMMETRY HostAlike
CHECK_DEADLOCK FALSE
INVARIANTS RequestIsTurn HeardIsMeant  SchemaKept RunsAsAsked RecordsTrue
PROPERTY OwnProvider
