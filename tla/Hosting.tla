------------------------------ MODULE Hosting --------------------------------
(***************************************************************************)
(* What surrounds turns, each part on its own: what a turn sends to its     *)
(* model (TurnPreparation), the answer that streams back (ProviderStream),  *)
(* the configuration (Configuration), the start on an old database          *)
(* (Migrations), the sub-agents a turn makes (Delegation) and the records   *)
(* of its runs (RunRecords).  A behaviour is about one part of Sides; the   *)
(* others rest.                                                            *)
(***************************************************************************)
EXTENDS Naturals, Sequences

CONSTANTS
    Sides,                                       \* the parts a behaviour can be about
    Worlds, Scripts,                             \* of the turn; of the stream
    Raws, LlmName, Provider, Client, MaxChanges, \* of the configuration
    Databases, MaxStarts, MaxRows,               \* of the migrations
    Delegated, AgentName, Default, Stranger, Prompts, PromptFiles, Skill, NoSkill,
    Preload, External, Seed,                                         \* of the delegations
    Run, Limit, MaxClock, MaxStops, MaxWalks, MaxRestarts, \* of the records
    Nobody

VARIABLES
    side,  \* the part of the system this behaviour is about
    wWorld, wStage, wPackages, wTemplate, wBase, wOverride, wTools, wTurn, wSent,
    sScript, sSent, sClosed, sBuffer, sPending, sBlock, sStop, sQueue, sHeard, sStatus,
    cEnv, cFile, cPhase, cConfig, cCache, cClient, cUpdates, cSession, cRan,
    mColumns, mRows, mPhase, mAt, mAdding, mHad, mStarts, mStored,
    dSeeds, dHook, dPc, dAsked, dAgent, dTold, dRegistry, dActive, dResult, dKnown,
    rClock, rPc, rStarted, rRuns, rStatus, rUsage, rCounters, rRow, rPage, rBounds

Turns == INSTANCE TurnPreparation WITH
    world <- wWorld, stage <- wStage, packages <- wPackages, template <- wTemplate,
    base <- wBase, override <- wOverride, tools <- wTools, turn <- wTurn, sent <- wSent
Streams == INSTANCE ProviderStream WITH
    script <- sScript, sent <- sSent, closed <- sClosed,
    buffer <- sBuffer, pending <- sPending, block <- sBlock, stop <- sStop,
    queue <- sQueue, heard <- sHeard, status <- sStatus
Conf == INSTANCE Configuration WITH
    Name <- LlmName, MaxUpdates <- MaxChanges, env <- cEnv, file <- cFile, phase <- cPhase,
    config <- cConfig, cache <- cCache, client <- cClient, updates <- cUpdates,
    session <- cSession, ran <- cRan
Store == INSTANCE Migrations WITH
    columns <- mColumns, rows <- mRows, phase <- mPhase, at <- mAt, adding <- mAdding,
    had <- mHad, starts <- mStarts, stored <- mStored
Agents == INSTANCE Delegation WITH
    Call <- Delegated, None <- Nobody, Files <- PromptFiles, Agent <- AgentName,
    Missing <- NoSkill, seeds <- dSeeds, hook <- dHook, pc <- dPc,
    asked <- dAsked, agent <- dAgent, told <- dTold, registry <- dRegistry,
    active <- dActive, result <- dResult, known <- dKnown
Records == INSTANCE RunRecords WITH
    Turn <- Run, MaxCrashes <- MaxRestarts, None <- Nobody, clock <- rClock, pc <- rPc,
    started <- rStarted, runs <- rRuns, status <- rStatus, usage <- rUsage,
    counters <- rCounters, row <- rRow, page <- rPage, bounds <- rBounds

turnVars == <<wWorld, wStage, wPackages, wTemplate, wBase, wOverride, wTools, wTurn, wSent>>
streamVars == <<sScript, sSent, sClosed, sBuffer, sPending, sBlock, sStop, sQueue,
                sHeard, sStatus>>
configurationVars == <<cEnv, cFile, cPhase, cConfig, cCache, cClient, cUpdates,
                       cSession, cRan>>
migrationVars == <<mColumns, mRows, mPhase, mAt, mAdding, mHad, mStarts, mStored>>
delegationVars == <<dSeeds, dHook, dPc, dAsked, dAgent, dTold, dRegistry, dActive,
                    dResult, dKnown>>
recordsVars == <<rClock, rPc, rStarted, rRuns, rStatus, rUsage, rCounters, rRow, rPage,
                 rBounds>>

(* What a part that does not take part holds.                               *)
turnRests ==
    /\ wWorld = 0 /\ wStage = 0 /\ wPackages = 0 /\ wTemplate = 0 /\ wBase = 0
    /\ wOverride = 0 /\ wTools = 0 /\ wTurn = 0 /\ wSent = 0
streamRests ==
    /\ sScript = 0 /\ sSent = 0 /\ sClosed = 0 /\ sBuffer = 0 /\ sPending = 0
    /\ sBlock = 0 /\ sStop = 0 /\ sQueue = 0 /\ sHeard = 0 /\ sStatus = 0
configurationRests ==
    /\ cEnv = 0 /\ cFile = 0 /\ cPhase = 0 /\ cConfig = 0 /\ cCache = 0
    /\ cClient = 0 /\ cUpdates = 0 /\ cSession = 0 /\ cRan = 0
migrationRests ==
    /\ mColumns = 0 /\ mRows = 0 /\ mPhase = 0 /\ mAt = 0 /\ mAdding = 0 /\ mHad = 0
    /\ mStarts = 0 /\ mStored = 0
delegationRests ==
    /\ dSeeds = 0 /\ dHook = 0 /\ dPc = 0 /\ dAsked = 0 /\ dAgent = 0 /\ dTold = 0
    /\ dRegistry = 0 /\ dActive = 0 /\ dResult = 0 /\ dKnown = 0
recordsRests ==
    /\ rClock = 0 /\ rPc = 0 /\ rStarted = 0 /\ rRuns = 0 /\ rStatus = 0
    /\ rUsage = 0 /\ rCounters = 0 /\ rRow = 0 /\ rPage = 0 /\ rBounds = 0

ASSUME HostAssumption ==
    /\ Store!MigrationsAssumption
    /\ Conf!ConfigurationAssumption
    /\ Agents!DelegationAssumption
    /\ Records!RunRecordsAssumption

HostInit ==
    /\ side \in Sides
    /\ IF side = "turn" THEN Turns!Init ELSE turnRests
    /\ IF side = "stream" THEN Streams!Init ELSE streamRests
    /\ IF side = "configuration" THEN Conf!Init ELSE configurationRests
    /\ IF side = "migration" THEN Store!Init ELSE migrationRests
    /\ IF side = "delegation" THEN Agents!Init ELSE delegationRests
    /\ IF side = "records" THEN Records!Init ELSE recordsRests
TurnStep == /\ side = "turn" /\ Turns!Next
            /\ UNCHANGED <<side, streamVars, configurationVars, migrationVars,
                            delegationVars, recordsVars>>
StreamStep == /\ side = "stream" /\ Streams!Next
              /\ UNCHANGED <<side, turnVars, configurationVars, migrationVars,
                              delegationVars, recordsVars>>
ConfigurationStep == /\ side = "configuration" /\ Conf!Next
                     /\ UNCHANGED <<side, turnVars, streamVars, migrationVars,
                                     delegationVars, recordsVars>>
MigrationStep == /\ side = "migration" /\ Store!Next
                 /\ UNCHANGED <<side, turnVars, streamVars, configurationVars,
                                 delegationVars, recordsVars>>
DelegationStep == /\ side = "delegation" /\ Agents!Next
                  /\ UNCHANGED <<side, turnVars, streamVars, configurationVars,
                                  migrationVars, recordsVars>>
RecordsStep == /\ side = "records" /\ Records!Next
               /\ UNCHANGED <<side, turnVars, streamVars, configurationVars,
                               migrationVars, delegationVars>>
HostNext == TurnStep \/ StreamStep \/ ConfigurationStep \/ MigrationStep \/ DelegationStep \/ RecordsStep
hostVars == <<side, turnVars, streamVars, configurationVars, migrationVars, delegationVars, recordsVars>>

HostSpec == HostInit /\ [][HostNext]_hostVars
------------------------------------------------------------------------------
(* A request says what was asked, keeps the agent's and the project's        *)
(* instructions and the end of the history, answers every call of a tool and *)
(* describes the tools it offers (TurnPreparation).                          *)
RequestIsTurn ==
    side = "turn" =>
        /\ Turns!AskedIsTold /\ Turns!InstructionsKept /\ Turns!TrimIsTail
        /\ Turns!AnswersFollow /\ Turns!DescribedIsOffered

(* What is heard of an answer is what the provider sent, however its bytes   *)
(* arrive (ProviderStream; providers/openai_compat, providers/anthropic).    *)
HeardIsMeant == side = "stream" => Streams!HeardIsMeant

(* A file that loads and is found valid starts the program, whoever wrote    *)
(* it, and the running configuration, written back unchanged, loads as       *)
(* itself.  An update is written unchecked, so what a client changed may no  *)
(* longer load (Configuration: ValidBoots, StaysPut; validation.rs).         *)
ValidConfigBoots == side = "configuration" => Conf!ValidBoots /\ Conf!StaysPut

(* An agent is run on a model of its own provider, whatever is updated       *)
(* (Configuration: OwnProvider).                                             *)
OwnProvider == Conf!OwnProvider

(* A start leaves the schema of this version and every row but restore       *)
(* states without a session, also when it is interrupted and repeated        *)
(* (Migrations: SchemaCurrent, RowsSurvive).                                 *)
SchemaKept == side = "migration" => Store!SchemaCurrent /\ Store!RowsSurvive

(* A sub-agent that runs is what was asked for (Delegation; agent.rs:249).   *)
RunsAsAsked == side = "delegation" => Agents!RunsAsAsked

(* Paging through the runs of a session shows each of them once, and its     *)
(* counters are the sums of its runs (RunRecords: PagesWhole,                *)
(* CountersAreRuns).                                                         *)
RecordsTrue == side = "records" => Records!PagesWhole /\ Records!CountersAreRuns

(* A delegation that names a skill nobody has is reported as an error        *)
(* (agent.rs:545).                                                           *)
MissingSkillReported == side = "delegation" => Agents!MissingSkillReported

(* A turn runs on the model its agent is bound to (loaders.rs:62).           *)
TurnRunsBinding == Conf!TurnRunsBinding

(* Migrating keeps the times of messages (Migrations: TimesKept).            *)
TimesKept == side = "migration" => Store!TimesKept

(* config.get returns what the last update wrote (Configuration:             *)
(* SnapshotCurrent).                                                         *)
SnapshotCurrent == side = "configuration" => Conf!SnapshotCurrent
==============================================================================
