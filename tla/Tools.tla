-------------------------------- MODULE Tools --------------------------------
(***************************************************************************)
(* What tools work on, each part on its own: the registry (ToolRegistry),   *)
(* the list of tasks (TaskStore), the files of a turn (FileTools) and a     *)
(* command (CommandOutput).  A behaviour is about one part of Parts; the    *)
(* others rest.                                                            *)
(***************************************************************************)
EXTENDS ToolRegistry

CONSTANTS
    Parts,                                     \* the parts a behaviour can be about
    TaskCaller, MaxTasks, MaxUpdates, MaxAdded, \* of the list of tasks
    FileCaller, File, Token, Contents, HasProject, FileCalls, MaxSize, Trigger, Ends, \* of the files
    MaxUnits, MaxShown                         \* of the command

VARIABLES
    part,  \* the part of the system this behaviour is about
    tCreated, tStatus, tBlocks, tBlockedBy, tEvent, tUpdates, tTold, tWaits, tTorn,
    fDisk, fRead, fRanges, fCall, fCalls, fPanicked, fOld, fTouched, fFailed,
    fSeen, fHidden, fNext, fStale,
    oWritten, oProcess, oWrote, oPipe, oPartial, oCollected, oPending, oLogs, oDone,
    oAnswer, oShown

Tasks == INSTANCE TaskStore WITH
    Caller <- TaskCaller,
    created <- tCreated, status <- tStatus, blocks <- tBlocks, blockedBy <- tBlockedBy,
    event <- tEvent, updates <- tUpdates, told <- tTold, waits <- tWaits, torn <- tTorn
Files == INSTANCE FileTools WITH
    Caller <- FileCaller, MaxCalls <- FileCalls,
    disk <- fDisk, read <- fRead, ranges <- fRanges,
    call <- fCall, calls <- fCalls, panicked <- fPanicked, old <- fOld,
    touched <- fTouched, failed <- fFailed, seen <- fSeen, hidden <- fHidden, next <- fNext,
    stale <- fStale
Command == INSTANCE CommandOutput WITH
    written <- oWritten, process <- oProcess, wrote <- oWrote,
    pipe <- oPipe, partial <- oPartial, collected <- oCollected, pending <- oPending,
    logs <- oLogs, done <- oDone, answer <- oAnswer, shown <- oShown

registryVars == vars
tasksVars == <<tCreated, tStatus, tBlocks, tBlockedBy, tEvent, tUpdates, tTold, tWaits,
               tTorn>>
filesVars == <<fDisk, fRead, fRanges, fCall, fCalls, fPanicked, fOld,
               fTouched, fFailed, fSeen, fHidden, fNext, fStale>>
commandVars == <<oWritten, oProcess, oWrote, oPipe, oPartial, oCollected, oPending,
                 oLogs, oDone, oAnswer, oShown>>

(* What a part that does not take part holds.                               *)
registryRests == Init
tasksRests ==
    /\ tCreated = 0 /\ tStatus = 0 /\ tBlocks = 0 /\ tBlockedBy = 0 /\ tEvent = 0
    /\ tUpdates = 0 /\ tTold = 0 /\ tWaits = 0 /\ tTorn = 0
filesRests ==
    /\ fDisk = 0 /\ fRead = 0 /\ fRanges = 0 /\ fCall = 0
    /\ fCalls = 0 /\ fPanicked = 0 /\ fOld = 0 /\ fTouched = 0 /\ fFailed = 0
    /\ fSeen = 0 /\ fHidden = 0 /\ fNext = 0 /\ fStale = 0
commandRests ==
    /\ oWritten = 0 /\ oProcess = 0 /\ oWrote = 0 /\ oPipe = 0 /\ oPartial = 0
    /\ oCollected = 0 /\ oPending = 0 /\ oLogs = 0 /\ oDone = 0 /\ oAnswer = 0 /\ oShown = 0

ASSUME ToolsAssumption ==
    /\ Tasks!TaskStoreAssumption
    /\ Files!FileToolsAssumption
    /\ Command!CommandOutputAssumption

ToolsInit ==
    /\ part \in Parts
    /\ IF part = "registry" THEN Init ELSE registryRests
    /\ IF part = "tasks" THEN Tasks!Init ELSE tasksRests
    /\ IF part = "files" THEN Files!Init ELSE filesRests
    /\ IF part = "command" THEN Command!Init ELSE commandRests
RegistryStep == /\ part = "registry" /\ Next
                /\ UNCHANGED <<part, tasksVars, filesVars, commandVars>>
TasksStep == /\ part = "tasks" /\ Tasks!Next
             /\ UNCHANGED <<part, registryVars, filesVars, commandVars>>
FilesStep == /\ part = "files" /\ Files!Next
             /\ UNCHANGED <<part, registryVars, tasksVars, commandVars>>
CommandStep == /\ part = "command" /\ Command!Next
               /\ UNCHANGED <<part, registryVars, tasksVars, filesVars>>
ToolsNext == RegistryStep \/ TasksStep \/ FilesStep \/ CommandStep
toolsVars == <<part, registryVars, tasksVars, filesVars, commandVars>>

ToolsSpec == ToolsInit /\ [][ToolsNext]_toolsVars
------------------------------------------------------------------------------
(* The two sides of the relation between tasks agree, and the client is told *)
(* every status (TaskStore: BlockersKnow, AllTold; task.rs:166).             *)
TasksAgree == part = "tasks" => Tasks!TypeOK /\ Tasks!BlockersKnow /\ Tasks!AllTold

(* A session is offered its own tools, all of which run, and is not told of  *)
(* any of them twice; a session that is deleted leaves none (Isolated,       *)
(* OfferedRuns, NotBoth, QuietRelease of ToolRegistry; registry.rs:447,      *)
(* registry.rs:692).                                                         *)
OwnTools == TypeOK /\ Isolated /\ OfferedRuns /\ NotBoth /\ QuietRelease

(* A file is written after a Read of it was let through, and who reads a     *)
(* file page by page is shown all of it, as it stands while no call has      *)
(* written it (FileTools: UnreadUntouched, PagesTold; read.rs, write.rs,     *)
(* edit.rs).                                                                 *)
FilesRead == part = "files" => Files!UnreadUntouched /\ Files!PagesTold

(* The client is shown what is read of a command's output and the model is   *)
(* given the same up to its limit, in order and once; only read errors are   *)
(* not logged (CommandOutput: LogsAreTheAnswer, InOrder; bash/mod.rs).       *)
OutputTold == part = "command" => Command!LogsAreTheAnswer /\ Command!InOrder

(* Claims of the documentation that the code does not keep; each is stated   *)
(* where its component is.                                                   *)
CompletingFrees == Tasks!CompletingFrees
EditsKept == part = "files" => Files!EditsKept
ReadBeforeWritten == part = "files" => Files!ReadBeforeWritten
WithheldWasShown == part = "files" => Files!WithheldWasShown
OutputWhole == part = "command" => Command!OutputWhole
==============================================================================
