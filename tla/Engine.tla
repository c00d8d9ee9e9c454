------------------------------- MODULE Engine -------------------------------
(***************************************************************************)
(* What a turn is made of, each part on its own: the loop of the agent      *)
(* (AgentRuntime), the way of its events (TurnEvents), the connection to a  *)
(* server of tools (McpClient) and the engine of OrchestrateTask            *)
(* (Orchestration).  A behaviour is about one part of Parts; the others     *)
(* rest.                                                                   *)
(***************************************************************************)
EXTENDS Orchestration

CONSTANTS
    Parts,                            \* the parts a behaviour can be about
    Tool, Kept, LeftOut, Text, Replies, \* of the runtime, as Nothing ... RejectMode
    Nothing, Budget, MaxDuplicates, MaxStalled, GuardEnabled, RejectMode,
    Plain, Shell, SubAgent, Fallible, Capacity, \* of the events
    Caller, MaxCalls, MaxNoise        \* of the connection

VARIABLES
    part,  \* the part of the system this behaviour is about
    rPc, rIteration, rMessages, rContext, rRunning, rResults, rLastCall, rDuplicates,
    rLastRound, rStalled, rOutcome, rCancelled, rExecuted,
    eCalls, eCommands, eSub, ePassing, eRecorded, eTaken, eEvents, eApp, eRelay,
    eForwarder, eSteps, eMissed, eRun, eClient, eReceived, ePc, eAnswer, eSaved, eSent, eLate,
    mStdio, mStage, mGreeted, mNext, mCaller, mWriter, mPending, mChannel, mInbox, mOutbox, mServer,
    mReader, mNoise, mResults

Runtime == INSTANCE AgentRuntime WITH
    Left <- LeftOut, pc <- rPc, iteration <- rIteration, messages <- rMessages, context <- rContext,
    running <- rRunning, results <- rResults, lastCall <- rLastCall,
    duplicates <- rDuplicates, lastRound <- rLastRound, stalled <- rStalled,
    outcome <- rOutcome, cancelled <- rCancelled, executed <- rExecuted
Events == INSTANCE TurnEvents WITH
    Agent <- SubAgent, calls <- eCalls,
    commands <- eCommands, sub <- eSub, passing <- ePassing, recorded <- eRecorded,
    taken <- eTaken, events <- eEvents, app <- eApp, relay <- eRelay,
    forwarder <- eForwarder, steps <- eSteps, missed <- eMissed, run <- eRun, client <- eClient,
    received <- eReceived, pc <- ePc, answer <- eAnswer, saved <- eSaved, sent <- eSent,
    late <- eLate
Mcp == INSTANCE McpClient WITH
    stdio <- mStdio, stage <- mStage, greeted <- mGreeted,
    next <- mNext, caller <- mCaller, writer <- mWriter, pending <- mPending,
    channel <- mChannel, inbox <- mInbox, outbox <- mOutbox, server <- mServer,
    reader <- mReader, noise <- mNoise, results <- mResults

orchestrationVars == vars
runtimeVars == <<rPc, rIteration, rMessages, rContext, rRunning, rResults, rLastCall,
                 rDuplicates, rLastRound, rStalled, rOutcome, rCancelled, rExecuted>>
eventsVars == <<eCalls, eCommands, eSub, ePassing, eRecorded, eTaken, eEvents, eApp,
                eRelay, eForwarder, eSteps, eMissed, eRun, eClient, eReceived, ePc, eAnswer,
                eSaved, eSent, eLate>>
mcpVars == <<mStdio, mStage, mGreeted, mNext, mCaller, mWriter, mPending, mChannel,
             mInbox, mOutbox, mServer, mReader, mNoise, mResults>>

(* What a part that does not take part holds.                               *)
orchestrationRests == Init /\ plan = (CHOOSE p \in Plans : TRUE)
runtimeRests == Runtime!Init
eventsRests == Events!Init
mcpRests == Mcp!Init /\ mStdio = TRUE

ASSUME EngineAssumption ==
    Runtime!RuntimeAssumption /\ Events!TurnEventsAssumption /\ Mcp!McpClientAssumption

EngineInit ==
    /\ part \in Parts
    /\ IF part = "orchestration" THEN Init ELSE orchestrationRests
    /\ IF part = "runtime" THEN Runtime!Init ELSE runtimeRests
    /\ IF part = "events" THEN Events!Init ELSE eventsRests
    /\ IF part = "mcp" THEN Mcp!Init ELSE mcpRests
OrchestrationStep == /\ part = "orchestration" /\ (Engine \/ Dropped \/ Cancel)
                     /\ UNCHANGED <<part, runtimeVars, eventsVars, mcpVars>>
RuntimeStep == /\ part = "runtime" /\ Runtime!Next
               /\ UNCHANGED <<part, orchestrationVars, eventsVars, mcpVars>>
EventsStep == /\ part = "events" /\ Events!Next
              /\ UNCHANGED <<part, orchestrationVars, runtimeVars, mcpVars>>
McpStep == /\ part = "mcp" /\ Mcp!Next
           /\ UNCHANGED <<part, orchestrationVars, runtimeVars, eventsVars>>
EngineNext == OrchestrationStep \/ RuntimeStep \/ EventsStep \/ McpStep
engineVars == <<part, orchestrationVars, runtimeVars, eventsVars, mcpVars>>

(* The fairness of the parts.                                                *)
Fairness ==
    /\ WF_orchestrationVars(part = "orchestration" /\ Engine)
    /\ WF_runtimeVars(part = "runtime" /\ Runtime!Step)
    /\ WF_eventsVars(part = "events" /\ Events!Pipeline)
    /\ \A c \in Caller : WF_mcpVars(part = "mcp" /\ Mcp!Proceed(c))
    /\ \A i \in 1 .. MaxCalls : WF_mcpVars(part = "mcp" /\ Mcp!Serve(i))
    /\ WF_mcpVars(part = "mcp" /\ Mcp!Read) /\ WF_mcpVars(part = "mcp" /\ Mcp!ReaderEnds)
EngineSpec == EngineInit /\ [][EngineNext]_engineVars /\ Fairness
------------------------------------------------------------------------------
(* A chat is answered when all its events have been sent, and complete only  *)
(* when it is stored: AnswerLast and CompleteIsStored of TurnEvents (chat.rs,*)
(* conversation_service.rs:299).                                             *)
AnswerSettles == part = "events" => Events!TypeOK /\ Events!AnswerLast /\ Events!CompleteIsStored

(* The logs of a sub-agent come before the end of its call, every step is    *)
(* stored and the chat is answered (TurnEvents; agent.rs:829,                *)
(* conversation_service.rs:363).                                             *)
EventsArrive == Events!LogsBeforeEnd /\ Events!StepsAreStored /\ Events!Answered

(* A call of an external tool returns the answer of its own request, and no  *)
(* server is asked before it was greeted (McpClient; transport.rs,           *)
(* client.rs).                                                               *)
OwnAnswer == part = "mcp" => Mcp!OwnAnswer /\ Mcp!GreetedFirst

(* A call of an external tool, a turn and an orchestration end.              *)
EachEnds ==
    /\ Mcp!CallsEnd
    /\ part = "runtime" => Runtime!TurnEnds
    /\ part = "orchestration" => Ends

(* The calls of a complete reply are answered one to one, those of a reply   *)
(* that was cut are followed by the question to go on and never executed,    *)
(* and the turn hands over what the model was sent and a result for every    *)
(* call it executed (AgentRuntime: ConversationWhole, HandsOver).            *)
ConversationWhole ==
    part = "runtime" => Runtime!TypeOK /\ Runtime!ConversationWhole /\ Runtime!HandsOver

(* The loop guard refuses the repeated calls and no other, and ends a turn   *)
(* that repeats itself (AgentRuntime: DuplicatesRejected, StallsEnd).        *)
GuardEnds == part = "runtime" => Runtime!DuplicatesRejected /\ Runtime!StallsEnd

(* Claims that the code does not keep; each is stated where its component is. *)
RefusedRepeats == part = "runtime" => Runtime!RefusedRepeats
AnsweredMeanwhile == Events!AnsweredMeanwhile
SubTurnSaved == Events!SubTurnSaved
==============================================================================
