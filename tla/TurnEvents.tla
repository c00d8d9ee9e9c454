----------------------------- MODULE TurnEvents -----------------------------
(***************************************************************************)
(* How the events of one turn reach the client.  The runtime and the tool   *)
(* calls it starts write into a bounded channel; a recorder stores the      *)
(* steps of the run and passes the events on to a relay of the application, *)
(* it to the forwarder of handle_chat, it to the client.  A channel is      *)
(* closed when the last task that can write to it has let go of it: a       *)
(* background command keeps its end until it exits, and a sub-agent has a   *)
(* channel of its own that a task empties into that of its parent.          *)
(***************************************************************************)
EXTENDS Naturals, Sequences, FiniteSets

CONSTANTS Plain,    \* tool calls that just run
          Shell,    \* Bash calls with run_in_background
          Agent,    \* calls that run a sub-agent, which may start a command too
          Fallible, \* bound: calls whose steps' statements may fail (any in the code)
          Capacity  \* bound: events a channel holds (100 in the code)

TurnEventsAssumption == Capacity \in Nat \ {0}

Call  == Plain \cup Shell \cup Agent
Event == {"start", "end", "log", "exit"} \X Call
App   == {<<"turn_complete">>, <<"token_usage">>}
NoEvent == <<>>
NoCall == "none"

VARIABLES
    calls,    \* [Call -> "idle", "running", "waiting" (a sub-agent's turn is
              \*  over and its events are not passed on yet), "ended"]
    commands, \* background commands that run; their owner is the call
    sub,      \* [Agent -> events in the sub-agent's channel]
    passing,  \* sub-agents whose forwarding task runs
    recorded, \* recorded_tx
    taken,    \* event the recorder has stored and not passed on
    events,   \* agent_event_tx
    app,      \* event_tx of handle_chat
    relay, forwarder,  \* the tasks run
    steps,    \* run_steps: [Call -> "none", "running", "finished"]
    missed,   \* history: calls a statement about whose step failed
    run,      \* runs: the turn's status
    client,   \* reads what it is sent
    received, \* by the client
    pc,       \* handle_chat: "turn", "tell" what start_turn sends, "usage",
              \* "join", "done"
    answer,   \* what handle_chat answered
    saved,    \* sub-agents whose messages are stored
    sent,     \* history: events written by the runtime and its calls
    late      \* history: the client got an event after the answer
channels == <<sub, recorded, taken, events, app>>
tasks    == <<passing, relay, forwarder>>
stored   == <<steps, missed, run, saved>>
vars == <<calls, commands, channels, tasks, stored, client, received, pc, answer, sent, late>>

Init ==
    /\ calls = [c \in Call |-> "idle"] /\ commands = {}
    /\ sub = [a \in Agent |-> <<>>] /\ passing = {}
    /\ recorded = <<>> /\ taken = NoEvent /\ events = <<>> /\ app = <<>>
    /\ relay = TRUE /\ forwarder = TRUE
    /\ steps = [c \in Call |-> "none"] /\ missed = {} /\ run = "running" /\ saved = {}
    /\ client = TRUE /\ received = {}
    /\ pc = "turn" /\ answer = "none"
    /\ sent = {} /\ late = FALSE

(* A mutant: channels have no bound.                                       *)
RoomAlways(channel) == TRUE
Room(channel) == Len(channel) < Capacity
Write(e) == Room(recorded) /\ recorded' = Append(recorded, e) /\ sent' = sent \cup {e}

(* Who can still write to a channel.                                        *)
SubOpen(a)   == calls[a] = "running" \/ a \in commands
RunOpen      == pc = "turn" \/ commands \cap Shell # {} \/ passing # {}
RecorderEnds == ~RunOpen /\ recorded = <<>> /\ taken = NoEvent
(* A mutant: handle_chat keeps a sender of its own.                         *)
AppHeld == relay \/ pc # "done"
AppOpen == relay \/ pc \in {"turn", "tell", "usage"}

-----------------------------------------------------------------------------
(* execute_tool_calls: a call tells that it starts, runs, and tells how it  *)
(* ended; a background command outlives its call.                           *)
Start(c) ==
    /\ pc = "turn" /\ calls[c] = "idle" /\ Write(<<"start", c>>)
    /\ calls' = [calls EXCEPT ![c] = "running"]
    /\ passing' = passing \cup ({c} \cap Agent)
    /\ UNCHANGED <<commands, sub, taken, events, app, relay, forwarder, stored, client, received, pc, answer, late>>
Spawn(c) ==
    /\ calls[c] = "running" /\ c \notin Plain \cup commands /\ <<"exit", c>> \notin sent
    /\ commands' = commands \cup {c}
    /\ UNCHANGED <<calls, channels, tasks, stored, client, received, pc, answer, sent, late>>
End(c) ==
    /\ c \notin Agent /\ calls[c] = "running" /\ Write(<<"end", c>>)
    /\ calls' = [calls EXCEPT ![c] = "ended"]
    /\ UNCHANGED <<commands, sub, taken, events, app, tasks, stored, client, received, pc, answer, late>>
(* The command exits and says so, to the channel of whoever ran it.         *)
Exit(c) ==
    /\ c \in commands /\ commands' = commands \ {c}
    /\ IF c \in Agent THEN UNCHANGED <<recorded, sent>> ELSE Write(<<"exit", c>>)
    /\ UNCHANGED <<calls, sub, taken, events, app, tasks, stored, client, received, pc, answer, late>>

(* run_subagent: the sub-agent's events are passed on as logs; its call     *)
(* ends when its turn is over, they all are and its messages are stored.    *)
Say(a) ==
    /\ calls[a] = "running" /\ sub[a] = <<>> /\ <<"log", a>> \notin sent
    /\ sub' = [sub EXCEPT ![a] = Append(@, <<"log", a>>)]
    /\ UNCHANGED <<calls, commands, recorded, taken, events, app, tasks, stored, client, received, pc, answer, sent, late>>
PassOn(a) ==
    /\ a \in passing /\ sub[a] # <<>> /\ Write(Head(sub[a]))
    /\ sub' = [sub EXCEPT ![a] = Tail(@)]
    /\ UNCHANGED <<calls, commands, taken, events, app, tasks, stored, client, received, pc, answer, late>>
PassedOn(a) ==
    /\ a \in passing /\ sub[a] = <<>> /\ ~SubOpen(a)
    /\ passing' = passing \ {a}
    /\ UNCHANGED <<calls, commands, channels, relay, forwarder, stored, client, received, pc, answer, sent, late>>
SubTurnEnds(a) ==
    /\ calls[a] = "running" /\ calls' = [calls EXCEPT ![a] = "waiting"]
    /\ UNCHANGED <<commands, channels, tasks, stored, client, received, pc, answer, sent, late>>
(* A mutant: the forwarding task is not waited for.                        *)
SubReturnsAtOnce(a) ==
    /\ calls[a] = "waiting" /\ Write(<<"end", a>>)
    /\ saved' = saved \cup {a}
    /\ calls' = [calls EXCEPT ![a] = "ended"]
    /\ UNCHANGED <<commands, sub, taken, events, app, tasks, steps, missed, run, client, received, pc, answer, late>>
SubReturns(a) ==
    /\ calls[a] = "waiting" /\ a \notin passing /\ Write(<<"end", a>>)
    /\ saved' = saved \cup {a}
    /\ calls' = [calls EXCEPT ![a] = "ended"]
    /\ UNCHANGED <<commands, sub, taken, events, app, tasks, steps, missed, run, client, received, pc, answer, late>>
(* The tool timeout drops the call wherever it is.                          *)
Timeout(a) ==
    /\ calls[a] \in {"running", "waiting"} /\ Write(<<"end", a>>)
    /\ calls' = [calls EXCEPT ![a] = "ended"]
    /\ UNCHANGED <<commands, sub, taken, events, app, tasks, stored, client, received, pc, answer, late>>

(* The turn is over when no call runs: the run's status is stored and       *)
(* start_turn returns, or fails with an error of the runtime.               *)
TurnEnds(status) ==
    /\ pc = "turn" /\ \A c \in Call : calls[c] \in {"idle", "ended"}
    /\ run' = status
    /\ pc' = IF status = "success" THEN "tell" ELSE "join"
    /\ UNCHANGED <<calls, commands, channels, tasks, steps, missed, saved, client, received, answer, sent, late>>

-----------------------------------------------------------------------------
(* The recorder stores the step an event is about, then passes it on; that  *)
(* a statement fails or that nobody takes the event does not stop it.       *)
CreateStep(c) == [steps EXCEPT ![c] = "running"]
(* The end of a step that was not created is the end of none.              *)
UpdateStep(c) == [steps EXCEPT ![c] = IF @ = "none" THEN "none" ELSE "finished"]
Take ==
    /\ taken = NoEvent /\ recorded # <<>>
    /\ taken' = Head(recorded) /\ recorded' = Tail(recorded)
    /\ LET c == Head(recorded)[2]
       IN  \/ /\ steps' = CASE Head(recorded)[1] = "start" -> CreateStep(c)
                             [] Head(recorded)[1] = "end"   -> UpdateStep(c)
                             [] OTHER                       -> steps
              /\ UNCHANGED missed
           \/ /\ Head(recorded)[1] \in {"start", "end"} /\ c \in Fallible
              /\ missed' = missed \cup {c} /\ UNCHANGED steps
    /\ UNCHANGED <<calls, commands, sub, events, app, tasks, run, saved, client, received, pc, answer, sent, late>>
(* A mutant: it waits for a relay that is gone.                            *)
PassToRelay ==
    /\ taken # NoEvent /\ taken' = NoEvent
    /\ relay /\ Room(events) /\ events' = Append(events, taken)
    /\ UNCHANGED <<calls, commands, sub, recorded, app, tasks, stored, client, received, pc, answer, sent, late>>
Pass ==
    /\ taken # NoEvent /\ taken' = NoEvent
    /\ IF relay THEN Room(events) /\ events' = Append(events, taken) ELSE UNCHANGED events
    /\ UNCHANGED <<calls, commands, sub, recorded, app, tasks, stored, client, received, pc, answer, sent, late>>

(* The relay of AgentApplicationImpl::start_turn.                           *)
(* A mutant: an event that finds no room is dropped.                       *)
RelayTries ==
    /\ relay /\ events # <<>> /\ forwarder
    /\ events' = Tail(events)
    /\ app' = IF Room(app) THEN Append(app, Head(events)) ELSE app
    /\ UNCHANGED <<calls, commands, sub, recorded, taken, tasks, stored, client, received, pc, answer, sent, late>>
Relay ==
    /\ relay /\ events # <<>> /\ forwarder /\ Room(app)
    /\ app' = Append(app, Head(events)) /\ events' = Tail(events)
    /\ UNCHANGED <<calls, commands, sub, recorded, taken, tasks, stored, client, received, pc, answer, sent, late>>
RelayEnds ==
    /\ relay /\ IF events = <<>> THEN RecorderEnds ELSE ~forwarder
    /\ relay' = FALSE /\ events' = <<>>
    /\ UNCHANGED <<calls, commands, sub, recorded, taken, app, passing, forwarder, stored, client, received, pc, answer, sent, late>>

(* app_event_to_gateway: what the client is sent of an event; that of an    *)
(* exited command is a line of a log that names no call.                    *)
Wire(e) == CASE e[1] = "start" -> <<"tool_start", e[2]>>
             [] e[1] = "end"   -> <<"tool_result", e[2]>>
             [] e[1] = "log"   -> <<"tool_log", e[2]>>
             [] e[1] = "exit"  -> <<"tool_log", NoCall>>
             [] OTHER          -> e
(* The forwarder of handle_chat: to the connection of the request, until it *)
(* is gone.                                                                 *)
Forward ==
    /\ forwarder /\ app # <<>> /\ app' = Tail(app)
    /\ forwarder' = client
    /\ received' = IF client THEN received \cup {Wire(Head(app))} ELSE received
    /\ late' = (late \/ (client /\ answer # "none"))
    /\ UNCHANGED <<calls, commands, sub, recorded, taken, events, passing, relay, stored, client, pc, answer, sent>>
ForwarderEnds ==
    /\ forwarder /\ app = <<>> /\ ~AppOpen
    /\ forwarder' = FALSE
    /\ UNCHANGED <<calls, commands, channels, passing, relay, stored, client, received, pc, answer, sent, late>>
Disconnect ==
    /\ client /\ client' = FALSE
    /\ UNCHANGED <<calls, commands, channels, tasks, stored, received, pc, answer, sent, late>>

(* What start_turn itself sends when the turn is over goes into the         *)
(* forwarder's channel directly, past the relay.                            *)
Tell ==
    /\ pc \in {"tell", "usage"} /\ (forwarder => Room(app))
    /\ app' = IF forwarder THEN Append(app, IF pc = "tell" THEN <<"turn_complete">> ELSE <<"token_usage">>) ELSE app
    /\ pc' = IF pc = "tell" THEN "usage" ELSE "join"
    /\ UNCHANGED <<calls, commands, sub, recorded, taken, events, tasks, stored, client, received, answer, sent, late>>
(* handle_chat waits for the forwarder and answers.                         *)
(* A mutant: it does not wait.                                             *)
AnswerAtOnce ==
    /\ pc = "join" /\ pc' = "done"
    /\ answer' = IF ~client THEN "lost" ELSE IF run = "success" THEN "complete" ELSE "error"
    /\ UNCHANGED <<calls, commands, channels, tasks, stored, client, received, sent, late>>
Answer ==
    /\ pc = "join" /\ ~forwarder /\ pc' = "done"
    /\ answer' = IF ~client THEN "lost" ELSE IF run = "success" THEN "complete" ELSE "error"
    /\ UNCHANGED <<calls, commands, channels, tasks, stored, client, received, sent, late>>

-----------------------------------------------------------------------------
Pipeline == \/ Take \/ Pass \/ Relay \/ RelayEnds \/ Forward \/ ForwarderEnds \/ Tell \/ Answer
            \/ \E a \in Agent : PassOn(a) \/ PassedOn(a)
Next ==
    \/ Take \/ Pass \/ Relay \/ RelayEnds \/ Forward \/ ForwarderEnds \/ Tell \/ Answer
    \/ \E c \in Call : Start(c) \/ Spawn(c) \/ End(c) \/ Exit(c)
    \/ \E a \in Agent : \/ Say(a) \/ PassOn(a) \/ PassedOn(a)
                        \/ SubTurnEnds(a) \/ SubReturns(a) \/ Timeout(a)
    \/ \E status \in {"success", "failed"} : TurnEnds(status)
    \/ Disconnect
(* Tasks that can go on do; nothing makes a command exit.                   *)
Spec == Init /\ [][Next]_vars /\ WF_vars(Pipeline)
-----------------------------------------------------------------------------
TypeOK ==
    /\ calls \in [Call -> {"idle", "running", "waiting", "ended"}]
    /\ commands \subseteq Shell \cup Agent
    /\ \A q \in {recorded, events, app} : Len(q) <= Capacity
    /\ steps \in [Call -> {"none", "running", "finished"}]
    /\ missed \subseteq Call /\ saved \subseteq Agent

(* The answer is the last thing the client gets of a turn, and by then it   *)
(* has got every event of it (chat.rs:117).                                 *)
AnswerLast ==
    /\ ~late
    /\ answer \in {"complete", "error"} => {Wire(e) : e \in sent} \subseteq received

(* A client that was told that the turn is complete finds the run and each  *)
(* of its steps finished in the database (conversation_service.rs:299), but *)
(* for a step whose own statement failed: nobody is told that one did       *)
(* (lines 302 and 319).                                                     *)
CompleteIsStored ==
    answer = "complete" =>
        run = "success" /\ \A c \in Call \ missed : calls[c] = "ended" => steps[c] = "finished"

(* The logs of a sub-agent come before the end of its call, unless the call *)
(* timed out (agent.rs:829).                                                *)
LogsBeforeEnd ==
    [][\A a \in saved : <<"log", a>> \in sent' => <<"log", a>> \in sent]_vars

(* Every step is stored unless its own statement fails, whether or not      *)
(* somebody listens (conversation_service.rs:363).                          *)
StepsAreStored ==
    pc = "done" /\ commands = {} ~> \A c \in Call \ missed : calls[c] = "ended" => steps[c] = "finished"

(* A chat is answered when its turn is over and no command is left running. *)
Answered == pc = "join" /\ commands = {} ~> pc = "done"

(* What tool/builtin/bash/mod.rs:131 says of run_in_background: the call    *)
(* returns immediately; the chat then does not wait for the command.        *)
AnsweredMeanwhile == pc = "join" ~> pc = "done"

(* What tool/builtin/agent.rs:832 says: after the sub-agent's turn its      *)
(* messages are stored.                                                     *)
SubTurnSaved ==
    [][\A a \in Agent : calls[a] = "waiting" /\ calls'[a] = "ended" => a \in saved']_vars
=============================================================================
