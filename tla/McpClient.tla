------------------------------ MODULE McpClient ------------------------------
(***************************************************************************)
(* The client of one MCP server: it starts the server, greets it, sends the *)
(* requests of several callers over one transport and closes it; one reader task gives each answer to the caller whose id it   *)
(* carries.  The server, outside of the program, answers in any order, may  *)
(* answer twice, with an error or to nobody, and may end.  Over a pipe a failing write is   *)
(* an error, over a WebSocket it is ignored.                                *)
(***************************************************************************)
EXTENDS Naturals, Sequences, FiniteSets

CONSTANTS Caller,   \* tasks that call tools
          MaxCalls, \* bound: requests
          MaxNoise  \* bound: answers nobody waits for

McpClientAssumption == {MaxCalls, MaxNoise} \subseteq Nat /\ "nobody" \notin Caller

Ids == 1 .. MaxCalls
NoId == 0

VARIABLES
    stdio,     \* the transport is a pipe
    stage,     \* of the client: "connecting", "greeting", "ready", "failed", "closed"
    greeted,   \* history: the server has been sent "initialized"
    next,      \* COUNTER
    caller,    \* [Caller -> [pc, id]]: "idle", "registered", "waits"
    writer,    \* holder of the writer's lock, or NoCaller
    pending,   \* [Caller's request id -> the request whose sender waits for it]
    channel,   \* oneshot: ids whose answer was sent to the caller
    inbox,     \* requests the server has
    outbox,    \* answers on their way, <<id, of>>: the id carried, the request answered
    server,    \* "runs", "ended"
    reader,    \* "runs", "ended"
    noise,     \* answers without a request
    results    \* history: <<request, how it ended, the request the answer was made for>>
vars == <<stdio, stage, greeted, next, caller, writer, pending, channel, inbox, outbox, server, reader, noise, results>>

NoCaller == "nobody"
Idle == [pc |-> "idle", id |-> NoId]

Init ==
    /\ stdio \in BOOLEAN /\ stage = "connecting" /\ greeted = FALSE
    /\ next = 1
    /\ caller = [c \in Caller |-> Idle] /\ writer = NoCaller
    /\ pending = {} /\ channel = {} /\ inbox = {} /\ outbox = <<>>
    /\ server = "runs" /\ reader = "runs" /\ noise = 0 /\ results = {}

(* A request is sent by call once the client is ready, and before that one  *)
(* is sent by connect: "initialize".                                        *)
MaySend == stage = "ready" \/ (stage = "connecting" /\ next = 1)
(* send: the request is entered into pending, under the lock of the map.    *)
Enter(id) == pending' = pending \cup {id}
(* list_tools and call_tool: a request with a fresh id.                     *)
Register(c) ==
    /\ caller[c].pc = "idle" /\ MaySend /\ next <= MaxCalls
    /\ next' = next + 1
    /\ Enter(next)
    /\ caller' = [caller EXCEPT ![c] = [pc |-> "registered", id |-> next]]
    /\ UNCHANGED <<stdio, stage, greeted, writer, channel, inbox, outbox, server, reader, noise, results>>

(* The line is written under the writer's lock, in two polls.               *)
Lock(c) ==
    /\ caller[c].pc = "registered" /\ writer = NoCaller
    /\ writer' = c
    /\ UNCHANGED <<stdio, stage, greeted, next, caller, pending, channel, inbox, outbox, server, reader, noise, results>>
(* A mutant: the lock is not given back.                                    *)
WrittenKeepsLock(c) ==
    /\ writer = c /\ caller[c].pc = "registered" /\ server = "runs"
    /\ inbox' = inbox \cup {caller[c].id}
    /\ caller' = [caller EXCEPT ![c].pc = "waits"]
    /\ UNCHANGED <<stdio, stage, greeted, next, writer, pending, channel, outbox, server, reader, noise, results>>
Written(c) ==
    /\ writer = c /\ caller[c].pc = "registered" /\ server = "runs"
    /\ writer' = NoCaller
    /\ inbox' = inbox \cup {caller[c].id}
    /\ caller' = [caller EXCEPT ![c].pc = "waits"]
    /\ UNCHANGED <<stdio, stage, greeted, next, pending, channel, outbox, server, reader, noise, results>>
(* A client that cannot greet its server is not made.                       *)
Disappoint == stage' = IF stage \in {"connecting", "greeting"} THEN "failed" ELSE stage
(* A write to a server that has ended: an error over a pipe, which leaves   *)
(* the entry, and nothing over a WebSocket.                                 *)
WriteFails(c) ==
    /\ writer = c /\ caller[c].pc = "registered" /\ server = "ended"
    /\ writer' = NoCaller
    /\ IF stdio
       THEN /\ caller' = [caller EXCEPT ![c] = Idle]
            /\ results' = results \cup {<<caller[c].id, "failed", NoId>>}
            /\ Disappoint
       ELSE /\ caller' = [caller EXCEPT ![c].pc = "waits"]
            /\ UNCHANGED <<results, stage>>
    /\ UNCHANGED <<stdio, greeted, next, pending, channel, inbox, outbox, server, reader, noise>>

(* rx.await: the answer has come, with a result or with an error.           *)
Answers(id) == {a \in channel : a[1] = id}
Receive(c, how) ==
    /\ caller[c].pc = "waits"
    /\ \E a \in Answers(caller[c].id) : results' = results \cup {<<caller[c].id, how, a[2]>>}
    /\ channel' = channel \ Answers(caller[c].id)
    /\ UNCHANGED <<stdio, greeted, next, writer, pending, inbox, outbox, server, reader, noise>>
(* After the answer to "initialize" the same caller sends "initialized".    *)
Return(c) ==
    /\ Receive(c, "answered")
    /\ IF stage = "connecting"
       THEN stage' = "greeting" /\ caller' = [caller EXCEPT ![c] = [pc |-> "greets", id |-> NoId]]
       ELSE UNCHANGED stage /\ caller' = [caller EXCEPT ![c] = Idle]
Refuse(c) ==
    /\ Receive(c, "refused")
    /\ Disappoint /\ caller' = [caller EXCEPT ![c] = Idle]
(* notify, under the writer's lock; nobody answers it.                      *)
Notify(c) ==
    /\ caller[c].pc = "greets" /\ writer = NoCaller
    /\ greeted' = (server = "runs")
    /\ IF stdio /\ server = "ended" THEN Disappoint ELSE stage' = "ready"
    /\ caller' = [caller EXCEPT ![c] = Idle]
    /\ UNCHANGED <<stdio, next, writer, pending, channel, inbox, outbox, server, reader, noise, results>>
(* The future of a waiting call is dropped, by a timeout or a stop: its     *)
(* entry stays.  (A call dropped in the middle of a write is not modelled.) *)
Drop(c) ==
    /\ caller[c].pc = "waits"
    /\ caller' = [caller EXCEPT ![c] = Idle]
    /\ channel' = channel \ Answers(caller[c].id)
    /\ results' = results \cup {<<caller[c].id, "dropped", NoId>>}
    /\ Disappoint
    /\ UNCHANGED <<stdio, greeted, next, writer, pending, inbox, outbox, server, reader, noise>>
(* close takes the client, so no call is under way: the child is killed, or *)
(* the socket is closed.                                                    *)
Close ==
    /\ stage = "ready" /\ \A c \in Caller : caller[c].pc = "idle"
    /\ stage' = "closed" /\ server' = "ended"
    /\ UNCHANGED <<stdio, greeted, next, caller, writer, pending, channel, inbox, outbox, reader, noise, results>>

(* The server.                                                              *)
Serve(id) ==
    /\ server = "runs" /\ id \in inbox
    /\ inbox' = inbox \ {id} /\ outbox' = Append(outbox, <<id, id>>)
    /\ UNCHANGED <<stdio, stage, greeted, next, caller, writer, pending, channel, server, reader, noise, results>>
Repeat(id) ==
    /\ server = "runs" /\ noise < MaxNoise /\ id < next /\ id \notin inbox
    /\ \E r \in results : r[1] = id
    /\ noise' = noise + 1 /\ outbox' = Append(outbox, <<id, id>>)
    /\ UNCHANGED <<stdio, stage, greeted, next, caller, writer, pending, channel, inbox, server, reader, results>>
ServerEnds ==
    /\ server = "runs" /\ server' = "ended"
    /\ UNCHANGED <<stdio, stage, greeted, next, caller, writer, pending, channel, inbox, outbox, reader, noise, results>>

(* The reader loop: an answer goes to the caller that waits for its id and  *)
(* nowhere else; at the end of the output the loop ends.                    *)
(* A mutant: the answer goes to the oldest request.                         *)
AddresseeOldest(id) == {i \in pending : \A j \in pending : i <= j}
Addressee(id) == pending \cap {id}
(* The receiver of the channel of a dropped call is gone.                   *)
Listening(id) == \E c \in Caller : caller[c].id = id
Read ==
    /\ reader = "runs" /\ outbox # <<>>
    /\ LET to == Addressee(outbox[1][1])
       IN /\ pending' = pending \ to
          /\ channel' = channel \cup {<<id, outbox[1][2]>> : id \in {i \in to : Listening(i)}}
    /\ outbox' = Tail(outbox)
    /\ UNCHANGED <<stdio, stage, greeted, next, caller, writer, inbox, server, reader, noise, results>>
ReaderEnds ==
    /\ reader = "runs" /\ server = "ended" /\ outbox = <<>>
    /\ reader' = "ended"
    /\ UNCHANGED <<stdio, stage, greeted, next, caller, writer, pending, channel, inbox, outbox, server, noise, results>>

Next ==
    \/ \E c \in Caller : Register(c) \/ Lock(c) \/ Written(c) \/ WriteFails(c) \/ Return(c) \/ Refuse(c)
                       \/ Notify(c) \/ Drop(c)
    \/ \E id \in Ids : Serve(id) \/ Repeat(id)
    \/ Close \/ ServerEnds \/ Read \/ ReaderEnds
Proceed(c) == Lock(c) \/ Written(c) \/ WriteFails(c) \/ Return(c) \/ Refuse(c) \/ Notify(c)
(* The tasks of the runtime go on, and a server that runs answers.          *)
Fairness ==
    /\ \A c \in Caller : WF_vars(Proceed(c))
    /\ \A id \in Ids : WF_vars(Serve(id))
    /\ WF_vars(Read) /\ WF_vars(ReaderEnds)
Spec == Init /\ [][Next]_vars /\ Fairness

-----------------------------------------------------------------------------
(* Whatever the order of the answers, and with answers that come twice or   *)
(* after their caller has gone: a call that returns has the answer of its   *)
(* own request (reader loop of transport.rs and the counter of client.rs).  *)
OwnAnswer == \A r \in results : r[2] \in {"answered", "refused"} => r[1] = r[3]

(* The server is sent no other request before it was greeted, and none of   *)
(* a client that could not greet it (initialize in client.rs).              *)
GreetedFirst == (\E id \in inbox : id # 1) => greeted /\ stage \in {"ready", "closed"}

(* While the server runs every call ends, though the writer is shared and   *)
(* answers are out of order.                                                *)
CallsEnd == \A c \in Caller :
    (caller[c].pc # "idle") ~> (caller[c].pc = "idle" \/ server = "ended")
=============================================================================
