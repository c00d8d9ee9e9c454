----------------------------- MODULE PushCenter -----------------------------
(***************************************************************************)
(* The gateway's PushCenter and the chat handler that feeds it.  Each       *)
(* message a connection receives is handled by a task of its own: it        *)
(* registers the peer, subscribes it to the session of the request and, for *)
(* a chat, runs a turn whose events a forwarder task sends to the requester *)
(* directly and to the other peers of the session by broadcast.  PushCenter *)
(* keeps three maps under three locks, and between two locks every other    *)
(* task may run.  A connection that closes unregisters its peer the same    *)
(* way, and so does a broadcast for a peer whose sink fails.                *)
(*                                                                         *)
(* Abstracted: a client that is connected takes what it is sent, so the     *)
(* queue of a connection never fills; the replies to requests other than    *)
(* chat; the tasks between the runtime and the channel of a turn's events,  *)
(* whose capacity counts in Room.                                           *)
(***************************************************************************)
EXTENDS Naturals, Sequences, FiniteSets

CONSTANTS Peer,        \* connections, each used once
          Session,     \* session ids
          NoSession,   \* stands for no previous session
          Request,     \* requests, each received once
          MaxInFlight, \* requests of one connection handled at a time
          MaxEvents,   \* bound: progress events of a turn
          Room,        \* capacity of the channel of a turn's events
          MayClose,    \* bound: the peers whose connection may close
          MayChat      \* bound: the requests that may be chats

ASSUME PushCenterAssumption ==
    /\ NoSession \notin Session
    /\ {MaxInFlight, MaxEvents, Room} \subseteq Nat
    /\ MayClose \subseteq Peer /\ MayChat \subseteq Request

(* The tasks: the handler of a request, the forwarder of its events, and    *)
(* what is left of a connection when its receive loop has ended.            *)
Handler(r)   == <<"handler", r>>
Forwarder(r) == <<"forwarder", r>>
Closer(p)    == <<"closer", p>>
Sender == {Handler(r) : r \in Request} \cup {Forwarder(r) : r \in Request}
Actor  == Sender \cup {Closer(p) : p \in Peer}

VARIABLES
    conn,      \* [Peer -> "new", "open" or "closed"]
    shut,      \* peers whose sink fails
    peers,     \* the keys of the map peers
    follows,   \* peer_sessions: [Peer -> Session or NoSession]
    audience,  \* session_peers: [Session -> SUBSET Peer]
    req,       \* [Request -> the request received]
    produced,  \* [Request -> Nat]: events the turn has produced
    queue,     \* [Request -> Seq(Nat)]: the channel to the forwarder
    task,      \* [Actor -> Task]: where the task is, and its local variables
    got,       \* history: [Peer -> [Request -> Seq(Nat)]], what a client was sent
    owed       \* history: <<p, r, n>>, p followed quietly when r produced n

maps == <<peers, follows, audience>>
turn == <<produced, queue>>
vars == <<conn, shut, maps, req, turn, task, got, owed>>

Kind == {"chat", "watch"}
NoRequest == [kind |-> "none"]
Complete == MaxEvents + 1      \* the number of chat.complete; chat.start is 0

Label == {"idle", "register", "bind", "leave", "join", "check", "turn", "emit",
          "await", "awaitError", "complete", "take", "direct", "audience", "sinks",
          "send", "drop", "unfollow", "evict", "done"}

(* event: the event being sent; targets: the peers still to send it to;     *)
(* stale: the peers whose sink failed; peer: the one being unregistered;    *)
(* leaves: the session it is being taken out of.                            *)
Task == [at : Label, event : Nat, targets : SUBSET Peer, stale : SUBSET Peer,
         peer : Peer \cup {"none"}, leaves : Session \cup {NoSession}]
Idle == [at |-> "idle", event |-> 0, targets |-> {}, stale |-> {},
         peer |-> "none", leaves |-> NoSession]

Init ==
    /\ conn = [p \in Peer |-> "new"]
    /\ shut = {}
    /\ peers = {}
    /\ follows = [p \in Peer |-> NoSession]
    /\ audience = [s \in Session |-> {}]
    /\ req = [r \in Request |-> NoRequest]
    /\ produced = [r \in Request |-> 0]
    /\ queue = [r \in Request |-> <<>>]
    /\ task = [a \in Actor |-> Idle]
    /\ got = [p \in Peer |-> [r \in Request |-> <<>>]]
    /\ owed = {}

(***************************************************************************)
(* Helpers.                                                                *)
(***************************************************************************)
Goto(a, l) == task' = [task EXCEPT ![a].at = l]
At(a, l) == task[a].at = l

(* The request of a handler or forwarder. *)
Of(a) == req[a[2]]

InFlight(p) == {r \in Request : /\ req[r] # NoRequest /\ req[r].peer = p
                                /\ ~At(Handler(r), "done")}

(* send_async on the sink of p.  What is sent after the connection closed   *)
(* still enters its queue, and is lost; the task that would pass it on then *)
(* ends, and the sink fails from then on.                                   *)
Delivers(p, r, n) ==
    /\ p \notin shut
    /\ \/ /\ conn[p] = "open"
          /\ got' = [got EXCEPT ![p][r] = Append(@, n)]
          /\ owed' = owed \ {<<p, r, n>>}
          /\ UNCHANGED shut
       \/ /\ conn[p] # "open"
          /\ shut' \in {shut, shut \cup {p}}
          /\ UNCHANGED <<got, owed>>

Fails(p) == p \in shut /\ UNCHANGED <<shut, got, owed>>

(* p receives what is broadcast to s, and none of its requests can change   *)
(* that.                                                                    *)
Follows(p, s) == /\ conn[p] = "open" /\ InFlight(p) = {}
                 /\ follows[p] = s /\ p \in audience[s] /\ p \in peers
-----------------------------------------------------------------------------
(***************************************************************************)
(* Connections and requests.                                               *)
(***************************************************************************)
Connect(p) ==
    /\ conn[p] = "new"
    /\ conn' = [conn EXCEPT ![p] = "open"]
    /\ UNCHANGED <<shut, maps, req, turn, task, got, owed>>

(* The receive loop ends; on_disconnect unregisters the peer. *)
Disconnect(p) ==
    /\ conn[p] = "open" /\ p \in MayClose
    /\ conn' = [conn EXCEPT ![p] = "closed"]
    /\ task' = [task EXCEPT ![Closer(p)].at = "drop", ![Closer(p)].stale = {p}]
    /\ owed' = {o \in owed : o[1] # p}
    /\ UNCHANGED <<shut, maps, req, turn, got>>

(* A request arrives and a task is spawned for it. *)
Receive(r) ==
    \E p \in Peer, s \in Session, k \in Kind :
        /\ At(Handler(r), "idle")
        /\ conn[p] = "open"
        /\ k = "chat" => r \in MayChat
        /\ Cardinality(InFlight(p)) < MaxInFlight
        /\ req' = [req EXCEPT ![r] = [peer |-> p, session |-> s, kind |-> k]]
        /\ Goto(Handler(r), "register")
        /\ owed' = {o \in owed : o[1] # p}
        /\ UNCHANGED <<conn, shut, maps, turn, got>>
-----------------------------------------------------------------------------
(***************************************************************************)
(* PushCenter: register and subscribe.                                     *)
(***************************************************************************)
Register(r) ==
    /\ At(Handler(r), "register")
    /\ peers' = peers \cup {req[r].peer}
    /\ Goto(Handler(r), "bind")
    /\ UNCHANGED <<conn, shut, follows, audience, req, turn, got, owed>>

(* After the subscription: a watch request reads and replies; a chat starts *)
(* the forwarder of its events.                                             *)
Subscribed(r) ==
    IF req[r].kind = "watch" THEN Goto(Handler(r), "done")
    ELSE task' = [task EXCEPT ![Handler(r)].at = "check", ![Forwarder(r)].at = "take"]

(* Insert into peer_sessions, which returns the previous session. *)
Bind(r) ==
    LET p == req[r].peer
        s == req[r].session IN
    /\ At(Handler(r), "bind")
    /\ follows' = [follows EXCEPT ![p] = s]
    /\ CASE follows[p] = s -> Subscribed(r)
         [] follows[p] = NoSession -> Goto(Handler(r), "join")
         [] OTHER -> task' = [task EXCEPT ![Handler(r)].at = "leave",
                                          ![Handler(r)].leaves = follows[p]]
    /\ UNCHANGED <<conn, shut, peers, audience, req, turn, got, owed>>

(* Mutant: the peer stays in the set of the session it leaves. *)
StaysInSession(p, s) == UNCHANGED audience

(* remove_peer_from_session: an empty set and no entry are the same here. *)
RemoveFromSession(p, s) == audience' = [audience EXCEPT ![s] = @ \ {p}]

Leave(r) ==
    /\ At(Handler(r), "leave")
    /\ RemoveFromSession(req[r].peer, task[Handler(r)].leaves)
    /\ task' = [task EXCEPT ![Handler(r)].at = "join", ![Handler(r)].leaves = NoSession]
    /\ UNCHANGED <<conn, shut, peers, follows, req, turn, got, owed>>

Join(r) ==
    /\ At(Handler(r), "join")
    /\ audience' = [audience EXCEPT ![req[r].session] = @ \cup {req[r].peer}]
    /\ Subscribed(r)
    /\ UNCHANGED <<conn, shut, peers, follows, req, turn, got, owed>>
-----------------------------------------------------------------------------
(***************************************************************************)
(* PushCenter: broadcast_to_session_except and unregister_peer.            *)
(***************************************************************************)
(* Where a broadcast returns to: the forwarder takes the next event, the    *)
(* handler has nothing left to do.                                          *)
Back(a) == IF a[1] = "forwarder" THEN "take" ELSE "done"

ReadAudience(a) ==
    LET targets == audience[Of(a).session] IN
    /\ At(a, "audience")
    /\ task' = [task EXCEPT ![a].at = IF targets = {} THEN Back(a) ELSE "sinks",
                            ![a].targets = targets]
    /\ UNCHANGED <<conn, shut, maps, req, turn, got, owed>>

(* Mutant: the requester is sent the event a second time. *)
RequesterToo(a) == task[a].targets \cap peers

(* The sinks of the registered ones, but never the requester's. *)
Recipients(a) == (task[a].targets \cap peers) \ {Of(a).peer}

ReadSinks(a) ==
    /\ At(a, "sinks")
    /\ task' = [task EXCEPT ![a].at = "send", ![a].targets = Recipients(a)]
    /\ UNCHANGED <<conn, shut, maps, req, turn, got, owed>>

SendOne(a) ==
    \E p \in task[a].targets :
        /\ At(a, "send")
        /\ \/ /\ Delivers(p, a[2], task[a].event)
              /\ task' = [task EXCEPT ![a].targets = @ \ {p}]
           \/ /\ Fails(p)
              /\ task' = [task EXCEPT ![a].targets = @ \ {p}, ![a].stale = @ \cup {p}]
        /\ UNCHANGED <<conn, maps, req, turn>>

AllSent(a) ==
    /\ At(a, "send") /\ task[a].targets = {}
    /\ Goto(a, IF task[a].stale = {} THEN Back(a) ELSE "drop")
    /\ UNCHANGED <<conn, shut, maps, req, turn, got, owed>>

(* unregister_peer of one of the stale peers: the three maps in turn. *)
Drop(a) ==
    \E p \in task[a].stale :
        /\ At(a, "drop")
        /\ peers' = peers \ {p}
        /\ task' = [task EXCEPT ![a].at = "unfollow", ![a].peer = p,
                                ![a].stale = @ \ {p}]
        /\ UNCHANGED <<conn, shut, follows, audience, req, turn, got, owed>>

(* The next stale peer, or back. *)
Unregistered(a) ==
    task' = [task EXCEPT ![a].at = IF task[a].stale # {} THEN "drop" ELSE Back(a),
                         ![a].peer = "none", ![a].leaves = NoSession]

Unfollow(a) ==
    LET p == task[a].peer IN
    /\ At(a, "unfollow")
    /\ follows' = [follows EXCEPT ![p] = NoSession]
    /\ IF follows[p] = NoSession THEN Unregistered(a)
       ELSE task' = [task EXCEPT ![a].at = "evict", ![a].leaves = follows[p]]
    /\ UNCHANGED <<conn, shut, peers, audience, req, turn, got, owed>>

Evict(a) ==
    /\ At(a, "evict")
    /\ RemoveFromSession(task[a].peer, task[a].leaves)
    /\ Unregistered(a)
    /\ UNCHANGED <<conn, shut, peers, follows, req, turn, got, owed>>
-----------------------------------------------------------------------------
(***************************************************************************)
(* handle_chat, after its subscription.                                    *)
(***************************************************************************)
(* The session is not found: an error to the requester, and no turn. *)
Refuse(r) ==
    /\ At(Handler(r), "check")
    /\ Goto(Handler(r), "done")
    /\ UNCHANGED <<conn, shut, maps, req, turn, got, owed>>

(* chat.start to the requester; whether it is delivered is not asked. *)
Start(r) ==
    /\ At(Handler(r), "check")
    /\ Delivers(req[r].peer, r, 0) \/ Fails(req[r].peer)
    /\ Goto(Handler(r), "turn")
    /\ UNCHANGED <<conn, maps, req, turn>>

(* Mutant: the turn waits for room although nobody will make any. *)
EnqueueWaits(r, n) ==
    /\ Len(queue[r]) < Room
    /\ queue' = [queue EXCEPT ![r] = Append(@, n)]

(* Mutant: the channel of events is not bounded. *)
EnqueueAnyway(r, n) == queue' = [queue EXCEPT ![r] = Append(@, n)]

(* The turn produces an event.  It waits for room, unless the forwarder has *)
(* given up: then the event is lost.                                        *)
Enqueue(r, n) ==
    IF At(Forwarder(r), "done") THEN UNCHANGED queue
    ELSE /\ Len(queue[r]) < Room
         /\ queue' = [queue EXCEPT ![r] = Append(@, n)]

Produce(r) ==
    LET n == produced[r] + 1 IN
    /\ At(Handler(r), "emit")
    /\ Goto(Handler(r), "turn")
    /\ Enqueue(r, n)
    /\ produced' = [produced EXCEPT ![r] = n]
    /\ owed' = owed \cup {<<p, r, n>> : p \in {q \in Peer : Follows(q, req[r].session)}}
    /\ UNCHANGED <<conn, shut, maps, req, got>>

(* The turn has something to report, and does nothing else until it has. *)
Emit(r) ==
    /\ At(Handler(r), "turn") /\ produced[r] < MaxEvents
    /\ Goto(Handler(r), "emit")
    /\ UNCHANGED <<conn, shut, maps, req, turn, got, owed>>

(* start_turn returns; the channel of events has no sender any more. *)
TurnEnds(r) ==
    /\ At(Handler(r), "turn")
    /\ \E l \in {"await", "awaitError"} : Goto(Handler(r), l)
    /\ UNCHANGED <<conn, shut, maps, req, turn, got, owed>>

(* The handler waits for its forwarder; after an error it tells only the    *)
(* requester.                                                               *)
Await(r) ==
    /\ task[Handler(r)].at \in {"await", "awaitError"}
    /\ At(Forwarder(r), "done")
    /\ Goto(Handler(r), IF At(Handler(r), "await") THEN "complete" ELSE "done")
    /\ UNCHANGED <<conn, shut, maps, req, turn, got, owed>>

(* chat.complete, to the requester and then to the others. *)
SendComplete(r) ==
    /\ At(Handler(r), "complete")
    /\ Delivers(req[r].peer, r, Complete) \/ Fails(req[r].peer)
    /\ task' = [task EXCEPT ![Handler(r)].at = "audience", ![Handler(r)].event = Complete]
    /\ UNCHANGED <<conn, maps, req, turn>>

(* The forwarder receives an event ... *)
Take(r) ==
    /\ At(Forwarder(r), "take") /\ queue[r] # <<>>
    /\ task' = [task EXCEPT ![Forwarder(r)].at = "direct", ![Forwarder(r)].event = Head(queue[r])]
    /\ queue' = [queue EXCEPT ![r] = Tail(@)]
    /\ UNCHANGED <<conn, shut, maps, req, produced, got, owed>>

(* Mutant: the forwarder stops with the turn, whatever is still queued. *)
FinishWithTurn(r) ==
    /\ At(Forwarder(r), "take")
    /\ task[Handler(r)].at \in {"await", "awaitError", "done"}
    /\ Goto(Forwarder(r), "done")
    /\ UNCHANGED <<conn, shut, maps, req, turn, got, owed>>

(* ... or learns that none will follow. *)
Finish(r) ==
    /\ At(Forwarder(r), "take") /\ queue[r] = <<>>
    /\ task[Handler(r)].at \in {"await", "awaitError", "done"}
    /\ Goto(Forwarder(r), "done")
    /\ UNCHANGED <<conn, shut, maps, req, turn, got, owed>>

(* What becomes of the channel when the forwarder gives up. *)
CloseChannel(r) == queue' = [queue EXCEPT ![r] = <<>>]

(* To the requester first: when its sink fails the forwarder gives up. *)
Direct(r) ==
    /\ At(Forwarder(r), "direct")
    /\ \/ /\ Delivers(req[r].peer, r, task[Forwarder(r)].event)
          /\ Goto(Forwarder(r), "audience")
          /\ UNCHANGED queue
       \/ /\ Fails(req[r].peer)
          /\ Goto(Forwarder(r), "done")
          /\ CloseChannel(r)
    /\ UNCHANGED <<conn, maps, req, produced>>
-----------------------------------------------------------------------------
Broadcast(a) ==
    ReadAudience(a) \/ ReadSinks(a) \/ SendOne(a) \/ AllSent(a)

Unregister(a) == Drop(a) \/ Unfollow(a) \/ Evict(a)

Subscribe(r) == Register(r) \/ Bind(r) \/ Leave(r) \/ Join(r)

Chat(r) == Start(r) \/ Refuse(r) \/ Emit(r) \/ Produce(r) \/ TurnEnds(r)
              \/ Await(r) \/ SendComplete(r)

Forward(r) == Take(r) \/ Direct(r) \/ Finish(r)

Next ==
    \/ \E p \in Peer : Connect(p) \/ Disconnect(p)
    \/ \E r \in Request : Receive(r) \/ Subscribe(r) \/ Chat(r) \/ Forward(r)
    \/ \E a \in Sender : Broadcast(a)
    \/ \E a \in Actor : Unregister(a)

Spec == Init /\ [][Next]_vars

(* A spawned task that can run does; TurnEnds: no turn lasts for ever.      *)
Fairness ==
    /\ \A r \in Request : /\ WF_vars(Subscribe(r)) /\ WF_vars(Start(r) \/ Refuse(r))
                          /\ WF_vars(TurnEnds(r)) /\ WF_vars(Produce(r)) /\ WF_vars(Await(r))
                          /\ WF_vars(SendComplete(r)) /\ WF_vars(Forward(r))
    /\ \A a \in Sender : WF_vars(Broadcast(a))
    /\ \A a \in Actor : WF_vars(Unregister(a))

LiveSpec == Spec /\ Fairness
-----------------------------------------------------------------------------
(***************************************************************************)
(* Properties.                                                             *)
(***************************************************************************)
(* Every variable has its type; a channel never holds more than Room.       *)
TypeOK ==
    /\ conn \in [Peer -> {"new", "open", "closed"}]
    /\ shut \subseteq {p \in Peer : conn[p] = "closed"}
    /\ peers \subseteq Peer
    /\ follows \in [Peer -> Session \cup {NoSession}]
    /\ audience \in [Session -> SUBSET Peer]
    /\ req \in [Request -> {NoRequest} \cup [peer : Peer, session : Session, kind : Kind]]
    /\ produced \in [Request -> 0 .. MaxEvents]
    /\ DOMAIN queue = Request
    /\ \A r \in Request : queue[r] \in Seq(1 .. MaxEvents) /\ Len(queue[r]) <= Room
    /\ task \in [Actor -> Task]
    /\ \A p \in Peer, r \in Request : got[p][r] \in Seq(0 .. Complete)
    /\ owed \subseteq Peer \X Request \X (1 .. MaxEvents)

Settled(r) == At(Handler(r), "done") /\ task[Forwarder(r)].at \in {"idle", "done"}

(* No client sees the events of a chat out of order or twice, whether it    *)
(* asked for the chat, watches the session or changes sessions meanwhile:   *)
(* chat.start, then progress, then chat.complete.                           *)
OrderedOnce ==
    \A p \in Peer, r \in Request :
        \A i, j \in DOMAIN got[p][r] : i < j => got[p][r][i] < got[p][r][j]

(* A client that quietly follows a session is sent every event of a chat    *)
(* there, unless the connection that asked for the chat has closed.         *)
WatchersKeepUp ==
    \A o \in owed : Settled(o[2]) => conn[req[o[2]].peer] = "closed"

(* When a client waits for the answer to a request before it sends the      *)
(* next, the two maps of PushCenter agree about its peer between requests:  *)
(* it is in the audience of the session it follows and in no other.         *)
MapsAgree ==
    \A p \in Peer : conn[p] = "open" /\ InFlight(p) = {} =>
        \A s \in Session : p \in audience[s] <=> follows[p] = s

(* A chat that was asked for ends, and so does its forwarder, when nothing  *)
(* but a closed connection stands in the way.                               *)
ChatsEnd == \A r \in Request : (req[r] # NoRequest) ~> Settled(r)

(* The plan of PushCenter: after a refresh, the new connection that         *)
(* subscribes to the session goes on receiving the events.                  *)
RefreshKeepsUp == \A o \in owed : ~Settled(o[2])
=============================================================================
