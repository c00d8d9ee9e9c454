-------------------------- MODULE PushCenterProofs --------------------------
(***************************************************************************)
(* Proofs about PushCenter: types, the order in which a client sees the     *)
(* events of a chat, and what a client that quietly watches is sent.        *)
(***************************************************************************)
EXTENDS PushCenter, SequenceTheorems, TLAPS

H(r) == task[Handler(r)]
F(r) == task[Forwarder(r)]

(***************************************************************************)
(* Types.                                                                  *)
(***************************************************************************)
Dropping       == {"drop", "unfollow", "evict"}
Sending        == {"audience", "sinks", "send"} \cup Dropping
Chatting       == {"check", "turn", "emit", "await", "awaitError", "complete"} \cup Sending
HandlerLabel   == {"idle", "register", "bind", "leave", "join", "done"} \cup Chatting
ForwarderLabel == {"idle", "take", "direct", "done"} \cup Sending
CloserLabel    == {"idle", "done"} \cup Dropping

(* Who has been connected. *)
Known == {p \in Peer : conn[p] # "new"}

(* The request of a task that has begun, the rooms of its local variables.  *)
TaskFits(a) ==
    /\ task[a].targets \cup task[a].stale \subseteq Known
    /\ task[a].at \in {"unfollow", "evict"} => task[a].peer \in Peer
    /\ task[a].at \in {"leave", "evict"} => task[a].leaves \in Session

RequestFits(r) ==
    /\ H(r).at \in HandlerLabel /\ F(r).at \in ForwarderLabel
    /\ H(r).at # "idle" => req[r] # NoRequest /\ req[r].peer \in Known
    /\ F(r).at # "idle" => H(r).at \in Chatting \cup {"done"}
    /\ H(r).at = "emit" => produced[r] < MaxEvents
    /\ H(r).event \in {0, Complete} /\ F(r).event <= MaxEvents

Fits ==
    /\ \A a \in Actor : TaskFits(a)
    /\ \A r \in Request : RequestFits(r)
    /\ \A p \in Peer : task[Closer(p)].at \in CloserLabel

StoreOK ==
    /\ conn \in [Peer -> {"new", "open", "closed"}]
    /\ shut \subseteq {p \in Peer : conn[p] = "closed"}
    /\ peers \subseteq Known
    /\ follows \in [Peer -> Session \cup {NoSession}]
    /\ audience \in [Session -> SUBSET Known]
    /\ req \in [Request -> {NoRequest} \cup [peer : Peer, session : Session, kind : Kind]]
    /\ produced \in [Request -> 0 .. MaxEvents]
    /\ queue \in [Request -> Seq(1 .. MaxEvents)]
    /\ \A r \in Request : Len(queue[r]) <= Room
    /\ got \in [Peer -> [Request -> Seq(0 .. Complete)]]
    /\ owed \subseteq Peer \X Request \X (1 .. MaxEvents)

TypeInv == StoreOK /\ task \in [Actor -> Task] /\ Fits

(***************************************************************************)
(* Order.                                                                  *)
(***************************************************************************)
(* Who may still be sent the event that task a holds. *)
Unsent(a) ==
    CASE task[a].at = "direct" -> Peer
      [] task[a].at \in {"audience", "sinks"} -> Peer \ {Of(a).peer}
      [] task[a].at = "send" -> task[a].targets
      [] OTHER -> {}

(* The greatest number sent so far. *)
Top(r) == IF H(r).event = Complete THEN Complete ELSE F(r).event

Early == {"idle", "register", "bind", "leave", "join", "check"}

(* The turn, its channel and its forwarder are in step. *)
InStep(r) ==
    /\ H(r).at \in Early =>
          /\ F(r).event = 0 /\ produced[r] = 0 /\ H(r).event = 0
          /\ F(r).at = IF H(r).at = "check" THEN "take" ELSE "idle"
          /\ \A p \in Peer : got[p][r] = <<>>
    /\ H(r).at \in {"turn", "emit", "await", "awaitError", "complete"} =>
          H(r).event = 0 /\ F(r).at # "idle"
    /\ H(r).at \in Sending => H(r).event = Complete
    /\ H(r).at \in {"complete"} \/ H(r).event = Complete => F(r).at = "done"
    /\ F(r).at \in {"idle", "done"} => queue[r] = <<>>
    /\ F(r).event <= produced[r]
    /\ \A i \in DOMAIN queue[r] : F(r).event < queue[r][i] /\ queue[r][i] <= produced[r]
    /\ \A i, j \in DOMAIN queue[r] : i < j => queue[r][i] < queue[r][j]
    /\ \A a \in {Handler(r), Forwarder(r)} :
          task[a].at = "send" => req[r].peer \notin task[a].targets

(* What p was sent of the chat r, and may still be sent. *)
Sent(p, r) ==
    /\ \A i, j \in DOMAIN got[p][r] : i < j => got[p][r][i] < got[p][r][j]
    /\ \A i \in DOMAIN got[p][r] : got[p][r][i] <= Top(r)
    /\ \A a \in {Handler(r), Forwarder(r)} : p \in Unsent(a) =>
          \A i \in DOMAIN got[p][r] : got[p][r][i] < task[a].event

OrderInv ==
    /\ \A r \in Request : InStep(r)
    /\ \A p \in Peer, r \in Request : Sent(p, r)

(***************************************************************************)
(* Watchers.                                                               *)
(***************************************************************************)
(* The event n of the chat r is on its way to p: in the channel, or in the   *)
(* hands of the forwarder, which has not chosen its targets or chose p.     *)
Held(p, r) ==
    /\ F(r).at \in {"direct", "audience", "sinks", "send"}
    /\ F(r).at \in {"sinks", "send"} => p \in F(r).targets

Coming(p, r, n) == (\E i \in DOMAIN queue[r] : queue[r][i] = n) \/ (F(r).event = n /\ Held(p, r))

Owes(p, r, n) ==
    /\ H(r).at # "idle" /\ req[r].peer # p /\ Follows(p, req[r].session)
    /\ conn[req[r].peer] = "closed" \/ Coming(p, r, n)

(* Only peers whose connection has closed are unregistered ...             *)
GoneStale(a) ==
    /\ \A p \in task[a].stale : conn[p] = "closed"
    /\ task[a].at \in {"unfollow", "evict"} => conn[task[a].peer] = "closed"

(* ... and a forwarder gives up a running turn only for a requester that    *)
(* has gone.                                                                *)
GoneAsker(r) ==
    F(r).at = "done" /\ H(r).at \in {"check", "turn", "emit"} => conn[req[r].peer] = "closed"

StaleGone == (\A a \in Actor : GoneStale(a)) /\ (\A r \in Request : GoneAsker(r))

WatchInv == StaleGone /\ \A o \in owed : Owes(o[1], o[2], o[3])

(***************************************************************************)
(* Tasks.                                                                  *)
(***************************************************************************)
LEMMA Actors ==
    ASSUME NEW r \in Request
    PROVE  /\ Handler(r) \in Sender /\ Forwarder(r) \in Sender
           /\ Handler(r) \in Actor /\ Forwarder(r) \in Actor
           /\ Handler(r)[1] = "handler" /\ Handler(r)[2] = r
           /\ Forwarder(r)[1] = "forwarder" /\ Forwarder(r)[2] = r
           /\ Of(Handler(r)) = req[r] /\ Of(Forwarder(r)) = req[r]
           /\ \A s \in Request : /\ Handler(r) # Forwarder(s)
                                 /\ Handler(r) = Handler(s) => r = s
                                 /\ Forwarder(r) = Forwarder(s) => r = s
           /\ \A p \in Peer : Handler(r) # Closer(p) /\ Forwarder(r) # Closer(p)
BY DEF Handler, Forwarder, Closer, Sender, Actor, Of

LEMMA Closers ==
    ASSUME NEW p \in Peer
    PROVE  Closer(p) \in Actor /\ Closer(p)[1] = "closer" /\ \A q \in Peer : Closer(p) = Closer(q) => p = q
BY DEF Closer, Actor

(* An actor is the handler or the forwarder of a request or a closer.       *)
LEMMA ActorCases ==
    ASSUME NEW a \in Actor
    PROVE  \/ \E r \in Request : a = Handler(r) \/ a = Forwarder(r)
           \/ \E p \in Peer : a = Closer(p)
BY DEF Actor, Sender

LEMMA SenderCases ==
    ASSUME NEW a \in Sender
    PROVE  a \in Actor /\ \E r \in Request : a = Handler(r) \/ a = Forwarder(r)
BY DEF Actor, Sender

(* One task moves. *)
Alone(a) == task' \in [Actor -> Task] /\ \A b \in Actor \ {a} : task'[b] = task[b]

(* A task moves to l, and keeps its local variables. *)
MovesTo(a, l) ==
    /\ Alone(a) /\ task'[a].at = l
    /\ task'[a].event = task[a].event /\ task'[a].targets = task[a].targets
    /\ task'[a].stale = task[a].stale /\ task'[a].peer = task[a].peer
    /\ task'[a].leaves = task[a].leaves

LEMMA GotoMoves ==
    ASSUME task \in [Actor -> Task], NEW a \in Actor, NEW l \in Label, Goto(a, l)
    PROVE  MovesTo(a, l)
BY DEF Goto, Task, MovesTo, Alone

(* The handler's subscription ends: it is done, or starts its forwarder.    *)
Opens(r) ==
    /\ task' \in [Actor -> Task]
    /\ \A b \in Actor \ {Handler(r), Forwarder(r)} : task'[b] = task[b]
    /\ task'[Handler(r)].at = "check" /\ task'[Forwarder(r)].at = "take"
    /\ \A a \in {Handler(r), Forwarder(r)} :
          /\ task'[a].event = task[a].event /\ task'[a].targets = task[a].targets
          /\ task'[a].stale = task[a].stale /\ task'[a].peer = task[a].peer
          /\ task'[a].leaves = task[a].leaves

LEMMA SubscribedMoves ==
    ASSUME task \in [Actor -> Task], NEW r \in Request, Subscribed(r)
    PROVE  MovesTo(Handler(r), "done") \/ Opens(r)
<1>1. CASE Goto(Handler(r), "done")
  BY <1>1, Actors, GotoMoves DEF Label
<1>2. CASE task' = [task EXCEPT ![Handler(r)].at = "check", ![Forwarder(r)].at = "take"]
  <2>1. Handler(r) \in Actor /\ Forwarder(r) \in Actor /\ Handler(r) # Forwarder(r)
    BY Actors
  <2>2. /\ task' \in [Actor -> Task]
        /\ \A b \in Actor \ {Handler(r), Forwarder(r)} : task'[b] = task[b]
        /\ task'[Handler(r)] = [task[Handler(r)] EXCEPT !.at = "check"]
        /\ task'[Forwarder(r)] = [task[Forwarder(r)] EXCEPT !.at = "take"]
    BY <1>2, <2>1 DEF Task, Label
  <2>3. QED
    BY <2>1, <2>2 DEF Task, Opens
<1>3. QED
  BY <1>1, <1>2 DEF Subscribed

(* Broadcasts and unregistering, field by field. *)
LEMMA ReadAudienceMoves ==
    ASSUME TypeOK, NEW a \in Actor, Of(a).session \in Session, ReadAudience(a)
    PROVE  /\ Alone(a) /\ task'[a].at \in {Back(a), "sinks"}
           /\ task'[a].targets = audience[Of(a).session]
           /\ task'[a].targets # {} => task'[a].at = "sinks"
           /\ task'[a].event = task[a].event /\ task'[a].stale = task[a].stale
<1> DEFINE T == audience[Of(a).session]
           l == IF T = {} THEN Back(a) ELSE "sinks"
<1>1. T \subseteq Peer /\ l \in Label /\ task[a] \in Task /\ task \in [Actor -> Task]
  BY DEF TypeOK, Back, Label
<1>2. /\ task' = [task EXCEPT ![a].at = l, ![a].targets = T]
      /\ l \in {Back(a), "sinks"} /\ (T # {} => l = "sinks")
  BY DEF ReadAudience
<1> HIDE DEF T, l
<1>3. Alone(a) /\ task'[a] = [task[a] EXCEPT !.at = l, !.targets = T]
  BY <1>1, <1>2 DEF Task, Alone
<1>4. task'[a].at = l /\ task'[a].targets = T /\ task'[a].event = task[a].event
      /\ task'[a].stale = task[a].stale
  BY <1>1, <1>3 DEF Task
<1>5. QED
  BY <1>2, <1>3, <1>4 DEF T

LEMMA ReadSinksMoves ==
    ASSUME TypeOK, NEW a \in Actor, ReadSinks(a)
    PROVE  /\ Alone(a) /\ task'[a].at = "send" /\ task'[a].targets = Recipients(a)
           /\ task'[a].event = task[a].event /\ task'[a].stale = task[a].stale
<1> DEFINE T == Recipients(a)
<1>1. T \subseteq Peer /\ task[a] \in Task /\ task \in [Actor -> Task]
  BY DEF TypeOK, Recipients
<1>2. task' = [task EXCEPT ![a].at = "send", ![a].targets = T]
  BY DEF ReadSinks
<1> HIDE DEF T
<1>3. Alone(a) /\ task'[a] = [task[a] EXCEPT !.at = "send", !.targets = T]
  BY <1>1, <1>2 DEF Task, Alone, Label
<1>4. QED
  BY <1>1, <1>3 DEF Task, T

LEMMA SendOneMoves ==
    ASSUME TypeOK, NEW a \in Actor, NEW p \in task[a].targets, At(a, "send"),
           \/ task' = [task EXCEPT ![a].targets = @ \ {p}]
           \/ task' = [task EXCEPT ![a].targets = @ \ {p}, ![a].stale = @ \cup {p}]
    PROVE  /\ Alone(a) /\ task'[a].at = "send" /\ task'[a].targets = task[a].targets \ {p}
           /\ task'[a].event = task[a].event
           /\ task'[a].stale \subseteq task[a].stale \cup {p}
           /\ task' = [task EXCEPT ![a].targets = @ \ {p}] => task'[a].stale = task[a].stale
<1> DEFINE T == task[a].targets \ {p}
<1>1. task[a] \in Task /\ task \in [Actor -> Task] /\ task[a].at = "send"
  BY DEF TypeOK, At
<1>2. CASE task' = [task EXCEPT ![a].targets = @ \ {p}]
  <2>1. Alone(a) /\ task'[a] = [task[a] EXCEPT !.targets = T]
    BY <1>1, <1>2 DEF Task, Alone
  <2>2. QED
    BY <1>1, <2>1 DEF Task
<1>3. CASE task' = [task EXCEPT ![a].targets = @ \ {p}, ![a].stale = @ \cup {p}]
  <2>1. Alone(a) /\ task'[a] = [task[a] EXCEPT !.targets = T, !.stale = @ \cup {p}]
    BY <1>1, <1>3 DEF Task, Alone
  <2>2. task'[a].targets = T /\ task'[a].stale = task[a].stale \cup {p}
        /\ task'[a].event = task[a].event /\ task'[a].at = "send"
    BY <1>1, <2>1 DEF Task
  <2>3. ASSUME task' = [task EXCEPT ![a].targets = @ \ {p}] PROVE task'[a].stale = task[a].stale
    <3>1. task'[a] = [task[a] EXCEPT !.targets = T]
      BY <1>1, <2>3
    <3>2. QED
      BY <1>1, <3>1 DEF Task
  <2>4. QED
    BY <2>1, <2>2, <2>3
<1>4. QED
  BY <1>2, <1>3

LEMMA AllSentMoves ==
    ASSUME TypeOK, NEW a \in Actor, AllSent(a)
    PROVE  MovesTo(a, Back(a)) \/ MovesTo(a, "drop")
<1>1. Back(a) \in Label /\ "drop" \in Label
  BY DEF Back, Label
<1>2. QED
  BY <1>1, GotoMoves DEF AllSent, TypeOK

LEMMA DropMoves ==
    ASSUME TypeOK, NEW a \in Actor, NEW p \in task[a].stale, 
           task' = [task EXCEPT ![a].at = "unfollow", ![a].peer = p, ![a].stale = @ \ {p}]
    PROVE  /\ Alone(a) /\ task'[a].at = "unfollow" /\ task'[a].targets = task[a].targets
           /\ task'[a].event = task[a].event /\ task'[a].peer = p
           /\ task'[a].stale = task[a].stale \ {p}
<1>1. task[a] \in Task /\ task \in [Actor -> Task]
  BY DEF TypeOK
<1>2. /\ Alone(a)
      /\ task'[a] = [task[a] EXCEPT !.at = "unfollow", !.peer = p, !.stale = @ \ {p}]
  BY <1>1 DEF Task, Alone, Label
<1>3. QED
  BY <1>1, <1>2 DEF Task

LEMMA UnregisteredMoves ==
    ASSUME TypeOK, NEW a \in Actor, Unregistered(a)
    PROVE  /\ Alone(a) /\ task'[a].at \in {Back(a), "drop"} /\ task'[a].targets = task[a].targets
           /\ task'[a].event = task[a].event /\ task'[a].stale = task[a].stale
<1> DEFINE l == IF task[a].stale # {} THEN "drop" ELSE Back(a)
<1>1. l \in Label /\ task[a] \in Task /\ task \in [Actor -> Task]
  BY DEF TypeOK, Back, Label
<1>2. /\ task' = [task EXCEPT ![a].at = l, ![a].peer = "none", ![a].leaves = NoSession]
      /\ l \in {Back(a), "drop"}
  BY DEF Unregistered
<1> HIDE DEF l
<1>3. /\ Alone(a)
      /\ task'[a] = [task[a] EXCEPT !.at = l, !.peer = "none", !.leaves = NoSession]
  BY <1>1, <1>2 DEF Task, Alone
<1>4. QED
  BY <1>1, <1>2, <1>3 DEF Task

LEMMA LeavesMoves ==
    ASSUME TypeOK, NEW a \in Actor, NEW l \in Label, NEW s \in Session \cup {NoSession},
           task' = [task EXCEPT ![a].at = l, ![a].leaves = s]
    PROVE  /\ Alone(a) /\ task'[a].at = l /\ task'[a].targets = task[a].targets
           /\ task'[a].event = task[a].event /\ task'[a].stale = task[a].stale
           /\ task'[a].peer = task[a].peer /\ task'[a].leaves = s
<1>1. task[a] \in Task /\ task \in [Actor -> Task]
  BY DEF TypeOK
<1>2. Alone(a) /\ task'[a] = [task[a] EXCEPT !.at = l, !.leaves = s]
  BY <1>1 DEF Task, Alone
<1>3. QED
  BY <1>1, <1>2 DEF Task

LEMMA EventMoves ==
    ASSUME TypeOK, NEW a \in Actor, NEW l \in Label, NEW n \in Nat,
           task' = [task EXCEPT ![a].at = l, ![a].event = n]
    PROVE  /\ Alone(a) /\ task'[a].at = l /\ task'[a].targets = task[a].targets
           /\ task'[a].event = n /\ task'[a].stale = task[a].stale
           /\ task'[a].peer = task[a].peer /\ task'[a].leaves = task[a].leaves
<1>1. task[a] \in Task /\ task \in [Actor -> Task]
  BY DEF TypeOK
<1>2. Alone(a) /\ task'[a] = [task[a] EXCEPT !.at = l, !.event = n]
  BY <1>1 DEF Task, Alone
<1>3. QED
  BY <1>1, <1>2 DEF Task

LEMMA DisconnectMoves ==
    ASSUME TypeOK, NEW p \in Peer, Disconnect(p)
    PROVE  /\ Alone(Closer(p)) /\ task'[Closer(p)].at = "drop"
           /\ task'[Closer(p)].targets = task[Closer(p)].targets
           /\ task'[Closer(p)].stale = {p}
<1> DEFINE a == Closer(p)
<1>1. a \in Actor /\ task[a] \in Task /\ task \in [Actor -> Task]
  BY Closers DEF TypeOK
<1>2. task' = [task EXCEPT ![a].at = "drop", ![a].stale = {p}]
  BY DEF Disconnect
<1> HIDE DEF a
<1>3. Alone(a) /\ task'[a] = [task[a] EXCEPT !.at = "drop", !.stale = {p}]
  BY <1>1, <1>2 DEF Task, Alone, Label
<1>4. task'[a].at = "drop" /\ task'[a].targets = task[a].targets /\ task'[a].stale = {p}
  BY <1>1, <1>3 DEF Task
<1>5. QED
  BY <1>3, <1>4 DEF a

(* What is known of the tasks that rest.                                   *)
Onward == \A p \in Peer : conn[p] # "new" => conn'[p] # "new"

LEMMA SenderFits ==
    ASSUME Fits, NEW r \in Request, NEW a \in {Handler(r), Forwarder(r)}, Alone(a), Onward,
           \A s \in Request \ {r} : produced'[s] = produced[s] /\ req'[s] = req[s],
           TaskFits(a)', RequestFits(r)'
    PROVE  Fits'
<1>1. ASSUME NEW b \in Actor, b # a PROVE TaskFits(b)'
  BY <1>1 DEF Fits, TaskFits, Known, Onward, Alone
<1>2. ASSUME NEW s \in Request, s # r PROVE RequestFits(s)'
  <2>1. Handler(s) # a /\ Forwarder(s) # a /\ Handler(s) \in Actor /\ Forwarder(s) \in Actor
    BY <1>2, Actors
  <2>2. H(s)' = H(s) /\ F(s)' = F(s) /\ RequestFits(s)
    BY <2>1 DEF Alone, H, F, Fits
  <2>3. QED
    BY <1>2, <2>2 DEF RequestFits, Known, Onward
<1>3. ASSUME NEW p \in Peer PROVE task'[Closer(p)].at \in CloserLabel
  BY Actors, Closers DEF Alone, Fits
<1>4. QED
  BY <1>1, <1>2, <1>3 DEF Fits

LEMMA CloserFits ==
    ASSUME Fits, NEW p \in Peer, Alone(Closer(p)), Onward, UNCHANGED <<req, produced>>,
           TaskFits(Closer(p))', task'[Closer(p)].at \in CloserLabel
    PROVE  Fits'
<1>1. ASSUME NEW b \in Actor, b # Closer(p) PROVE TaskFits(b)'
  BY <1>1 DEF Fits, TaskFits, Known, Onward, Alone
<1>2. ASSUME NEW s \in Request PROVE RequestFits(s)'
  <2>1. H(s)' = H(s) /\ F(s)' = F(s) /\ RequestFits(s)
    BY Actors DEF Alone, H, F, Fits
  <2>2. QED
    BY <2>1 DEF RequestFits, Known, Onward
<1>3. ASSUME NEW q \in Peer PROVE task'[Closer(q)].at \in CloserLabel
  BY Closers DEF Alone, Fits
<1>4. QED
  BY <1>1, <1>2, <1>3 DEF Fits

(* A task that broadcasts goes on, or back. *)
LEMMA SendingFits ==
    ASSUME Fits, NEW a \in Sender, Alone(a), Onward, UNCHANGED <<req, produced>>,
           task[a].at \in Sending, task'[a].at \in Sending \cup {Back(a)},
           task'[a].event = task[a].event, TaskFits(a)'
    PROVE  Fits'
<1>1. PICK r \in Request : a = Handler(r) \/ a = Forwarder(r)
  BY SenderCases
<1>2. RequestFits(r) /\ Handler(r) # Forwarder(r)
  BY Actors DEF Fits
<1>3. CASE a = Handler(r)
  <2>1. H(r)'.at \in Sending \cup {"done"} /\ H(r)'.event = H(r).event /\ F(r)' = F(r)
    BY <1>2, <1>3, Actors DEF H, F, Alone, Back
  <2>2. QED
    BY <1>2, <1>3, <2>1, SenderFits
       DEF RequestFits, H, Sending, Dropping, Chatting, HandlerLabel, Onward, Known
<1>4. CASE a = Forwarder(r)
  <2>1. F(r)'.at \in Sending \cup {"take"} /\ F(r)'.event = F(r).event /\ H(r)' = H(r)
    BY <1>2, <1>4, Actors DEF H, F, Alone, Back
  <2>2. F(r).at # "idle"
    BY <1>4 DEF F, Sending, Dropping
  <2>3. RequestFits(r)'
    BY <1>2, <2>1, <2>2
       DEF RequestFits, Sending, Dropping, Chatting, ForwarderLabel, Onward, Known
  <2>4. QED
    BY <1>4, <2>3, SenderFits
<1>5. QED
  BY <1>1, <1>3, <1>4

(* A task that unregisters goes on, or back. *)
LEMMA DroppingFits ==
    ASSUME Fits, NEW a \in Actor, Alone(a), Onward, UNCHANGED <<req, produced>>,
           task[a].at \in Dropping, task'[a].at \in Dropping \cup {Back(a)},
           task'[a].event = task[a].event, TaskFits(a)'
    PROVE  Fits'
<1>1. CASE a \in Sender
  BY <1>1, SendingFits DEF Sending
<1>2. CASE a \notin Sender
  <2>1. PICK p \in Peer : a = Closer(p)
    BY <1>2 DEF Actor
  <2>2. task'[a].at \in CloserLabel
    BY <2>1, Closers DEF Back, CloserLabel, Dropping
  <2>3. QED
    BY <2>1, <2>2, CloserFits
<1>3. QED
  BY <1>1, <1>2

LEMMA OpensFits ==
    ASSUME Fits, NEW r \in Request, Opens(r), H(r).at \in {"bind", "join"}, Onward,
           UNCHANGED <<req, produced>>
    PROVE  Fits'
<1>1. ASSUME NEW b \in Actor PROVE TaskFits(b)'
  <2>1. CASE b \in {Handler(r), Forwarder(r)}
    BY <2>1 DEF Fits, TaskFits, Known, Onward, Opens
  <2>2. CASE b \notin {Handler(r), Forwarder(r)}
    BY <2>2 DEF Fits, TaskFits, Known, Onward, Opens
  <2>3. QED
    BY <2>1, <2>2
<1>2. ASSUME NEW s \in Request, s # r PROVE RequestFits(s)'
  <2>1. Handler(s) \in Actor \ {Handler(r), Forwarder(r)} /\ Forwarder(s) \in Actor \ {Handler(r), Forwarder(r)}
    BY <1>2, Actors
  <2>2. H(s)' = H(s) /\ F(s)' = F(s) /\ RequestFits(s)
    BY <2>1 DEF Opens, H, F, Fits
  <2>3. QED
    BY <1>2, <2>2 DEF RequestFits, Known, Onward
<1>3. RequestFits(r)'
  <2>1. RequestFits(r)
    BY DEF Fits
  <2>2. /\ H(r)'.at = "check" /\ F(r)'.at = "take"
        /\ H(r)'.event = H(r).event /\ F(r)'.event = F(r).event
    BY DEF Opens, H, F
  <2>3. QED
    BY <2>1, <2>2 DEF RequestFits, Known, Onward, HandlerLabel, ForwarderLabel, Chatting
<1>4. ASSUME NEW p \in Peer PROVE task'[Closer(p)].at \in CloserLabel
  BY Actors, Closers DEF Opens, Fits
<1>5. QED
  BY <1>1, <1>2, <1>3, <1>4 DEF Fits

LEMMA TypeImplies == TypeInv => TypeOK
BY DEF TypeInv, StoreOK, TypeOK, Known

(* A step of a task whose request and local variables are all that moves.   *)
LEMMA OnlyTask ==
    ASSUME TypeInv, UNCHANGED <<conn, shut, maps, req, turn, got, owed>>,
           task' \in [Actor -> Task], Fits'
    PROVE  TypeInv'
BY DEF TypeInv, StoreOK, Known, maps, turn

(* Sending keeps the types. *)
LEMMA DeliversOK ==
    ASSUME StoreOK, NEW p \in Known, NEW r \in Request, NEW n \in 0 .. Complete,
           Delivers(p, r, n) \/ Fails(p), UNCHANGED conn
    PROVE  /\ shut' \subseteq {q \in Peer : conn'[q] = "closed"}
           /\ got' \in [Peer -> [Request -> Seq(0 .. Complete)]]
           /\ owed' \subseteq Peer \X Request \X (1 .. MaxEvents)
           /\ owed' \subseteq owed
<1>1. p \in Peer /\ conn[p] # "new" /\ conn[p] \in {"new", "open", "closed"}
  BY DEF StoreOK, Known
<1>2. got' \in [Peer -> [Request -> Seq(0 .. Complete)]]
  <2>1. got[p][r] \in Seq(0 .. Complete)
    BY <1>1 DEF StoreOK
  <2>2. Append(got[p][r], n) \in Seq(0 .. Complete)
    BY <2>1
  <2>3. UNCHANGED got \/ got' = [got EXCEPT ![p] = [got[p] EXCEPT ![r] = Append(got[p][r], n)]]
    BY DEF Delivers, Fails
  <2>4. got \in [Peer -> [Request -> Seq(0 .. Complete)]]
    BY DEF StoreOK
  <2> DEFINE E == Seq(0 .. Complete)
             g == [got[p] EXCEPT ![r] = Append(got[p][r], n)]
  <2> HIDE DEF E
  <2>5. g \in [Request -> E]
    BY <1>1, <2>2, <2>4 DEF E
  <2>6. UNCHANGED got \/ got' = [got EXCEPT ![p] = g]
    BY <2>3
  <2> HIDE DEF g
  <2>7. QED
    BY <1>1, <2>4, <2>5, <2>6 DEF E
<1>3. shut' \subseteq {q \in Peer : conn'[q] = "closed"}
  BY <1>1 DEF Delivers, Fails, StoreOK
<1>4. owed' \subseteq owed
  BY DEF Delivers, Fails
<1>5. QED
  BY <1>2, <1>3, <1>4 DEF StoreOK

LEMMA TypeInit == Init => TypeInv
<1> SUFFICES ASSUME Init PROVE TypeInv
  OBVIOUS
<1>1. Idle \in Task
  BY DEF Idle, Task, Label
<1>2. Fits
  BY Actors, Closers, PushCenterAssumption
     DEF Init, Fits, TaskFits, RequestFits, H, F, Idle, HandlerLabel, ForwarderLabel, CloserLabel
<1>3. StoreOK
  BY PushCenterAssumption DEF Init, StoreOK, Known
<1>4. QED
  BY <1>1, <1>2, <1>3 DEF TypeInv, Init

(* A handler goes on, its request received. *)
LEMMA HandlerFits ==
    ASSUME Fits, NEW r \in Request, Alone(Handler(r)), Onward, UNCHANGED req,
           \A s \in Request \ {r} : produced'[s] = produced[s],
           H(r).at \notin {"idle", "done"},
           H(r)'.at \in HandlerLabel \ {"idle", "unfollow", "evict"},
           H(r).at \in Chatting => H(r)'.at \in Chatting \cup {"done"},
           H(r)'.at = "emit" => produced'[r] < MaxEvents,
           H(r)'.at = "leave" => H(r)'.leaves \in Session,
           H(r)'.event \in {0, Complete},
           H(r)'.targets = H(r).targets /\ H(r)'.stale = H(r).stale
    PROVE  Fits'
<1>1. RequestFits(r) /\ TaskFits(Handler(r)) /\ Handler(r) \in Actor
  BY Actors DEF Fits
<1>2. F(r)' = F(r)
  BY Actors DEF Alone, F
<1>3. RequestFits(r)'
  BY <1>1, <1>2 DEF RequestFits, Known, Onward
<1>4. TaskFits(Handler(r))'
  BY <1>1 DEF TaskFits, H, Known, Onward, HandlerLabel
<1>5. QED
  BY <1>3, <1>4, SenderFits

(* A forwarder goes on. *)
LEMMA ForwarderFits ==
    ASSUME Fits, NEW r \in Request, Alone(Forwarder(r)), Onward, UNCHANGED <<req, produced>>,
           F(r).at # "idle", F(r)'.at \in ForwarderLabel \ {"idle", "unfollow", "evict"},
           F(r)'.event <= MaxEvents,
           F(r)'.targets = F(r).targets /\ F(r)'.stale = F(r).stale
    PROVE  Fits'
<1>1. RequestFits(r) /\ TaskFits(Forwarder(r)) /\ Forwarder(r) \in Actor
  BY Actors DEF Fits
<1>2. H(r)' = H(r)
  BY Actors DEF Alone, H
<1>3. RequestFits(r)'
  BY <1>1, <1>2 DEF RequestFits, Known, Onward
<1>4. F(r)'.at # "leave"
  BY DEF ForwarderLabel, Sending, Dropping
<1>5. TaskFits(Forwarder(r))'
  BY <1>1, <1>4 DEF TaskFits, F, Known, Onward
<1>6. QED
  BY <1>3, <1>5, SenderFits

(* The request of a task that has begun.                                   *)
LEMMA Begun ==
    ASSUME TypeInv, NEW r \in Request
    PROVE  /\ RequestFits(r) /\ TaskFits(Handler(r)) /\ TaskFits(Forwarder(r))
           /\ H(r).at # "idle" =>
                 req[r].peer \in Known /\ req[r].session \in Session /\ req[r].kind \in Kind
           /\ F(r).at # "idle" => H(r).at # "idle"
           /\ task[Handler(r)] = H(r) /\ task[Forwarder(r)] = F(r)
           /\ H(r) \in Task /\ F(r) \in Task
<1>1. RequestFits(r) /\ TaskFits(Handler(r)) /\ TaskFits(Forwarder(r))
  BY Actors DEF TypeInv, Fits
<1>2. H(r).at # "idle" => req[r].peer \in Known /\ req[r].session \in Session /\ req[r].kind \in Kind
  BY <1>1 DEF RequestFits, TypeInv, StoreOK
<1>3. F(r).at # "idle" => H(r).at # "idle"
  BY <1>1 DEF RequestFits, Chatting, Sending, Dropping
<1>4. H(r) \in Task /\ F(r) \in Task
  BY Actors DEF TypeInv, H, F
<1>5. QED
  BY <1>1, <1>2, <1>3, <1>4 DEF H, F

LEMMA Numbers ==
    ASSUME TypeInv, NEW r \in Request
    PROVE  /\ H(r).event \in Nat /\ F(r).event \in Nat /\ produced[r] \in Nat
           /\ queue[r] \in Seq(1 .. MaxEvents) /\ \A p \in Peer : got[p][r] \in Seq(0 .. Complete)
<1>1. H(r) \in Task /\ F(r) \in Task
  BY Begun
<1>2. H(r).event \in Nat /\ F(r).event \in Nat
  BY <1>1 DEF Task
<1>3. QED
  BY <1>2, PushCenterAssumption DEF TypeInv, StoreOK

LEMMA BegunSender ==
    ASSUME TypeInv, NEW a \in Sender, task[a].at # "idle"
    PROVE  Of(a).peer \in Known /\ Of(a).session \in Session
<1>1. PICK r \in Request : a = Handler(r) \/ a = Forwarder(r)
  BY SenderCases
<1>2. H(r).at # "idle"
  BY <1>1, Begun DEF H, F
<1>3. QED
  BY <1>1, <1>2, Actors, Begun

LEMMA TypeStep == TypeInv /\ [Next]_vars => TypeInv'
<1> SUFFICES ASSUME TypeInv, [Next]_vars PROVE TypeInv'
  OBVIOUS
<1> USE DEF maps, turn
<1>0. StoreOK /\ Fits /\ TypeOK /\ task \in [Actor -> Task]
  BY TypeImplies DEF TypeInv
<1>a. UNCHANGED conn => Onward
  BY DEF Onward
(* What a handler that goes to l keeps. *)
<1>b. ASSUME NEW r \in Request, NEW l \in Label, Goto(Handler(r), l)
      PROVE  /\ Alone(Handler(r)) /\ task' \in [Actor -> Task] /\ H(r)'.at = l
             /\ H(r)'.event = H(r).event /\ H(r)'.targets = H(r).targets
             /\ H(r)'.stale = H(r).stale
  BY <1>0, <1>b, Actors, GotoMoves DEF MovesTo, H, Alone
<1>c. ASSUME NEW r \in Request, NEW l \in Label, Goto(Forwarder(r), l)
      PROVE  /\ Alone(Forwarder(r)) /\ task' \in [Actor -> Task] /\ F(r)'.at = l
             /\ F(r)'.event = F(r).event /\ F(r)'.targets = F(r).targets
             /\ F(r)'.stale = F(r).stale
  BY <1>0, <1>c, Actors, GotoMoves DEF MovesTo, F, Alone
<1>1. ASSUME NEW p \in Peer, Connect(p) PROVE TypeInv'
  <2>1. Onward /\ Alone(Closer(p)) /\ UNCHANGED <<task, req, produced>>
    BY <1>0, <1>1 DEF Connect, Onward, Alone, StoreOK
  <2>2. TaskFits(Closer(p)) /\ task[Closer(p)].at \in CloserLabel
    BY <1>0, Closers DEF Fits
  <2>3. Fits'
    BY <1>0, <2>1, <2>2, CloserFits DEF TaskFits, Known, Onward
  <2>4. Known \subseteq Known'
    BY <2>1 DEF Known, Onward
  <2>5. StoreOK'
    BY <1>0, <1>1, <2>4 DEF Connect, StoreOK
  <2>6. QED
    BY <1>0, <2>1, <2>3, <2>5 DEF TypeInv
<1>2. ASSUME NEW p \in Peer, Disconnect(p) PROVE TypeInv'
  <2>1. /\ Alone(Closer(p)) /\ Closer(p) \in Actor /\ task'[Closer(p)].at = "drop"
        /\ task'[Closer(p)].targets = task[Closer(p)].targets /\ task'[Closer(p)].stale = {p}
    BY <1>0, <1>2, Closers, DisconnectMoves
  <2>2. Onward /\ conn[p] # "new" /\ UNCHANGED <<req, produced>>
    BY <1>0, <1>2 DEF Disconnect, Onward, StoreOK
  <2>3. TaskFits(Closer(p))
    BY <1>0, <2>1 DEF Fits
  <2>4. TaskFits(Closer(p))'
    BY <2>1, <2>2, <2>3 DEF TaskFits, Known, Onward
  <2>5. Fits'
    BY <1>0, <2>1, <2>2, <2>4, CloserFits DEF CloserLabel, Dropping
  <2>6. Known \subseteq Known'
    BY <2>2 DEF Known, Onward
  <2>7. StoreOK'
    BY <1>0, <1>2, <2>6 DEF Disconnect, StoreOK
  <2>8. QED
    BY <2>1, <2>5, <2>7 DEF TypeInv, Alone
<1>3. ASSUME NEW r \in Request, Receive(r) PROVE TypeInv'
  <2>1. PICK p \in Peer, s \in Session, k \in Kind :
            /\ At(Handler(r), "idle") /\ conn[p] = "open"
            /\ req' = [req EXCEPT ![r] = [peer |-> p, session |-> s, kind |-> k]]
            /\ Goto(Handler(r), "register") /\ owed' = {o \in owed : o[1] # p}
    BY <1>3 DEF Receive
  <2>2. UNCHANGED <<conn, shut, maps, turn, got>>
    BY <1>3 DEF Receive
  <2>3. H(r).at = "idle" /\ H(r)'.at = "register" /\ Alone(Handler(r))
        /\ H(r)'.event = H(r).event /\ H(r)'.targets = H(r).targets /\ H(r)'.stale = H(r).stale
    BY <1>b, <2>1 DEF At, H, Label
  <2>4. /\ req'[r].peer = p /\ req'[r].kind = k /\ req'[r] # NoRequest
        /\ \A q \in Request \ {r} : req'[q] = req[q]
        /\ req' \in [Request -> {NoRequest} \cup [peer : Peer, session : Session, kind : Kind]]
    <3>1. [peer |-> p, session |-> s, kind |-> k].kind # NoRequest.kind
      BY DEF NoRequest, Kind
    <3>2. QED
      BY <1>0, <2>1, <3>1 DEF StoreOK
  <2>5. RequestFits(r) /\ F(r)' = F(r) /\ TaskFits(Handler(r))
    BY <2>3, <1>0, Actors DEF Fits, Alone, F
  <2>6. RequestFits(r)'
    BY <2>1, <2>2, <2>3, <2>4, <2>5
       DEF RequestFits, Known, Chatting, Sending, Dropping, HandlerLabel
  <2>7. TaskFits(Handler(r))'
    BY <2>2, <2>3, <2>5 DEF TaskFits, H, Known
  <2>8. Fits'
    BY <1>0, <1>a, <2>2, <2>3, <2>4, <2>6, <2>7, SenderFits
  <2>9. StoreOK'
    BY <1>0, <2>1, <2>2, <2>4 DEF StoreOK, Known
  <2>10. QED
    BY <2>3, <2>8, <2>9 DEF TypeInv, Alone
<1>4. ASSUME NEW r \in Request, Register(r) PROVE TypeInv'
  <2>1. /\ H(r).at = "register" /\ peers' = peers \cup {req[r].peer} /\ Goto(Handler(r), "bind")
        /\ UNCHANGED <<conn, shut, follows, audience, req, turn, got, owed>>
    BY <1>4 DEF Register, At, H
  <2>2. Fits' /\ task' \in [Actor -> Task]
    BY <1>0, <1>a, <1>b, <2>1, Begun, HandlerFits
       DEF RequestFits, HandlerLabel, Chatting, Sending, Dropping, Label
  <2>3. StoreOK'
    BY <1>0, <2>1, Begun DEF StoreOK, Known
  <2>4. QED
    BY <2>2, <2>3 DEF TypeInv
<1>5. ASSUME NEW r \in Request, Subscribed(r), H(r).at \in {"bind", "join"},
             UNCHANGED <<conn, req, produced>>
      PROVE  Fits' /\ task' \in [Actor -> Task]
  <2>1. CASE Opens(r)
    BY <1>0, <1>5, <1>a, <2>1, OpensFits DEF Opens
  <2>2. CASE MovesTo(Handler(r), "done")
    <3>1. /\ Alone(Handler(r)) /\ H(r)'.at = "done" /\ H(r)'.event = H(r).event
          /\ H(r)'.targets = H(r).targets /\ H(r)'.stale = H(r).stale
      BY <2>2 DEF MovesTo, H
    <3>2. Fits'
      BY <1>0, <1>5, <1>a, <3>1, Begun, HandlerFits
         DEF RequestFits, HandlerLabel, Chatting, Sending, Dropping
    <3>3. QED
      BY <3>1, <3>2 DEF Alone
  <2>3. QED
    BY <1>0, <1>5, <2>1, <2>2, SubscribedMoves
<1>6. ASSUME NEW r \in Request, Bind(r) PROVE TypeInv'
  <2> DEFINE p == req[r].peer
             s == req[r].session
  <2>1. /\ H(r).at = "bind" /\ follows' = [follows EXCEPT ![p] = s]
        /\ UNCHANGED <<conn, shut, peers, audience, req, turn, got, owed>>
        /\ p \in Known /\ s \in Session
    BY <1>6, Begun DEF Bind, At, H
  <2>2. \/ Subscribed(r)
        \/ Goto(Handler(r), "join")
        \/ /\ follows[p] # NoSession
           /\ task' = [task EXCEPT ![Handler(r)].at = "leave", ![Handler(r)].leaves = follows[p]]
    BY <1>6 DEF Bind
  <2>3. Fits' /\ task' \in [Actor -> Task]
    <3>1. CASE Subscribed(r)
      BY <1>5, <2>1, <3>1
    <3>2. CASE Goto(Handler(r), "join")
      BY <1>0, <1>a, <1>b, <2>1, <3>2, Begun, HandlerFits
         DEF RequestFits, HandlerLabel, Chatting, Sending, Dropping, Label
    <3>3. CASE /\ follows[p] # NoSession
               /\ task' = [task EXCEPT ![Handler(r)].at = "leave", ![Handler(r)].leaves = follows[p]]
      <4>1. follows[p] \in Session /\ "leave" \in Label
        BY <1>0, <2>1, <3>3 DEF StoreOK, Known, Label
      <4>2. /\ Alone(Handler(r)) /\ H(r)'.at = "leave" /\ H(r)'.event = H(r).event
            /\ H(r)'.targets = H(r).targets /\ H(r)'.stale = H(r).stale
            /\ H(r)'.leaves \in Session
        <5>1. PICK q \in Session : q = follows[p]
          BY <4>1
        <5>2. task' = [task EXCEPT ![Handler(r)].at = "leave", ![Handler(r)].leaves = q]
          BY <3>3, <5>1
        <5>3. /\ Handler(r) \in Actor /\ "leave" \in Label
              /\ q \in Session \cup {NoSession} /\ TypeOK
          BY <1>0, Actors DEF Label
        <5> HIDE DEF p, s
        <5>4. /\ Alone(Handler(r)) /\ task'[Handler(r)].at = "leave"
              /\ task'[Handler(r)].event = task[Handler(r)].event
              /\ task'[Handler(r)].targets = task[Handler(r)].targets
              /\ task'[Handler(r)].stale = task[Handler(r)].stale
              /\ task'[Handler(r)].leaves = q
          BY <5>2, <5>3, LeavesMoves
        <5>5. QED
          BY <5>4 DEF H
      <4>3. Fits'
        BY <1>0, <1>a, <2>1, <4>2, Begun, HandlerFits
           DEF RequestFits, HandlerLabel, Chatting, Sending, Dropping
      <4>4. QED
        BY <4>2, <4>3 DEF Alone
    <3>4. QED
      BY <2>2, <3>1, <3>2, <3>3
  <2>4. StoreOK'
    BY <1>0, <2>1 DEF StoreOK, Known
  <2>5. QED
    BY <2>3, <2>4 DEF TypeInv
<1>7. ASSUME NEW r \in Request, Leave(r) PROVE TypeInv'
  <2>1. /\ H(r).at = "leave" /\ H(r).leaves \in Session
        /\ audience' = [audience EXCEPT ![H(r).leaves] = @ \ {req[r].peer}]
        /\ task' = [task EXCEPT ![Handler(r)].at = "join", ![Handler(r)].leaves = NoSession]
        /\ UNCHANGED <<conn, shut, peers, follows, req, turn, got, owed>>
    BY <1>7, Begun DEF Leave, RemoveFromSession, At, H, TaskFits
  <2>2. /\ Alone(Handler(r)) /\ H(r)'.at = "join" /\ H(r)'.event = H(r).event
        /\ H(r)'.targets = H(r).targets /\ H(r)'.stale = H(r).stale
    <3>1. Handler(r) \in Actor /\ "join" \in Label
      BY Actors DEF Label
    <3>2. /\ Alone(Handler(r)) /\ task'[Handler(r)].at = "join"
          /\ task'[Handler(r)].event = task[Handler(r)].event
          /\ task'[Handler(r)].targets = task[Handler(r)].targets
          /\ task'[Handler(r)].stale = task[Handler(r)].stale
      BY <1>0, <2>1, <3>1, LeavesMoves
    <3>3. QED
      BY <3>2 DEF H
  <2>3. Fits'
    BY <1>0, <1>a, <2>1, <2>2, Begun, HandlerFits
       DEF RequestFits, HandlerLabel, Chatting, Sending, Dropping
  <2>4. StoreOK'
    BY <1>0, <2>1 DEF StoreOK, Known
  <2>5. QED
    BY <2>2, <2>3, <2>4 DEF TypeInv, Alone
<1>8. ASSUME NEW r \in Request, Join(r) PROVE TypeInv'
  <2>1. /\ H(r).at = "join" /\ Subscribed(r)
        /\ audience' = [audience EXCEPT ![req[r].session] = @ \cup {req[r].peer}]
        /\ UNCHANGED <<conn, shut, peers, follows, req, turn, got, owed>>
    BY <1>8 DEF Join, At, H
  <2>2. StoreOK'
    BY <1>0, <2>1, Begun DEF StoreOK, Known
  <2>3. QED
    BY <1>5, <2>1, <2>2 DEF TypeInv
<1>9. ASSUME NEW a \in Sender, ReadAudience(a) PROVE TypeInv'
  <2>1. task[a].at = "audience" /\ a \in Actor
    BY <1>9, SenderCases DEF ReadAudience, At
  <2>2. Of(a).session \in Session
    BY <2>1, BegunSender
  <2>3. /\ Alone(a) /\ task'[a].at \in {Back(a), "sinks"}
        /\ task'[a].targets = audience[Of(a).session]
        /\ task'[a].event = task[a].event /\ task'[a].stale = task[a].stale
    BY <1>0, <1>9, <2>1, <2>2, ReadAudienceMoves
  <2>4. UNCHANGED <<conn, shut, maps, req, turn, got, owed>>
    BY <1>9 DEF ReadAudience
  <2>5. TaskFits(a) /\ audience[Of(a).session] \subseteq Known
    BY <1>0, <2>1, <2>2 DEF Fits, StoreOK
  <2>6. TaskFits(a)'
    BY <2>3, <2>4, <2>5 DEF TaskFits, Known, Back
  <2>7. Fits'
    BY <1>0, <1>a, <2>1, <2>3, <2>4, <2>6, SendingFits DEF Sending
  <2>8. QED
    BY <2>3, <2>4, <2>7, OnlyTask DEF Alone
<1>10. ASSUME NEW a \in Sender, ReadSinks(a) PROVE TypeInv'
  <2>1. task[a].at = "sinks" /\ a \in Actor
    BY <1>10, SenderCases DEF ReadSinks, At
  <2>2. /\ Alone(a) /\ task'[a].at = "send" /\ task'[a].targets = Recipients(a)
        /\ task'[a].event = task[a].event /\ task'[a].stale = task[a].stale
    BY <1>0, <1>10, <2>1, ReadSinksMoves
  <2>3. UNCHANGED <<conn, shut, maps, req, turn, got, owed>>
    BY <1>10 DEF ReadSinks
  <2>4. TaskFits(a)'
    BY <1>0, <2>1, <2>2, <2>3 DEF Fits, TaskFits, Known, Recipients
  <2>5. Fits'
    BY <1>0, <1>a, <2>1, <2>2, <2>3, <2>4, SendingFits DEF Sending
  <2>6. QED
    BY <2>2, <2>3, <2>5, OnlyTask DEF Alone
<1>11. ASSUME NEW a \in Sender, SendOne(a) PROVE TypeInv'
  <2>1. PICK p \in task[a].targets :
            /\ At(a, "send") /\ UNCHANGED <<conn, maps, req, turn>>
            /\ Delivers(p, a[2], task[a].event) \/ Fails(p)
            /\ \/ task' = [task EXCEPT ![a].targets = @ \ {p}]
               \/ task' = [task EXCEPT ![a].targets = @ \ {p}, ![a].stale = @ \cup {p}]
    BY <1>11 DEF SendOne
  <2>2. PICK r \in Request : a = Handler(r) \/ a = Forwarder(r)
    BY SenderCases
  <2>3. /\ a \in Actor /\ a[2] = r /\ task[a].at = "send" /\ TaskFits(a) /\ RequestFits(r)
        /\ task[a] \in Task
    BY <1>0, <2>1, <2>2, Actors DEF At, Fits
  <2>4. p \in Known /\ task[a].event \in 0 .. Complete
    BY <2>1, <2>2, <2>3, PushCenterAssumption DEF TaskFits, RequestFits, Complete, H, F, Task
  <2>5. /\ Alone(a) /\ task'[a].at = "send" /\ task'[a].targets = task[a].targets \ {p}
        /\ task'[a].event = task[a].event /\ task'[a].stale \subseteq task[a].stale \cup {p}
    BY <1>0, <2>1, <2>3, SendOneMoves
  <2>6. TaskFits(a)'
    BY <2>1, <2>3, <2>4, <2>5 DEF TaskFits, Known
  <2>7. Fits'
    BY <1>0, <1>a, <2>1, <2>3, <2>5, <2>6, SendingFits DEF Sending
  <2>8. StoreOK'
    BY <1>0, <2>1, <2>3, <2>4, DeliversOK DEF StoreOK, Known
  <2>9. QED
    BY <2>5, <2>7, <2>8 DEF TypeInv, Alone
<1>12. ASSUME NEW a \in Sender, AllSent(a) PROVE TypeInv'
  <2>1. task[a].at = "send" /\ a \in Actor /\ UNCHANGED <<conn, shut, maps, req, turn, got, owed>>
    BY <1>12, SenderCases DEF AllSent, At
  <2>2. MovesTo(a, Back(a)) \/ MovesTo(a, "drop")
    BY <1>0, <1>12, <2>1, AllSentMoves
  <2>3. TaskFits(a)'
    BY <1>0, <2>1, <2>2 DEF Fits, TaskFits, Known, MovesTo, Back
  <2>4. Fits'
    BY <1>0, <1>a, <2>1, <2>2, <2>3, SendingFits DEF Sending, Dropping, MovesTo
  <2>5. QED
    BY <2>1, <2>2, <2>4, OnlyTask DEF Alone, MovesTo
<1>13. ASSUME NEW a \in Actor, Drop(a) PROVE TypeInv'
  <2>1. PICK p \in task[a].stale :
            /\ task[a].at = "drop" /\ peers' = peers \ {p}
            /\ task' = [task EXCEPT ![a].at = "unfollow", ![a].peer = p, ![a].stale = @ \ {p}]
            /\ UNCHANGED <<conn, shut, follows, audience, req, turn, got, owed>>
    BY <1>13 DEF Drop, At
  <2>2. /\ Alone(a) /\ task'[a].at = "unfollow" /\ task'[a].targets = task[a].targets
        /\ task'[a].event = task[a].event /\ task'[a].peer = p
        /\ task'[a].stale = task[a].stale \ {p}
    BY <1>0, <2>1, DropMoves
  <2>3. TaskFits(a)'
    BY <1>0, <2>1, <2>2 DEF Fits, TaskFits, Known
  <2>4. Fits'
    BY <1>0, <1>a, <2>1, <2>2, <2>3, DroppingFits DEF Dropping
  <2>5. StoreOK'
    BY <1>0, <2>1 DEF StoreOK, Known
  <2>6. QED
    BY <2>2, <2>4, <2>5 DEF TypeInv, Alone
<1>14. ASSUME NEW a \in Actor, Unregistered(a), task[a].at \in Dropping,
              UNCHANGED <<conn, req, produced>>
       PROVE  Fits' /\ task' \in [Actor -> Task]
  <2>1. /\ Alone(a) /\ task'[a].at \in {Back(a), "drop"} /\ task'[a].targets = task[a].targets
        /\ task'[a].event = task[a].event /\ task'[a].stale = task[a].stale
    BY <1>0, <1>14, UnregisteredMoves
  <2>2. TaskFits(a)'
    BY <1>0, <1>14, <2>1 DEF Fits, TaskFits, Known, Back
  <2>3. QED
    BY <1>0, <1>a, <1>14, <2>1, <2>2, DroppingFits DEF Dropping, Alone
<1>15. ASSUME NEW a \in Actor, Unfollow(a) PROVE TypeInv'
  <2> DEFINE p == task[a].peer
  <2>1. /\ task[a].at = "unfollow" /\ p \in Peer
        /\ follows' = [follows EXCEPT ![p] = NoSession]
        /\ UNCHANGED <<conn, shut, peers, audience, req, turn, got, owed>>
        /\ \/ Unregistered(a)
           \/ /\ follows[p] # NoSession
              /\ task' = [task EXCEPT ![a].at = "evict", ![a].leaves = follows[p]]
    BY <1>0, <1>15 DEF Unfollow, At, Fits, TaskFits
  <2>0. StoreOK'
    BY <1>0, <2>1 DEF StoreOK, Known
  <2>2. CASE Unregistered(a)
    BY <1>14, <2>1, <2>2, <2>0 DEF Dropping, TypeInv
  <2>3. CASE /\ follows[p] # NoSession
             /\ task' = [task EXCEPT ![a].at = "evict", ![a].leaves = follows[p]]
    <3>1. PICK q \in Session : q = follows[p]
      BY <1>0, <2>1, <2>3 DEF StoreOK
    <3>2. /\ Alone(a) /\ task'[a].at = "evict" /\ task'[a].targets = task[a].targets
          /\ task'[a].event = task[a].event /\ task'[a].stale = task[a].stale
          /\ task'[a].peer = task[a].peer /\ task'[a].leaves = q
      <4>1. task' = [task EXCEPT ![a].at = "evict", ![a].leaves = q]
        BY <2>3, <3>1
      <4>2. "evict" \in Label /\ q \in Session \cup {NoSession}
        BY DEF Label
      <4>3. QED
        BY <1>0, <4>1, <4>2, LeavesMoves
    <3>3. TaskFits(a)'
      BY <1>0, <2>1, <3>2 DEF Fits, TaskFits, Known
    <3>4. Fits'
      BY <1>0, <1>a, <2>1, <3>2, <3>3, DroppingFits DEF Dropping
    <3>5. QED
      BY <2>0, <3>2, <3>4 DEF Alone, TypeInv
  <2>4. QED
    BY <2>1, <2>2, <2>3
<1>16. ASSUME NEW a \in Actor, Evict(a) PROVE TypeInv'
  <2>1. /\ task[a].at = "evict" /\ Unregistered(a)
        /\ audience' = [audience EXCEPT ![task[a].leaves] = @ \ {task[a].peer}]
        /\ UNCHANGED <<conn, shut, peers, follows, req, turn, got, owed>>
        /\ task[a].leaves \in Session
    BY <1>0, <1>16 DEF Evict, RemoveFromSession, At, Fits, TaskFits
  <2>2. StoreOK'
    BY <1>0, <2>1 DEF StoreOK, Known
  <2>3. QED
    BY <1>14, <2>1, <2>2 DEF TypeInv, Dropping
<1>17. ASSUME NEW r \in Request, Refuse(r) \/ TurnEnds(r) \/ Await(r) \/ Emit(r) PROVE TypeInv'
  <2>1. PICK l \in {"await", "awaitError", "complete", "done", "emit"} :
            /\ Goto(Handler(r), l)
            /\ l = "emit" => produced[r] < MaxEvents
    BY <1>17 DEF Refuse, TurnEnds, Await, Emit, At
  <2>2. /\ H(r).at \in {"check", "turn", "await", "awaitError"}
        /\ UNCHANGED <<conn, shut, maps, req, turn, got, owed>>
    BY <1>17 DEF Refuse, TurnEnds, Await, Emit, At, H
  <2>3. l \in Label
    BY DEF Label
  <2>4. Fits' /\ task' \in [Actor -> Task]
    BY <1>0, <1>a, <1>b, <2>1, <2>2, <2>3, Begun, HandlerFits
       DEF RequestFits, HandlerLabel, Chatting, Sending, Dropping
  <2>5. QED
    BY <2>2, <2>4, OnlyTask
<1>18. ASSUME NEW r \in Request, Start(r) PROVE TypeInv'
  <2>1. /\ H(r).at = "check" /\ Goto(Handler(r), "turn") /\ UNCHANGED <<conn, maps, req, turn>>
        /\ Delivers(req[r].peer, r, 0) \/ Fails(req[r].peer)
    BY <1>18 DEF Start, At, H
  <2>2. Fits' /\ task' \in [Actor -> Task]
    BY <1>0, <1>a, <1>b, <2>1, Begun, HandlerFits
       DEF RequestFits, HandlerLabel, Chatting, Sending, Dropping, Label
  <2>3. req[r].peer \in Known /\ 0 \in 0 .. Complete
    BY <2>1, Begun, PushCenterAssumption DEF Complete
  <2>4. StoreOK'
    BY <1>0, <2>1, <2>3, DeliversOK DEF StoreOK, Known
  <2>5. QED
    BY <2>2, <2>4 DEF TypeInv
<1>19. ASSUME NEW r \in Request, Produce(r) PROVE TypeInv'
  <2> DEFINE n == produced[r] + 1
  <2>1. /\ H(r).at = "emit" /\ Goto(Handler(r), "turn") /\ Enqueue(r, n)
        /\ produced' = [produced EXCEPT ![r] = n]
        /\ owed' = owed \cup {<<p, r, n>> : p \in {q \in Peer : Follows(q, req[r].session)}}
        /\ UNCHANGED <<conn, shut, maps, req, got>>
    BY <1>19 DEF Produce, At, H
  <2>2. n \in 1 .. MaxEvents
    BY <1>0, <2>1, Begun, PushCenterAssumption DEF RequestFits, StoreOK
  <2>3. Fits' /\ task' \in [Actor -> Task]
    BY <1>0, <1>a, <1>b, <2>1, Begun, HandlerFits
       DEF RequestFits, HandlerLabel, Chatting, Sending, Dropping, Label
  <2>4. produced' \in [Request -> 0 .. MaxEvents]
    BY <1>0, <2>1, <2>2 DEF StoreOK
  <2>5. queue' \in [Request -> Seq(1 .. MaxEvents)] /\ \A q \in Request : Len(queue'[q]) <= Room
    <3>1. CASE UNCHANGED queue
      BY <1>0, <3>1 DEF StoreOK
    <3>2. CASE Len(queue[r]) < Room /\ queue' = [queue EXCEPT ![r] = Append(@, n)]
      <4>1. queue[r] \in Seq(1 .. MaxEvents)
        BY <1>0 DEF StoreOK
      <4>2. /\ Append(queue[r], n) \in Seq(1 .. MaxEvents)
            /\ Len(Append(queue[r], n)) = Len(queue[r]) + 1 /\ Len(queue[r]) \in Nat
        BY <2>2, <4>1
      <4>3. Len(Append(queue[r], n)) <= Room
        BY <3>2, <4>2, PushCenterAssumption
      <4>4. QED
        BY <1>0, <3>2, <4>2, <4>3 DEF StoreOK
    <3>3. QED
      BY <2>1, <3>1, <3>2 DEF Enqueue
  <2>6. owed' \subseteq Peer \X Request \X (1 .. MaxEvents)
    BY <1>0, <2>1, <2>2 DEF StoreOK
  <2>7. StoreOK'
    BY <1>0, <2>1, <2>4, <2>5, <2>6 DEF StoreOK, Known
  <2>8. QED
    BY <2>3, <2>7 DEF TypeInv
<1>20. ASSUME NEW r \in Request, SendComplete(r) PROVE TypeInv'
  <2>1. /\ H(r).at = "complete" /\ UNCHANGED <<conn, maps, req, turn>>
        /\ task' = [task EXCEPT ![Handler(r)].at = "audience", ![Handler(r)].event = Complete]
        /\ Delivers(req[r].peer, r, Complete) \/ Fails(req[r].peer)
    BY <1>20 DEF SendComplete, At, H
  <2>2. /\ Alone(Handler(r)) /\ H(r)'.at = "audience" /\ H(r)'.event = Complete
        /\ H(r)'.targets = H(r).targets /\ H(r)'.stale = H(r).stale
    <3>1. Handler(r) \in Actor /\ "audience" \in Label /\ Complete \in Nat
      BY Actors, PushCenterAssumption DEF Label, Complete
    <3>2. /\ Alone(Handler(r)) /\ task'[Handler(r)].at = "audience"
          /\ task'[Handler(r)].event = Complete
          /\ task'[Handler(r)].targets = task[Handler(r)].targets
          /\ task'[Handler(r)].stale = task[Handler(r)].stale
      BY <1>0, <2>1, <3>1, EventMoves
    <3>3. QED
      BY <3>2 DEF H
  <2>3. Fits'
    BY <1>0, <1>a, <2>1, <2>2, Begun, HandlerFits
       DEF RequestFits, HandlerLabel, Chatting, Sending, Dropping
  <2>4. req[r].peer \in Known /\ Complete \in 0 .. Complete
    BY <2>1, Begun, PushCenterAssumption DEF Complete
  <2>5. StoreOK'
    BY <1>0, <2>1, <2>4, DeliversOK DEF StoreOK, Known
  <2>6. QED
    BY <2>2, <2>3, <2>5 DEF TypeInv, Alone
<1>21. ASSUME NEW r \in Request, Take(r) PROVE TypeInv'
  <2>1. /\ F(r).at = "take" /\ queue[r] # <<>> /\ queue' = [queue EXCEPT ![r] = Tail(@)]
        /\ task' = [task EXCEPT ![Forwarder(r)].at = "direct", ![Forwarder(r)].event = Head(queue[r])]
        /\ UNCHANGED <<conn, shut, maps, req, produced, got, owed>>
    BY <1>21 DEF Take, At, F
  <2>2. /\ queue[r] \in Seq(1 .. MaxEvents) /\ Head(queue[r]) \in 1 .. MaxEvents
        /\ Tail(queue[r]) \in Seq(1 .. MaxEvents) /\ Len(Tail(queue[r])) <= Room
    <3>1. queue[r] \in Seq(1 .. MaxEvents) /\ Len(queue[r]) <= Room
      BY <1>0 DEF StoreOK
    <3>2. Head(queue[r]) \in 1 .. MaxEvents /\ Tail(queue[r]) \in Seq(1 .. MaxEvents)
      BY <2>1, <3>1, HeadTailProperties
    <3>3. Len(Tail(queue[r])) = Len(queue[r]) - 1 /\ Len(queue[r]) \in Nat
      BY <2>1, <3>1, HeadTailProperties
    <3>4. QED
      BY <3>1, <3>2, <3>3, PushCenterAssumption
  <2>3. PICK n \in 1 .. MaxEvents : n = Head(queue[r])
    BY <2>2
  <2>4. /\ Alone(Forwarder(r)) /\ F(r)'.at = "direct" /\ F(r)'.event = n
        /\ F(r)'.targets = F(r).targets /\ F(r)'.stale = F(r).stale
    <3>1. Forwarder(r) \in Actor /\ "direct" \in Label /\ n \in Nat
      BY Actors, PushCenterAssumption DEF Label
    <3>2. /\ Alone(Forwarder(r)) /\ task'[Forwarder(r)].at = "direct"
          /\ task'[Forwarder(r)].event = n
          /\ task'[Forwarder(r)].targets = task[Forwarder(r)].targets
          /\ task'[Forwarder(r)].stale = task[Forwarder(r)].stale
      BY <1>0, <2>1, <2>3, <3>1, EventMoves
    <3>3. QED
      BY <3>2 DEF F
  <2>5. F(r)'.event <= MaxEvents
    BY <2>4, PushCenterAssumption
  <2>6. Fits'
    BY <1>0, <1>a, <2>1, <2>4, <2>5, ForwarderFits DEF ForwarderLabel, Sending, Dropping
  <2>7. StoreOK'
    BY <1>0, <2>1, <2>2 DEF StoreOK, Known
  <2>8. QED
    BY <2>4, <2>6, <2>7 DEF TypeInv, Alone
<1>22. ASSUME NEW r \in Request, Finish(r) PROVE TypeInv'
  <2>1. /\ F(r).at = "take" /\ Goto(Forwarder(r), "done")
        /\ UNCHANGED <<conn, shut, maps, req, turn, got, owed>>
    BY <1>22 DEF Finish, At, F
  <2>2. Fits' /\ task' \in [Actor -> Task]
    BY <1>0, <1>a, <1>c, <2>1, Begun, ForwarderFits DEF RequestFits, ForwarderLabel, Label
  <2>3. QED
    BY <2>1, <2>2, OnlyTask
<1>23. ASSUME NEW r \in Request, Direct(r) PROVE TypeInv'
  <2>1. /\ F(r).at = "direct" /\ UNCHANGED <<conn, maps, req, produced>>
        /\ \/ /\ Delivers(req[r].peer, r, F(r).event) /\ Goto(Forwarder(r), "audience")
              /\ UNCHANGED queue
           \/ /\ Fails(req[r].peer) /\ Goto(Forwarder(r), "done")
              /\ queue' = [queue EXCEPT ![r] = <<>>]
    BY <1>23 DEF Direct, CloseChannel, At, F
  <2>2. Fits' /\ task' \in [Actor -> Task]
    BY <1>0, <1>a, <1>c, <2>1, Begun, ForwarderFits
       DEF RequestFits, ForwarderLabel, Label, Sending
  <2>3. req[r].peer \in Known /\ F(r).event \in 0 .. Complete
    BY <2>1, Begun, PushCenterAssumption DEF Complete, RequestFits, Task
  <2>4. queue' \in [Request -> Seq(1 .. MaxEvents)] /\ \A q \in Request : Len(queue'[q]) <= Room
    <3>1. <<>> \in Seq(1 .. MaxEvents) /\ Len(<<>>) <= Room
      BY PushCenterAssumption
    <3>2. QED
      BY <1>0, <2>1, <3>1 DEF StoreOK
  <2>5. StoreOK'
    BY <1>0, <2>1, <2>3, <2>4, DeliversOK DEF StoreOK, Known
  <2>6. QED
    BY <2>2, <2>5 DEF TypeInv
<1>24. CASE UNCHANGED vars
  <2>1. UNCHANGED <<conn, shut, maps, req, turn, task, got, owed>>
    BY <1>24 DEF vars
  <2>2. Fits'
    BY <1>0, <2>1 DEF Fits, TaskFits, RequestFits, Known, H, F
  <2>3. QED
    BY <1>0, <2>1, <2>2, OnlyTask
<1>25. QED
  BY <1>1, <1>2, <1>3, <1>4, <1>6, <1>7, <1>8, <1>9, <1>10, <1>11, <1>12, <1>13, <1>15,
     <1>16, <1>17, <1>18, <1>19, <1>20, <1>21, <1>22, <1>23, <1>24
     DEF Next, Subscribe, Chat, Forward, Broadcast, Unregister

(* Every variable has its type; a channel never holds more than Room.       *)
THEOREM TypesHold == Spec => []TypeOK
<1>1. Init => TypeInv
  BY TypeInit
<1>2. TypeInv /\ [Next]_vars => TypeInv'
  BY TypeStep
<1>3. TypeInv => TypeOK
  BY TypeImplies
<1>4. QED
  BY <1>1, <1>2, <1>3, PTL DEF Spec

(***************************************************************************)
(* The order of events.                                                    *)
(***************************************************************************)
Ordered(r) == InStep(r) /\ \A p \in Peer : Sent(p, r)

LEMMA OrderedAll == OrderInv <=> \A r \in Request : Ordered(r)
BY DEF OrderInv, Ordered

(* What Ordered says of a request is about these. *)
Rests(r) ==
    /\ H(r)'.at = H(r).at /\ H(r)'.event = H(r).event /\ H(r)'.targets = H(r).targets
    /\ F(r)'.at = F(r).at /\ F(r)'.event = F(r).event /\ F(r)'.targets = F(r).targets
    /\ req'[r] = req[r] /\ produced'[r] = produced[r] /\ queue'[r] = queue[r]
    /\ \A p \in Peer : got'[p][r] = got[p][r]

(* Who may still be sent what, by the request. *)
LEMMA UnsentOf ==
    ASSUME NEW r \in Request
    PROVE  /\ H(r).at \notin {"direct", "audience", "sinks", "send"} => Unsent(Handler(r)) = {}
           /\ F(r).at \notin {"direct", "audience", "sinks", "send"} => Unsent(Forwarder(r)) = {}
           /\ H(r).at \in {"audience", "sinks"} => Unsent(Handler(r)) = Peer \ {req[r].peer}
           /\ F(r).at \in {"audience", "sinks"} => Unsent(Forwarder(r)) = Peer \ {req[r].peer}
           /\ H(r).at = "send" => Unsent(Handler(r)) = H(r).targets
           /\ F(r).at = "send" => Unsent(Forwarder(r)) = F(r).targets
           /\ F(r).at = "direct" => Unsent(Forwarder(r)) = Peer
BY Actors DEF Unsent, H, F, Of

LEMMA UnsentAfter ==
    ASSUME NEW r \in Request
    PROVE  /\ H(r)'.at \notin {"direct", "audience", "sinks", "send"} => Unsent(Handler(r))' = {}
           /\ F(r)'.at \notin {"direct", "audience", "sinks", "send"} => Unsent(Forwarder(r))' = {}
           /\ H(r)'.at \in {"audience", "sinks"} => Unsent(Handler(r))' = Peer \ {req'[r].peer}
           /\ F(r)'.at \in {"audience", "sinks"} => Unsent(Forwarder(r))' = Peer \ {req'[r].peer}
           /\ H(r)'.at = "send" => Unsent(Handler(r))' = H(r)'.targets
           /\ F(r)'.at = "send" => Unsent(Forwarder(r))' = F(r)'.targets
           /\ F(r)'.at = "direct" => Unsent(Forwarder(r))' = Peer
BY Actors DEF Unsent, H, F, Of

LEMMA RestsOrdered ==
    ASSUME NEW r \in Request, Ordered(r), Rests(r)
    PROVE  Ordered(r)'
<1>1. Unsent(Handler(r))' = Unsent(Handler(r)) /\ Unsent(Forwarder(r))' = Unsent(Forwarder(r))
  BY Actors DEF Unsent, Of, Rests, H, F
<1>2. InStep(r)'
  BY DEF Ordered, InStep, Rests, H, F
<1>3. ASSUME NEW p \in Peer PROVE Sent(p, r)'
  <2>1. Sent(p, r) /\ got'[p][r] = got[p][r]
    BY DEF Ordered, Rests
  <2>2. Top(r)' = Top(r)
    BY DEF Top, Rests
  <2>3. task'[Handler(r)].event = task[Handler(r)].event
        /\ task'[Forwarder(r)].event = task[Forwarder(r)].event
    BY DEF Rests, H, F
  <2>4. QED
    BY <1>1, <2>1, <2>2, <2>3 DEF Sent
<1>4. QED
  BY <1>2, <1>3 DEF Ordered

(* The handler or the forwarder of one request moves. *)
LEMMA OneRequest ==
    ASSUME OrderInv, NEW r \in Request,
           \A b \in Actor \ {Handler(r), Forwarder(r)} : task'[b] = task[b],
           \A s \in Request \ {r} : /\ req'[s] = req[s] /\ produced'[s] = produced[s]
                                    /\ queue'[s] = queue[s]
                                    /\ \A p \in Peer : got'[p][s] = got[p][s],
           Ordered(r)'
    PROVE  OrderInv'
<1>1. ASSUME NEW s \in Request, s # r PROVE Ordered(s)'
  <2>1. Handler(s) \in Actor \ {Handler(r), Forwarder(r)} /\ Forwarder(s) \in Actor \ {Handler(r), Forwarder(r)}
    BY <1>1, Actors
  <2>2. H(s)' = H(s) /\ F(s)' = F(s)
    BY <2>1 DEF H, F
  <2>3. Rests(s)
    BY <1>1, <2>2 DEF Rests
  <2>4. QED
    BY <2>3, OrderedAll, RestsOrdered
<1>2. QED
  BY <1>1 DEF OrderInv, Ordered

(* No handler or forwarder moves. *)
LEMMA RequestsRest ==
    ASSUME OrderInv, UNCHANGED <<req, turn, got>>,
           \A b \in Sender : task'[b].at = task[b].at /\ task'[b].event = task[b].event
                             /\ task'[b].targets = task[b].targets
    PROVE  OrderInv'
<1>1. ASSUME NEW s \in Request PROVE Rests(s)
  <2>1. Handler(s) \in Sender /\ Forwarder(s) \in Sender
    BY Actors
  <2>2. UNCHANGED <<req, produced, queue, got>>
    BY DEF turn
  <2>3. QED
    BY <2>1, <2>2 DEF Rests, H, F
<1>2. QED
  BY <1>1, OrderedAll, RestsOrdered DEF OrderInv, Ordered

(* Nobody is sent anything. *)
LEMMA SentStays ==
    ASSUME TypeInv, NEW r \in Request, NEW p \in Peer, Sent(p, r), got'[p][r] = got[p][r],
           Top(r)' \in Nat, Top(r) <= Top(r)',
           \A a \in {Handler(r), Forwarder(r)} :
               p \in Unsent(a)' => p \in Unsent(a) /\ task'[a].event = task[a].event
    PROVE  Sent(p, r)'
<1>1. got[p][r] \in Seq(0 .. Complete)
  BY DEF TypeInv, StoreOK
<1>2. \A i \in DOMAIN got[p][r] : got[p][r][i] \in Nat
  BY <1>1, PushCenterAssumption DEF Complete
<1>3. Top(r) \in Nat
  BY Begun, PushCenterAssumption DEF Top, Task, Complete
<1>4. \A i \in DOMAIN got'[p][r] : got'[p][r][i] <= Top(r)'
  <2>1. ASSUME NEW i \in DOMAIN got[p][r] PROVE got[p][r][i] <= Top(r)'
    <3>1. got[p][r][i] \in Nat /\ got[p][r][i] <= Top(r)
      BY <1>2 DEF Sent
    <3>2. QED
      BY <1>3, <3>1
  <2>2. QED
    BY <2>1
<1>5. QED
  BY <1>4 DEF Sent

(* A sequence that grows goes on growing when something greater is appended. *)
Growing(s) == \A i, j \in DOMAIN s : i < j => s[i] < s[j]

LEMMA AppendGrows ==
    ASSUME NEW s \in Seq(Nat), NEW n \in Nat, Growing(s), \A i \in DOMAIN s : s[i] < n
    PROVE  /\ Growing(Append(s, n)) /\ \A i \in DOMAIN Append(s, n) : Append(s, n)[i] <= n
           /\ DOMAIN s \subseteq DOMAIN Append(s, n)
           /\ \A i \in DOMAIN s : Append(s, n)[i] = s[i]
           /\ \A i \in DOMAIN Append(s, n) : i \in DOMAIN s \/ Append(s, n)[i] = n
           /\ \E i \in DOMAIN Append(s, n) : Append(s, n)[i] = n
<1>1. /\ DOMAIN Append(s, n) = 1 .. Len(s) + 1 /\ DOMAIN s = 1 .. Len(s) /\ Len(s) \in Nat
      /\ \A i \in 1 .. Len(s) : Append(s, n)[i] = s[i]
      /\ Append(s, n)[Len(s) + 1] = n
  OBVIOUS
<1>2. ASSUME NEW i \in DOMAIN Append(s, n), NEW j \in DOMAIN Append(s, n), i < j
      PROVE  Append(s, n)[i] < Append(s, n)[j]
  <2>1. i \in 1 .. Len(s)
    BY <1>1, <1>2
  <2>2. CASE j \in 1 .. Len(s)
    BY <1>1, <1>2, <2>1, <2>2 DEF Growing
  <2>3. CASE j = Len(s) + 1
    BY <1>1, <2>1, <2>3
  <2>4. QED
    BY <1>1, <2>2, <2>3
<1>3. ASSUME NEW i \in DOMAIN Append(s, n) PROVE Append(s, n)[i] <= n
  <2>1. CASE i \in 1 .. Len(s)
    BY <1>1, <2>1
  <2>2. CASE i = Len(s) + 1
    BY <1>1, <2>2
  <2>3. QED
    BY <1>1, <2>1, <2>2
<1>4. Growing(Append(s, n))
  BY <1>2 DEF Growing
<1>5. Len(s) + 1 \in DOMAIN Append(s, n) /\ \A i \in 1 .. Len(s) + 1 : i \in 1 .. Len(s) \/ i = Len(s) + 1
  BY <1>1
<1>6. QED
  BY <1>1, <1>3, <1>4, <1>5

(* p is sent n, and nobody sends it anything more before the next event.    *)
LEMMA SentNext ==
    ASSUME TypeInv, NEW r \in Request, NEW p \in Peer, Sent(p, r), NEW n \in Nat,
           got'[p][r] = Append(got[p][r], n), \A i \in DOMAIN got[p][r] : got[p][r][i] < n,
           n = Top(r)', \A a \in {Handler(r), Forwarder(r)} : p \notin Unsent(a)'
    PROVE  Sent(p, r)'
<1>1. PICK g \in Seq(0 .. Complete) : g = got[p][r]
  BY DEF TypeInv, StoreOK
<1>2. g \in Seq(Nat)
  BY PushCenterAssumption DEF Complete
<1>3. Growing(g) /\ \A i \in DOMAIN g : g[i] < n
  BY <1>1 DEF Sent, Growing
<1>4. Growing(Append(g, n)) /\ \A i \in DOMAIN Append(g, n) : Append(g, n)[i] <= n
  BY <1>2, <1>3, AppendGrows
<1>5. QED
  BY <1>1, <1>4 DEF Sent, Growing

(* What sending p the event n of r does to got. *)
LEMMA DeliversGot ==
    ASSUME TypeInv, NEW p \in Peer, NEW r \in Request, NEW n, Delivers(p, r, n) \/ Fails(p)
    PROVE  /\ \A q \in Peer, s \in Request : q # p \/ s # r => got'[q][s] = got[q][s]
           /\ got'[p][r] = got[p][r] \/ got'[p][r] = Append(got[p][r], n)
<1>1. got \in [Peer -> [Request -> Seq(0 .. Complete)]]
  BY DEF TypeInv, StoreOK
<1>2. UNCHANGED got \/ got' = [got EXCEPT ![p][r] = Append(@, n)]
  BY DEF Delivers, Fails
<1>3. QED
  BY <1>1, <1>2

(* The handler subscribes, or gives up before it starts a turn. *)
LEMMA EarlyOrdered ==
    ASSUME TypeInv, NEW r \in Request, Ordered(r), H(r).at \in Early,
           H(r)'.at \in Early \cup {"done"}, H(r)'.event = H(r).event,
           F(r)'.event = F(r).event,
           F(r)'.at \in {"idle", "take"}, F(r)'.at = "idle" => F(r).at = "idle",
           H(r)'.at \in Early => F(r)'.at = IF H(r)'.at = "check" THEN "take" ELSE "idle",
           produced'[r] = produced[r], queue'[r] = queue[r],
           \A p \in Peer : got'[p][r] = got[p][r]
    PROVE  Ordered(r)'
<1>1. /\ F(r).event = 0 /\ produced[r] = 0 /\ H(r).event = 0
      /\ \A p \in Peer : got[p][r] = <<>>
      /\ F(r).at = "idle" => queue[r] = <<>>
      /\ \A i \in DOMAIN queue[r] : F(r).event < queue[r][i] /\ queue[r][i] <= produced[r]
      /\ \A i, j \in DOMAIN queue[r] : i < j => queue[r][i] < queue[r][j]
  BY DEF Ordered, InStep
<1>2. Complete # 0
  BY PushCenterAssumption DEF Complete
<1>3. \A a \in {Handler(r), Forwarder(r)} : task'[a].at # "send"
  BY DEF H, F, Early
<1>4. InStep(r)'
  BY <1>1, <1>2, <1>3 DEF InStep, Early, Sending, Dropping
<1>5. ASSUME NEW p \in Peer PROVE Sent(p, r)'
  BY <1>1 DEF Sent
<1>6. QED
  BY <1>4, <1>5 DEF Ordered

(* The handler goes on with its turn, or to what follows it. *)
LEMMA TurnOrdered ==
    ASSUME TypeInv, NEW r \in Request, Ordered(r),
           H(r).at \in {"turn", "emit", "await", "awaitError"},
           H(r)'.at \in {"turn", "emit", "await", "awaitError", "complete", "done"},
           H(r)'.at = "complete" => F(r).at = "done",
           H(r)'.event = H(r).event, F(r)' = F(r), req'[r] = req[r],
           produced'[r] = produced[r], queue'[r] = queue[r],
           \A p \in Peer : got'[p][r] = got[p][r]
    PROVE  Ordered(r)'
<1>1. H(r).event = 0 /\ InStep(r) /\ Complete # 0
  BY PushCenterAssumption DEF Ordered, InStep, Complete
<1>2. task'[Handler(r)].at # "send" /\ task'[Forwarder(r)] = task[Forwarder(r)]
  BY DEF H, F
<1>3. InStep(r)'
  BY <1>1, <1>2 DEF InStep, Early, Sending, Dropping, H
<1>4. ASSUME NEW p \in Peer PROVE Sent(p, r)'
  <2>1. Top(r)' = Top(r) /\ Top(r) \in Nat
    BY Begun, PushCenterAssumption DEF Top, Task, Complete
  <2>2. Unsent(Handler(r))' = {}
    BY UnsentAfter
  <2>3. Unsent(Forwarder(r))' = Unsent(Forwarder(r))
    BY <1>2, Actors DEF Unsent, Of
  <2>4. Sent(p, r)
    BY DEF Ordered
  <2>5. QED
    BY <1>2, <2>1, <2>2, <2>3, <2>4, SentStays
<1>5. QED
  BY <1>3, <1>4 DEF Ordered

(* A task that broadcasts or unregisters goes on, or back: nobody is sent   *)
(* anything.                                                                *)
LEMMA SendingOrdered ==
    ASSUME TypeInv, OrderInv, NEW a \in Sender, Alone(a),
           task[a].at \in Sending, task'[a].at \in Sending \cup {Back(a)},
           task'[a].event = task[a].event, UNCHANGED <<req, turn, got>>,
           Unsent(a)' \subseteq Unsent(a),
           task'[a].at = "send" => Of(a).peer \notin task'[a].targets
    PROVE  OrderInv'
<1>1. PICK r \in Request : a = Handler(r) \/ a = Forwarder(r)
  BY SenderCases
<1>2. InStep(r) /\ RequestFits(r) /\ Complete # 0 /\ Of(a) = req[r]
  BY <1>1, Actors, Begun, PushCenterAssumption DEF OrderInv, Complete
<1>3. UNCHANGED <<req, produced, queue, got>>
  BY DEF turn
<1>4. /\ \A b \in {Handler(r), Forwarder(r)} \ {a} : task'[b] = task[b]
      /\ \A b \in {Handler(r), Forwarder(r)} : task'[b].event = task[b].event
  BY <1>1, Actors DEF Alone
<1>5. InStep(r)'
  <2>1. CASE a = Handler(r)
    <3>1. /\ F(r)' = F(r) /\ H(r)'.at \in Sending \cup {"done"} /\ H(r).at \in Sending
          /\ H(r)'.event = H(r).event
      BY <1>4, <2>1, Actors DEF H, F, Back
    <3>2. \A b \in {Handler(r), Forwarder(r)} : task'[b].at = "send" => req[r].peer \notin task'[b].targets
      BY <1>2, <1>4, <2>1 DEF InStep
    <3>3. QED
      BY <1>2, <1>3, <3>1, <3>2 DEF InStep, Sending, Dropping, Early
  <2>2. CASE a = Forwarder(r)
    <3>1. /\ H(r)' = H(r) /\ F(r)'.at \in Sending \cup {"take"} /\ F(r).at \in Sending
          /\ F(r)'.event = F(r).event
      BY <1>4, <2>2, Actors DEF H, F, Back
    <3>2. \A b \in {Handler(r), Forwarder(r)} : task'[b].at = "send" => req[r].peer \notin task'[b].targets
      BY <1>2, <1>4, <2>2 DEF InStep
    <3>3. H(r).at \notin Early /\ F(r).at \notin {"done", "idle"}
      BY <1>2, <3>1 DEF InStep, Sending, Dropping
    <3>4. QED
      BY <1>2, <1>3, <3>1, <3>2, <3>3 DEF InStep, Sending, Dropping
  <2>3. QED
    BY <1>1, <2>1, <2>2
<1>6. ASSUME NEW p \in Peer PROVE Sent(p, r)'
  <2>1. Top(r)' = Top(r) /\ Top(r) \in Nat
    BY <1>4, Begun, PushCenterAssumption DEF Top, Task, Complete, H, F
  <2>2. \A b \in {Handler(r), Forwarder(r)} : Unsent(b)' \subseteq Unsent(b)
    BY <1>3, <1>4 DEF Unsent, Of
  <2>3. Sent(p, r)
    BY DEF OrderInv
  <2>4. QED
    BY <1>3, <1>4, <2>1, <2>2, <2>3, SentStays
<1>7. QED
  BY <1>1, <1>3, <1>5, <1>6, OneRequest DEF Alone, Ordered

(* A broadcast sends its event to one of its targets. *)
LEMMA SendOneOrdered ==
    ASSUME TypeInv, OrderInv, NEW a \in Sender, SendOne(a)
    PROVE  OrderInv'
<1>1. PICK p \in task[a].targets :
          /\ At(a, "send") /\ UNCHANGED <<conn, maps, req, turn>>
          /\ Delivers(p, a[2], task[a].event) \/ Fails(p)
          /\ \/ task' = [task EXCEPT ![a].targets = @ \ {p}]
             \/ task' = [task EXCEPT ![a].targets = @ \ {p}, ![a].stale = @ \cup {p}]
  BY DEF SendOne
<1>2. PICK r \in Request : a = Handler(r) \/ a = Forwarder(r)
  BY SenderCases
<1>3. /\ a \in Actor /\ a[2] = r /\ task[a].at = "send" /\ Of(a) = req[r] /\ TypeOK
      /\ TaskFits(a) /\ InStep(r) /\ RequestFits(r) /\ task[a] \in Task
      /\ Handler(r) \in Actor /\ Forwarder(r) \in Actor
  BY <1>1, <1>2, Actors, Begun, TypeImplies DEF At, OrderInv, H, F
<1>4. /\ Alone(a) /\ task'[a].at = "send" /\ task'[a].targets = task[a].targets \ {p}
      /\ task'[a].event = task[a].event
  BY <1>1, <1>3, SendOneMoves
<1>5. p \in Peer /\ UNCHANGED <<req, produced, queue>>
  BY <1>1, <1>3 DEF TaskFits, Known, turn
<1>6. /\ \A b \in {Handler(r), Forwarder(r)} \ {a} : task'[b] = task[b]
      /\ \A b \in {Handler(r), Forwarder(r)} : /\ task'[b].event = task[b].event
                                               /\ task'[b].at = task[b].at
                                               /\ task'[b].targets \subseteq task[b].targets
  BY <1>3, <1>4 DEF Alone
<1>7. /\ \A q \in Peer, s \in Request : q # p \/ s # r => got'[q][s] = got[q][s]
      /\ got'[p][r] = got[p][r] \/ got'[p][r] = Append(got[p][r], task[a].event)
  BY <1>1, <1>3, <1>5, DeliversGot
<1>8. H(r).at \notin Early /\ Complete # 0
  BY <1>2, <1>3, PushCenterAssumption DEF InStep, Early, H, F, Complete
<1>9. InStep(r)'
  <2>1. /\ H(r)'.at = H(r).at /\ H(r)'.event = H(r).event
        /\ F(r)'.at = F(r).at /\ F(r)'.event = F(r).event
    BY <1>6 DEF H, F
  <2>2. \A b \in {Handler(r), Forwarder(r)} : task'[b].at = "send" => req[r].peer \notin task'[b].targets
    BY <1>3, <1>6 DEF InStep
  <2>3. QED
    BY <1>3, <1>5, <1>8, <2>1, <2>2 DEF InStep
<1>10. Top(r)' = Top(r) /\ Top(r) \in Nat
  BY <1>6, Begun, PushCenterAssumption DEF Top, Task, Complete, H, F
<1>11. \A b \in {Handler(r), Forwarder(r)} : Unsent(b)' \subseteq Unsent(b)
  BY <1>5, <1>6 DEF Unsent, Of
<1>12. ASSUME NEW q \in Peer, got'[q][r] = got[q][r] PROVE Sent(q, r)'
  BY <1>6, <1>10, <1>11, <1>12, SentStays DEF OrderInv
<1>13. ASSUME got'[p][r] = Append(got[p][r], task[a].event) PROVE Sent(p, r)'
  <2>1. Sent(p, r) /\ \A i \in DOMAIN got[p][r] : got[p][r][i] < task[a].event
    BY <1>1, <1>2, <1>3, <1>5 DEF OrderInv, Sent, Unsent
  <2>2. task[a].event \in Nat /\ task[a].event = Top(r)'
    <3>1. CASE a = Handler(r)
      BY <1>3, <1>10, <3>1 DEF Top, InStep, H, Sending, Task
    <3>2. CASE a = Forwarder(r)
      BY <1>3, <1>10, <3>2 DEF Top, InStep, F, Task
    <3>3. QED
      BY <1>2, <3>1, <3>2
  <2>3. \A b \in {Handler(r), Forwarder(r)} : p \notin Unsent(b)'
    <3>1. p \notin Unsent(a)'
      BY <1>4 DEF Unsent
    <3>2. CASE a = Handler(r)
      <4>1. F(r).at = "done"
        BY <1>3, <3>2 DEF InStep, H, Sending
      <4>2. F(r)'.at = "done"
        BY <1>6, <4>1 DEF F
      <4>3. QED
        BY <3>1, <3>2, <4>2, UnsentAfter
    <3>3. CASE a = Forwarder(r)
      <4>1. H(r).at \notin Sending /\ H(r).at \in HandlerLabel
        BY <1>3, <3>3 DEF InStep, F, RequestFits
      <4>2. H(r)'.at \notin {"direct", "audience", "sinks", "send"}
        BY <1>6, <4>1 DEF H, Sending, HandlerLabel, Chatting, Dropping
      <4>3. QED
        BY <3>1, <3>3, <4>2, UnsentAfter
    <3>4. QED
      BY <1>2, <3>2, <3>3
  <2>4. QED
    BY <1>5, <1>13, <2>1, <2>2, <2>3, SentNext
<1>14. \A q \in Peer : Sent(q, r)'
  BY <1>7, <1>12, <1>13
<1>15. QED
  BY <1>2, <1>4, <1>5, <1>7, <1>9, <1>14, OneRequest DEF Alone, Ordered

(* chat.start. *)
LEMMA StartOrdered ==
    ASSUME TypeInv, OrderInv, NEW r \in Request, Start(r)
    PROVE  OrderInv'
<1>0. PICK p \in Peer : p = req[r].peer
  BY Begun DEF Start, At, H, Known
<1>1. /\ H(r).at = "check" /\ Goto(Handler(r), "turn") /\ UNCHANGED <<conn, maps, req, turn>>
      /\ Delivers(p, r, 0) \/ Fails(p)
  BY <1>0 DEF Start, At, H
<1>2. /\ Handler(r) \in Actor /\ TypeOK /\ InStep(r) /\ UNCHANGED <<req, produced, queue>>
  BY <1>1, Actors, TypeImplies DEF OrderInv, turn
<1>3. /\ Alone(Handler(r)) /\ H(r)'.at = "turn" /\ H(r)'.event = H(r).event /\ F(r)' = F(r)
  <2>1. MovesTo(Handler(r), "turn")
    BY <1>1, <1>2, GotoMoves DEF Label, TypeOK
  <2>2. QED
    BY <2>1, Actors DEF MovesTo, Alone, H, F
<1>4. /\ \A q \in Peer, s \in Request : q # p \/ s # r => got'[q][s] = got[q][s]
      /\ got'[p][r] = got[p][r]
         \/ got'[p][r] = Append(got[p][r], 0)
  BY <1>1, <1>2, DeliversGot
<1>5. /\ F(r).event = 0 /\ produced[r] = 0 /\ H(r).event = 0 /\ F(r).at = "take"
      /\ Complete # 0 /\ \A q \in Peer : got[q][r] = <<>>
  BY <1>1, <1>2, PushCenterAssumption DEF InStep, Early, Complete
<1>6. InStep(r)'
  <2>1. \A a \in {Handler(r), Forwarder(r)} : task'[a].at # "send"
    BY <1>3, <1>5 DEF H, F
  <2>2. QED
    BY <1>2, <1>3, <1>5, <2>1 DEF InStep, Early, Sending, Dropping
<1>7. ASSUME NEW q \in Peer PROVE Sent(q, r)'
  <2>1. got'[q][r] = <<>> \/ got'[q][r] = Append(<<>>, 0)
    BY <1>4, <1>5
  <2>2. got'[q][r] = <<>> \/ got'[q][r] = <<0>>
    BY <2>1
  <2>3. Top(r)' = 0
    BY <1>3, <1>5 DEF Top
  <2>4. Unsent(Handler(r))' = {} /\ Unsent(Forwarder(r))' = {}
    BY <1>3, <1>5, UnsentAfter
  <2>5. QED
    BY <2>2, <2>3, <2>4 DEF Sent
<1>8. QED
  BY <1>2, <1>3, <1>4, <1>6, <1>7, OneRequest DEF Alone, Ordered

(* chat.complete, to the requester. *)
LEMMA SendCompleteOrdered ==
    ASSUME TypeInv, OrderInv, NEW r \in Request, SendComplete(r)
    PROVE  OrderInv'
<1>0. PICK p \in Peer : p = req[r].peer
  BY Begun DEF SendComplete, At, H, Known
<1>1. /\ H(r).at = "complete" /\ UNCHANGED <<conn, maps, req, turn>>
      /\ task' = [task EXCEPT ![Handler(r)].at = "audience", ![Handler(r)].event = Complete]
      /\ Delivers(p, r, Complete) \/ Fails(p)
  BY <1>0 DEF SendComplete, At, H
<1>2. /\ Handler(r) \in Actor /\ TypeOK /\ InStep(r) /\ RequestFits(r)
      /\ UNCHANGED <<req, produced, queue>> /\ F(r) \in Task
  BY <1>1, Actors, Begun, TypeImplies DEF OrderInv, turn
<1>3. Alone(Handler(r)) /\ H(r)'.at = "audience" /\ H(r)'.event = Complete /\ F(r)' = F(r)
  <2>1. "audience" \in Label /\ Complete \in Nat
    BY PushCenterAssumption DEF Label, Complete
  <2>2. /\ Alone(Handler(r)) /\ task'[Handler(r)].at = "audience"
        /\ task'[Handler(r)].event = Complete
    BY <1>1, <1>2, <2>1, EventMoves
  <2>3. QED
    BY <2>2, Actors DEF Alone, H, F
<1>4. /\ \A q \in Peer, s \in Request : q # p \/ s # r => got'[q][s] = got[q][s]
      /\ got'[p][r] = got[p][r] \/ got'[p][r] = Append(got[p][r], Complete)
  BY <1>1, <1>2, DeliversGot
<1>5. /\ F(r).at = "done" /\ F(r).event \in Nat /\ F(r).event < Complete /\ Complete \in Nat
      /\ Top(r) = F(r).event /\ Top(r)' = Complete
  BY <1>1, <1>2, <1>3, PushCenterAssumption DEF InStep, RequestFits, Complete, Task, Top
<1>6. InStep(r)'
  <2>1. \A a \in {Handler(r), Forwarder(r)} : task'[a].at # "send"
    BY <1>3, <1>5 DEF H, F
  <2>2. QED
    BY <1>1, <1>2, <1>3, <1>5, <2>1 DEF InStep, Early
<1>7. ASSUME NEW q \in Peer PROVE Sent(q, r)'
  <2>1. Sent(q, r) /\ \A i \in DOMAIN got[q][r] : got[q][r][i] < Complete
    <3>1. Sent(q, r) /\ got[q][r] \in Seq(0 .. Complete)
      BY DEF OrderInv, TypeInv, StoreOK
    <3>2. ASSUME NEW i \in DOMAIN got[q][r] PROVE got[q][r][i] < Complete
      <4>1. got[q][r][i] \in 0 .. Complete /\ got[q][r][i] <= F(r).event
        BY <1>5, <3>1 DEF Sent
      <4>2. QED
        BY <1>5, <4>1
    <3>3. QED
      BY <3>1, <3>2
  <2>2. Unsent(Handler(r))' = Peer \ {p} /\ Unsent(Forwarder(r))' = {}
    BY <1>0, <1>2, <1>3, <1>5, UnsentAfter
  <2>3. CASE got'[q][r] = got[q][r]
    <3>1. \A i \in DOMAIN got[q][r] : got[q][r][i] <= Complete
      <4>1. got[q][r] \in Seq(0 .. Complete)
        BY DEF TypeInv, StoreOK
      <4>2. QED
        BY <4>1, PushCenterAssumption DEF Complete
    <3>2. task'[Handler(r)].event = Complete
      BY <1>3 DEF H
    <3>3. QED
      BY <1>5, <2>1, <2>2, <2>3, <3>1, <3>2 DEF Sent
  <2>4. CASE q = p /\ got'[q][r] = Append(got[q][r], Complete)
    BY <1>2, <1>5, <2>1, <2>2, <2>4, SentNext
  <2>5. QED
    BY <1>4, <2>3, <2>4
<1>8. QED
  BY <1>2, <1>3, <1>4, <1>6, <1>7, OneRequest DEF Alone, Ordered

(* The turn produces an event. *)
LEMMA ProduceOrdered ==
    ASSUME TypeInv, OrderInv, NEW r \in Request, Produce(r)
    PROVE  OrderInv'
<1>0. PICK n \in Nat : n = produced[r] + 1 /\ produced[r] \in Nat
  BY PushCenterAssumption DEF TypeInv, StoreOK
<1>1. /\ H(r).at = "emit" /\ Goto(Handler(r), "turn") /\ Enqueue(r, n)
      /\ produced' = [produced EXCEPT ![r] = n] /\ UNCHANGED <<conn, req, got>>
  BY <1>0 DEF Produce, At, H
<1>2. /\ Handler(r) \in Actor /\ TypeOK /\ InStep(r) /\ F(r).event \in Nat
      /\ queue[r] \in Seq(1 .. MaxEvents)
  BY Actors, Begun, TypeImplies, PushCenterAssumption DEF OrderInv, Task, TypeInv, StoreOK, Complete
<1>3. Alone(Handler(r)) /\ H(r)'.at = "turn" /\ H(r)'.event = H(r).event /\ F(r)' = F(r)
  <2>1. MovesTo(Handler(r), "turn")
    BY <1>1, <1>2, GotoMoves DEF Label, TypeOK
  <2>2. QED
    BY <2>1, Actors DEF MovesTo, Alone, H, F
<1>4. /\ H(r).event = 0 /\ Complete # 0 /\ produced'[r] = n
      /\ \A s \in Request \ {r} : produced'[s] = produced[s]
  BY <1>1, <1>2, PushCenterAssumption DEF InStep, Complete, TypeInv, StoreOK
<1>5. /\ \A s \in Request \ {r} : queue'[s] = queue[s]
      /\ \/ F(r).at = "done" /\ queue'[r] = queue[r]
         \/ F(r).at # "done" /\ queue'[r] = Append(queue[r], n)
  BY <1>1 DEF Enqueue, At, F, TypeInv, StoreOK
<1>6. /\ F(r).at \in {"idle", "done"} => queue'[r] = <<>>
      /\ \A i \in DOMAIN queue'[r] : F(r).event < queue'[r][i] /\ queue'[r][i] <= n
      /\ Growing(queue'[r])
  <2>1. PICK q \in Seq(1 .. MaxEvents) : q = queue[r]
    BY <1>2
  <2>2. /\ q \in Seq(Nat) /\ Growing(q) /\ F(r).event < n
        /\ \A i \in DOMAIN q : q[i] \in Nat /\ F(r).event < q[i] /\ q[i] < n
    <3>1. q \in Seq(Nat) /\ \A i \in DOMAIN q : q[i] \in Nat
      BY PushCenterAssumption
    <3>2. /\ Growing(q) /\ F(r).event <= produced[r]
          /\ \A i \in DOMAIN q : F(r).event < q[i] /\ q[i] <= produced[r]
      BY <1>2, <2>1 DEF InStep, Growing
    <3>3. QED
      BY <1>0, <1>2, <3>1, <3>2
  <2>3. CASE F(r).at = "done" /\ queue'[r] = q
    BY <1>2, <2>1, <2>2, <2>3 DEF InStep
  <2>4. CASE F(r).at # "done" /\ queue'[r] = Append(q, n)
    <3>1. F(r).at # "idle"
      BY <1>1, <1>2 DEF InStep
    <3>2. /\ Growing(Append(q, n)) /\ \A i \in DOMAIN Append(q, n) : Append(q, n)[i] <= n
          /\ \A i \in DOMAIN q : Append(q, n)[i] = q[i]
          /\ \A i \in DOMAIN Append(q, n) : i \in DOMAIN q \/ Append(q, n)[i] = n
      BY <2>2, AppendGrows
    <3>3. \A i \in DOMAIN Append(q, n) : F(r).event < Append(q, n)[i]
      BY <2>2, <3>2
    <3>4. QED
      BY <2>4, <3>1, <3>2, <3>3
  <2>5. QED
    BY <1>5, <2>1, <2>3, <2>4
<1>7. InStep(r)'
  <2>1. task'[Handler(r)].at # "send" /\ task'[Forwarder(r)] = task[Forwarder(r)]
    BY <1>3 DEF H, F
  <2>2. F(r).event <= n
    BY <1>0, <1>2 DEF InStep
  <2>3. req'[r] = req[r]
    BY <1>1
  <2>4. QED
    BY <1>1, <1>2, <1>3, <1>4, <1>6, <2>1, <2>2, <2>3
       DEF InStep, Early, Sending, Dropping, Growing
<1>8. ASSUME NEW p \in Peer PROVE Sent(p, r)'
  <2>1. Top(r)' = Top(r) /\ Top(r) \in Nat
    BY <1>2, <1>3, PushCenterAssumption DEF Top, Complete
  <2>2. Unsent(Handler(r))' = {}
    BY <1>3, UnsentAfter
  <2>3. task'[Forwarder(r)] = task[Forwarder(r)] /\ Unsent(Forwarder(r))' = Unsent(Forwarder(r))
    BY <1>1, <1>3, Actors DEF Unsent, Of, F
  <2>4. Sent(p, r) /\ got'[p][r] = got[p][r]
    BY <1>1 DEF OrderInv
  <2>5. QED
    BY <2>1, <2>2, <2>3, <2>4, SentStays
<1>9. QED
  BY <1>1, <1>3, <1>4, <1>5, <1>7, <1>8, OneRequest DEF Alone, Ordered

(* The forwarder takes the next event. *)
LEMMA TakeOrdered ==
    ASSUME TypeInv, OrderInv, NEW r \in Request, Take(r)
    PROVE  OrderInv'
<1>0. PICK q \in Seq(1 .. MaxEvents) : q = queue[r] /\ q # <<>>
  BY DEF Take, TypeInv, StoreOK
<1>1. PICK n \in Nat : n = q[1] /\ n = Head(q)
  BY <1>0, PushCenterAssumption
<1>2. /\ F(r).at = "take" /\ queue' = [queue EXCEPT ![r] = Tail(@)]
      /\ task' = [task EXCEPT ![Forwarder(r)].at = "direct", ![Forwarder(r)].event = n]
      /\ UNCHANGED <<conn, shut, maps, req, produced, got, owed>>
  BY <1>0, <1>1 DEF Take, At, F
<1>3. /\ Forwarder(r) \in Actor /\ TypeOK /\ InStep(r) /\ F(r).event \in Nat
      /\ produced[r] \in Nat
  BY Actors, TypeImplies, Numbers DEF OrderInv
<1>4. Alone(Forwarder(r)) /\ F(r)'.at = "direct" /\ F(r)'.event = n /\ H(r)' = H(r)
  <2>1. "direct" \in Label
    BY DEF Label
  <2>2. Alone(Forwarder(r)) /\ task'[Forwarder(r)].at = "direct" /\ task'[Forwarder(r)].event = n
    BY <1>2, <1>3, <2>1, EventMoves
  <2>3. QED
    BY <2>2, Actors DEF Alone, H, F
<1>5. /\ H(r).event # Complete /\ H(r).at # "complete" /\ H(r).at \notin Sending
      /\ H(r).at \notin Early \ {"check"} /\ H(r).at \in HandlerLabel
  BY <1>2, <1>3, Begun DEF InStep, Early, RequestFits
<1>6. /\ DOMAIN q = 1 .. Len(q) /\ Len(q) \in Nat \ {0} /\ queue'[r] = Tail(q)
      /\ DOMAIN Tail(q) = 1 .. Len(q) - 1
      /\ \A i \in 1 .. Len(q) - 1 : Tail(q)[i] = q[i + 1]
      /\ \A i \in 1 .. Len(q) : q[i] \in Nat
  BY <1>0, <1>2, PushCenterAssumption DEF TypeInv, StoreOK
<1>7. /\ \A i \in 1 .. Len(q) : F(r).event < q[i] /\ q[i] <= produced[r]
      /\ \A i, j \in 1 .. Len(q) : i < j => q[i] < q[j]
  BY <1>0, <1>3, <1>6 DEF InStep
<1>8. /\ F(r).event < n /\ n <= produced[r] /\ produced[r] # 0
      /\ \A i \in DOMAIN Tail(q) : n < Tail(q)[i] /\ Tail(q)[i] <= produced[r]
      /\ \A i, j \in DOMAIN Tail(q) : i < j => Tail(q)[i] < Tail(q)[j]
  <2>1. 1 \in 1 .. Len(q) /\ \A i \in 1 .. Len(q) - 1 : i + 1 \in 1 .. Len(q) /\ 1 < i + 1
    BY <1>6
  <2>2. F(r).event < n /\ n <= produced[r]
    BY <1>1, <1>7, <2>1
  <2>3. \A i \in DOMAIN Tail(q) : n < Tail(q)[i] /\ Tail(q)[i] <= produced[r]
    BY <1>1, <1>6, <1>7, <2>1
  <2>4. ASSUME NEW i \in DOMAIN Tail(q), NEW j \in DOMAIN Tail(q), i < j
        PROVE  Tail(q)[i] < Tail(q)[j]
    <3>1. i + 1 \in 1 .. Len(q) /\ j + 1 \in 1 .. Len(q) /\ i + 1 < j + 1
      BY <1>6, <2>4
    <3>2. QED
      BY <1>6, <1>7, <3>1
  <2>5. QED
    BY <1>3, <2>2, <2>3, <2>4
<1>9. InStep(r)'
  <2>1. task'[Handler(r)] = task[Handler(r)] /\ task'[Forwarder(r)].at # "send"
    BY <1>4 DEF H, F
  <2>2. produced'[r] = produced[r] /\ req'[r] = req[r]
    BY <1>2
  <2>3. H(r).at # "check"
    BY <1>3, <1>8 DEF InStep, Early
  <2>4. QED
    BY <1>2, <1>3, <1>4, <1>5, <1>6, <1>8, <2>1, <2>2, <2>3 DEF InStep
<1>10. ASSUME NEW p \in Peer PROVE Sent(p, r)'
  <2>1. Sent(p, r) /\ got'[p][r] = got[p][r] /\ got[p][r] \in Seq(0 .. Complete)
    BY <1>2 DEF OrderInv, TypeInv, StoreOK
  <2>2. Top(r)' = n /\ Top(r) = F(r).event
    BY <1>4, <1>5 DEF Top
  <2>3. ASSUME NEW i \in DOMAIN got[p][r] PROVE got[p][r][i] < n /\ got[p][r][i] <= n
    <3>1. PICK g \in Seq(0 .. Complete) : g = got[p][r]
      BY <2>1
    <3>2. i \in DOMAIN g /\ g[i] <= F(r).event
      BY <2>1, <2>2, <3>1 DEF Sent
    <3>3. g[i] \in 0 .. Complete
      <4>1. \A j \in 1 .. Len(g) : g[j] \in 0 .. Complete
        BY <3>1, ElementOfSeq
      <4>2. DOMAIN g = 1 .. Len(g)
        BY <3>1
      <4>3. QED
        BY <3>2, <4>1, <4>2
    <3>4. g[i] \in Nat /\ F(r).event < n /\ F(r).event \in Nat
      BY <1>3, <1>8, <3>3
    <3>5. QED
      BY <3>1, <3>2, <3>4
  <2>4. Unsent(Handler(r))' = {}
    BY <1>4, <1>5, UnsentAfter DEF HandlerLabel, Chatting, Sending, Dropping
  <2>5. task'[Forwarder(r)].event = n
    BY <1>4 DEF F
  <2>6. QED
    BY <2>1, <2>2, <2>3, <2>4, <2>5 DEF Sent
<1>11. QED
  BY <1>2, <1>4, <1>9, <1>10, OneRequest DEF Alone, Ordered, TypeInv, StoreOK

(* The forwarder learns that nothing more comes. *)
LEMMA FinishOrdered ==
    ASSUME TypeInv, OrderInv, NEW r \in Request, Finish(r)
    PROVE  OrderInv'
<1>1. /\ F(r).at = "take" /\ Goto(Forwarder(r), "done") /\ queue[r] = <<>>
      /\ H(r).at \in {"await", "awaitError", "done"}
      /\ UNCHANGED <<conn, shut, maps, req, produced, queue, got, owed>>
  BY DEF Finish, At, F, H, turn
<1>2. Forwarder(r) \in Actor /\ TypeOK /\ InStep(r)
  BY Actors, TypeImplies DEF OrderInv
<1>3. Alone(Forwarder(r)) /\ F(r)'.at = "done" /\ F(r)'.event = F(r).event /\ H(r)' = H(r)
  <2>1. MovesTo(Forwarder(r), "done")
    BY <1>1, <1>2, GotoMoves DEF Label, TypeOK
  <2>2. QED
    BY <2>1, Actors DEF MovesTo, Alone, H, F
<1>4. InStep(r)'
  <2>1. task'[Handler(r)].at # "send" /\ task'[Forwarder(r)].at # "send"
    BY <1>1, <1>3 DEF H, F
  <2>2. QED
    BY <1>1, <1>2, <1>3, <2>1 DEF InStep, Early
<1>5. ASSUME NEW p \in Peer PROVE Sent(p, r)'
  <2>1. Top(r)' = Top(r) /\ Top(r) \in Nat
    BY <1>3, Begun, PushCenterAssumption DEF Top, Task, Complete
  <2>2. Unsent(Handler(r))' = {} /\ Unsent(Forwarder(r))' = {}
    BY <1>1, <1>3, UnsentAfter
  <2>3. QED
    BY <1>1, <2>1, <2>2, SentStays DEF OrderInv
<1>6. QED
  BY <1>1, <1>3, <1>4, <1>5, OneRequest DEF Alone, Ordered

(* The forwarder sends to the requester, or gives up. *)
LEMMA DirectOrdered ==
    ASSUME TypeInv, OrderInv, NEW r \in Request, Direct(r)
    PROVE  OrderInv'
<1>0. PICK p \in Peer : p = req[r].peer
  BY Begun DEF Direct, At, F, Known
<1>1. PICK l \in {"audience", "done"} :
          /\ F(r).at = "direct" /\ Goto(Forwarder(r), l)
          /\ Delivers(p, r, F(r).event) \/ Fails(p)
          /\ l = "done" => queue' = [queue EXCEPT ![r] = <<>>]
          /\ l = "audience" => UNCHANGED queue
          /\ UNCHANGED <<conn, maps, req, produced>>
  BY <1>0 DEF Direct, CloseChannel, At, F
<1>2. PICK n \in Nat : n = F(r).event
  BY Begun, PushCenterAssumption DEF Task, Complete
<1>3. /\ Forwarder(r) \in Actor /\ TypeOK /\ InStep(r) /\ l \in Label
      /\ \A s \in Request \ {r} : queue'[s] = queue[s]
      /\ l = "done" => queue'[r] = <<>>
      /\ l = "audience" => queue'[r] = queue[r]
  BY <1>1, Actors, TypeImplies DEF OrderInv, Label, TypeInv, StoreOK
<1>4. /\ Alone(Forwarder(r)) /\ F(r)'.at = l /\ F(r)'.event = n /\ H(r)' = H(r)
  <2>1. MovesTo(Forwarder(r), l)
    BY <1>1, <1>3, GotoMoves DEF TypeOK
  <2>2. QED
    BY <1>2, <2>1, Actors DEF MovesTo, Alone, H, F
<1>5. /\ H(r).event # Complete /\ H(r).at # "complete" /\ H(r).at \notin Sending
      /\ H(r).at \notin Early /\ H(r).at \in HandlerLabel
  BY <1>1, <1>3, Begun DEF InStep, Early, RequestFits
<1>6. /\ \A q \in Peer, s \in Request : q # p \/ s # r => got'[q][s] = got[q][s]
      /\ got'[p][r] = got[p][r] \/ got'[p][r] = Append(got[p][r], n)
  BY <1>1, <1>2, DeliversGot
<1>7. InStep(r)'
  <2>1. task'[Handler(r)] = task[Handler(r)] /\ task'[Forwarder(r)].at # "send"
    BY <1>1, <1>4 DEF H, F
  <2>2. QED
    BY <1>1, <1>2, <1>3, <1>4, <1>5, <2>1 DEF InStep
<1>8. ASSUME NEW q \in Peer PROVE Sent(q, r)'
  <2>1. Unsent(Handler(r))' = {}
    BY <1>4, <1>5, UnsentAfter DEF HandlerLabel, Chatting, Sending, Dropping
  <2>2. Unsent(Forwarder(r)) = Peer /\ p \notin Unsent(Forwarder(r))'
    BY <1>0, <1>1, <1>4, UnsentOf, UnsentAfter
  <2>3. Top(r)' = n /\ Top(r) = n
    BY <1>2, <1>4, <1>5 DEF Top
  <2>4. Sent(q, r) /\ task'[Forwarder(r)].event = n /\ task[Forwarder(r)].event = n
    BY <1>2, <1>4 DEF F, OrderInv
  <2>5. CASE got'[q][r] = got[q][r]
    <3>1. Unsent(Forwarder(r))' \subseteq Peer
      BY <1>1, <1>4, UnsentAfter
    <3>2. QED
      BY <2>1, <2>2, <2>3, <2>4, <2>5, <3>1, SentStays
  <2>6. CASE q = p /\ got'[q][r] = Append(got[q][r], n)
    <3>1. \A i \in DOMAIN got[p][r] : got[p][r][i] < n
      BY <2>2, <2>4, <2>6 DEF Sent
    <3>2. QED
      BY <2>1, <2>2, <2>3, <2>4, <2>6, <3>1, SentNext
  <2>7. QED
    BY <1>6, <2>5, <2>6
<1>9. QED
  BY <1>1, <1>3, <1>4, <1>6, <1>7, <1>8, OneRequest DEF Alone, Ordered

(* What the maps hold of p stays, or more is added. *)
MapsKept(p) ==
    /\ p \in peers => p \in peers'
    /\ follows'[p] = follows[p]
    /\ \A s \in Session : p \in audience[s] => p \in audience'[s]

(* A peer is unregistered. *)
LEMMA UnregisterMoves ==
    ASSUME TypeInv, NEW a \in Actor, Unregister(a)
    PROVE  /\ Alone(a) /\ task[a].at \in Dropping /\ task'[a].at \in Dropping \cup {Back(a)}
           /\ task'[a].event = task[a].event /\ task'[a].targets = task[a].targets
           /\ task'[a].stale \subseteq task[a].stale
           /\ task'[a].at = "unfollow" => task'[a].peer \in task[a].stale
           /\ task'[a].at = "evict" => task[a].at = "unfollow" /\ task'[a].peer = task[a].peer
           /\ UNCHANGED <<conn, shut, req, turn, got, owed>>
<1>1. TypeOK /\ TaskFits(a)
  BY TypeImplies DEF TypeInv, Fits
<1>2. CASE Drop(a)
  <2>1. PICK p \in task[a].stale :
            /\ task[a].at = "drop" /\ peers' = peers \ {p}
            /\ task' = [task EXCEPT ![a].at = "unfollow", ![a].peer = p, ![a].stale = @ \ {p}]
            /\ UNCHANGED <<conn, shut, follows, audience, req, turn, got, owed>>
    BY <1>2 DEF Drop, At
  <2>2. /\ Alone(a) /\ task'[a].at = "unfollow" /\ task'[a].targets = task[a].targets
        /\ task'[a].event = task[a].event /\ task'[a].stale = task[a].stale \ {p}
        /\ task'[a].peer = p
    BY <1>1, <2>1, DropMoves
  <2>3. QED
    BY <2>1, <2>2 DEF Dropping
<1>3. CASE Unfollow(a)
  <2>1. /\ task[a].at = "unfollow" /\ UNCHANGED <<conn, shut, req, turn, got, owed>>
        /\ \/ Unregistered(a)
           \/ task' = [task EXCEPT ![a].at = "evict", ![a].leaves = follows[task[a].peer]]
    BY <1>3 DEF Unfollow, At
  <2>2. CASE Unregistered(a)
    BY <1>1, <2>1, <2>2, UnregisteredMoves DEF Dropping, Back
  <2>3. CASE task' = [task EXCEPT ![a].at = "evict", ![a].leaves = follows[task[a].peer]]
    <3>1. PICK q \in Session \cup {NoSession} : q = follows[task[a].peer]
      BY <1>1, <2>1 DEF TaskFits, TypeInv, StoreOK
    <3>2. "evict" \in Label /\ task' = [task EXCEPT ![a].at = "evict", ![a].leaves = q]
      BY <2>3, <3>1 DEF Label
    <3>3. QED
      BY <1>1, <2>1, <3>2, LeavesMoves DEF Dropping
  <2>4. QED
    BY <2>1, <2>2, <2>3
<1>4. CASE Evict(a)
  <2>1. task[a].at = "evict" /\ Unregistered(a) /\ UNCHANGED <<conn, shut, req, turn, got, owed>>
    BY <1>4 DEF Evict, At
  <2>2. QED
    BY <1>1, <2>1, UnregisteredMoves DEF Dropping, Back
<1>5. QED
  BY <1>2, <1>3, <1>4 DEF Unregister

LEMMA UnregisterOrdered ==
    ASSUME TypeInv, OrderInv, NEW a \in Actor, Unregister(a)
    PROVE  OrderInv'
<1>1. /\ Alone(a) /\ task[a].at \in Dropping /\ task'[a].at \in Dropping \cup {Back(a)}
      /\ task'[a].event = task[a].event /\ UNCHANGED <<req, turn, got>>
  BY UnregisterMoves
<1>2. CASE a \in Sender
  <2>1. Unsent(a)' = {}
    BY <1>1, <1>2, SenderCases DEF Unsent, Dropping, Back
  <2>2. QED
    BY <1>1, <1>2, <2>1, SendingOrdered DEF Sending, Dropping, Back
<1>3. CASE a \notin Sender
  BY <1>1, <1>3, RequestsRest DEF Alone, Actor
<1>4. QED
  BY <1>2, <1>3

(* The handler subscribes. *)
LEMMA SubscribeOrdered ==
    ASSUME TypeInv, OrderInv, NEW r \in Request, Subscribe(r) \/ Refuse(r)
    PROVE  OrderInv'
<1>1. /\ H(r).at \in Early \ {"idle"} /\ UNCHANGED <<conn, req, produced, queue, got>>
      /\ TypeOK /\ Ordered(r) /\ Handler(r) \in Actor
  BY TypeImplies, Actors, OrderedAll
     DEF Subscribe, Register, Bind, Leave, Join, Refuse, At, H, Early, turn
<1>2. H(r).at # "check" => F(r).at = "idle"
  BY <1>1 DEF Ordered, InStep
<1>3. ASSUME Alone(Handler(r)), H(r)'.event = H(r).event,
             \/ H(r)'.at \in {"bind", "leave", "join"} /\ H(r).at # "check"
             \/ H(r)'.at = "done"
      PROVE  OrderInv'
  <2>1. F(r)' = F(r)
    BY <1>3, Actors DEF Alone, F
  <2>2. F(r).at \in {"idle", "take"}
    BY <1>1 DEF Ordered, InStep
  <2>3. Ordered(r)'
    BY <1>1, <1>2, <1>3, <2>1, <2>2, EarlyOrdered DEF Early
  <2>4. QED
    BY <1>1, <1>3, <2>3, OneRequest DEF Alone
<1>4. ASSUME Opens(r), H(r).at # "check" PROVE OrderInv'
  <2>1. /\ H(r)'.at = "check" /\ F(r)'.at = "take"
        /\ H(r)'.event = H(r).event /\ F(r)'.event = F(r).event
    BY <1>4 DEF Opens, H, F
  <2>2. Ordered(r)'
    BY <1>1, <1>2, <2>1, EarlyOrdered DEF Early
  <2>3. QED
    BY <1>1, <1>4, <2>2, OneRequest DEF Opens
<1>5. ASSUME NEW l \in {"bind", "join", "done"}, Goto(Handler(r), l), l = "done" \/ H(r).at # "check"
      PROVE  OrderInv'
  <2>1. MovesTo(Handler(r), l)
    BY <1>1, <1>5, GotoMoves DEF Label, TypeOK
  <2>2. QED
    BY <1>3, <1>5, <2>1 DEF MovesTo, H
<1>6. ASSUME Subscribed(r), H(r).at # "check" PROVE OrderInv'
  <2>1. CASE MovesTo(Handler(r), "done")
    BY <1>3, <2>1 DEF MovesTo, H
  <2>2. QED
    BY <1>1, <1>4, <1>6, <2>1, SubscribedMoves DEF TypeOK
<1>7. CASE Register(r)
  BY <1>5, <1>7 DEF Register, At, H
<1>8. CASE Bind(r)
  <2>1. H(r).at = "bind" /\ req[r].peer \in Peer
    BY <1>8, Begun DEF Bind, At, H, Known
  <2>2. \/ Subscribed(r)
        \/ Goto(Handler(r), "join")
        \/ task' = [task EXCEPT ![Handler(r)].at = "leave", ![Handler(r)].leaves = follows[req[r].peer]]
    BY <1>8 DEF Bind
  <2>3. CASE task' = [task EXCEPT ![Handler(r)].at = "leave", ![Handler(r)].leaves = follows[req[r].peer]]
    <3>1. PICK q \in Session \cup {NoSession} : q = follows[req[r].peer]
      BY <2>1 DEF TypeInv, StoreOK
    <3>2. "leave" \in Label /\ task' = [task EXCEPT ![Handler(r)].at = "leave", ![Handler(r)].leaves = q]
      BY <2>3, <3>1 DEF Label
    <3>3. /\ Alone(Handler(r)) /\ task'[Handler(r)].at = "leave"
          /\ task'[Handler(r)].event = task[Handler(r)].event
      BY <1>1, <3>2, LeavesMoves
    <3>4. QED
      BY <1>3, <2>1, <3>3 DEF H
  <2>4. QED
    BY <1>5, <1>6, <2>1, <2>2, <2>3
<1>9. CASE Leave(r)
  <2>1. /\ H(r).at = "leave"
        /\ task' = [task EXCEPT ![Handler(r)].at = "join", ![Handler(r)].leaves = NoSession]
    BY <1>9 DEF Leave, At, H
  <2>2. "join" \in Label
    BY DEF Label
  <2>3. /\ Alone(Handler(r)) /\ task'[Handler(r)].at = "join"
        /\ task'[Handler(r)].event = task[Handler(r)].event
    BY <1>1, <2>1, <2>2, LeavesMoves
  <2>4. QED
    BY <1>3, <2>1, <2>3 DEF H
<1>10. CASE Join(r)
  BY <1>6, <1>10 DEF Join, At, H
<1>11. CASE Refuse(r)
  BY <1>5, <1>11 DEF Refuse
<1>12. QED
  BY <1>7, <1>8, <1>9, <1>10, <1>11 DEF Subscribe

LEMMA OrderInit == Init => OrderInv
<1> SUFFICES ASSUME Init PROVE OrderInv
  OBVIOUS
<1>1. \A a \in Actor : task[a] = Idle
  BY DEF Init
<1>2. ASSUME NEW r \in Request PROVE InStep(r)
  BY <1>1, Actors, PushCenterAssumption
     DEF Init, InStep, Idle, H, F, Early, Sending, Dropping, Complete
<1>3. ASSUME NEW p \in Peer, NEW r \in Request PROVE Sent(p, r)
  BY DEF Init, Sent
<1>4. QED
  BY <1>2, <1>3 DEF OrderInv

LEMMA OrderStep == TypeInv /\ OrderInv /\ [Next]_vars => OrderInv'
<1> SUFFICES ASSUME TypeInv, OrderInv, [Next]_vars PROVE OrderInv'
  OBVIOUS
<1>0. TypeOK
  BY TypeImplies
<1>1. ASSUME NEW p \in Peer, Connect(p) PROVE OrderInv'
  BY <1>1, RequestsRest DEF Connect
<1>2. ASSUME NEW p \in Peer, Disconnect(p) PROVE OrderInv'
  <2>1. Alone(Closer(p)) /\ UNCHANGED <<req, turn, got>>
    BY <1>0, <1>2, DisconnectMoves DEF Disconnect
  <2>2. \A b \in Sender : task'[b] = task[b]
    BY <2>1, SenderCases, Actors DEF Alone
  <2>3. QED
    BY <2>1, <2>2, RequestsRest
<1>3. ASSUME NEW r \in Request, Receive(r) PROVE OrderInv'
  <2>1. /\ H(r).at = "idle" /\ Goto(Handler(r), "register")
        /\ UNCHANGED <<conn, produced, queue, got>>
        /\ \A s \in Request \ {r} : req'[s] = req[s]
    BY <1>0, <1>3 DEF Receive, At, H, TypeOK, turn
  <2>2. MovesTo(Handler(r), "register")
    BY <1>0, <2>1, Actors, GotoMoves DEF Label, TypeOK
  <2>3. H(r)'.at = "register" /\ H(r)'.event = H(r).event /\ F(r)' = F(r)
    BY <2>2, Actors DEF MovesTo, Alone, H, F
  <2>4. Ordered(r) /\ F(r).at = "idle"
    BY <2>1, OrderedAll DEF Ordered, InStep, Early
  <2>5. Ordered(r)'
    BY <2>1, <2>3, <2>4, EarlyOrdered DEF Early
  <2>6. QED
    BY <2>1, <2>2, <2>5, OneRequest DEF MovesTo, Alone
<1>4. ASSUME NEW r \in Request, Emit(r) \/ TurnEnds(r) \/ Await(r) PROVE OrderInv'
  <2>1. PICK l \in {"emit", "await", "awaitError", "complete", "done"} :
            Goto(Handler(r), l) /\ (l = "complete" => F(r).at = "done")
    BY <1>4 DEF Emit, TurnEnds, Await, At, F
  <2>2. /\ H(r).at \in {"turn", "await", "awaitError"}
        /\ UNCHANGED <<req, produced, queue, got>>
    BY <1>4 DEF Emit, TurnEnds, Await, At, H, turn
  <2>3. MovesTo(Handler(r), l)
    BY <1>0, <2>1, Actors, GotoMoves DEF Label, TypeOK
  <2>4. H(r)'.at = l /\ H(r)'.event = H(r).event /\ F(r)' = F(r)
    BY <2>3, Actors DEF MovesTo, Alone, H, F
  <2>5. Ordered(r)'
    BY <2>1, <2>2, <2>4, OrderedAll, TurnOrdered
  <2>6. QED
    BY <2>2, <2>3, <2>5, OneRequest DEF MovesTo, Alone
<1>5. ASSUME NEW a \in Sender, ReadAudience(a) PROVE OrderInv'
  <2>1. /\ task[a].at = "audience" /\ a \in Actor /\ UNCHANGED <<req, turn, got>>
        /\ Of(a).session \in Session
    BY <1>5, SenderCases, BegunSender DEF ReadAudience, At
  <2>2. /\ Alone(a) /\ task'[a].at \in {Back(a), "sinks"} /\ task'[a].event = task[a].event
    BY <1>0, <1>5, <2>1, ReadAudienceMoves
  <2>3. Unsent(a)' \subseteq Unsent(a)
    BY <2>1, <2>2 DEF Unsent, Of, Back
  <2>4. QED
    BY <2>1, <2>2, <2>3, SendingOrdered DEF Sending, Back
<1>6. ASSUME NEW a \in Sender, ReadSinks(a) PROVE OrderInv'
  <2>1. task[a].at = "sinks" /\ a \in Actor /\ UNCHANGED <<req, turn, got>>
    BY <1>6, SenderCases DEF ReadSinks, At
  <2>2. /\ Alone(a) /\ task'[a].at = "send" /\ task'[a].targets = Recipients(a)
        /\ task'[a].event = task[a].event
    BY <1>0, <1>6, <2>1, ReadSinksMoves
  <2>3. Recipients(a) \subseteq Peer \ {Of(a).peer}
    BY <1>0, <2>1 DEF Recipients, TypeOK
  <2>4. Unsent(a)' \subseteq Unsent(a)
    BY <2>1, <2>2, <2>3 DEF Unsent
  <2>5. QED
    BY <2>1, <2>2, <2>3, <2>4, SendingOrdered DEF Sending
<1>7. ASSUME NEW a \in Sender, AllSent(a) PROVE OrderInv'
  <2>1. task[a].at = "send" /\ a \in Actor /\ UNCHANGED <<req, turn, got>>
    BY <1>7, SenderCases DEF AllSent, At
  <2>2. PICK l \in {Back(a), "drop"} : MovesTo(a, l)
    BY <1>0, <1>7, <2>1, AllSentMoves
  <2>3. Unsent(a)' = {}
    BY <2>2 DEF Unsent, MovesTo, Back
  <2>4. QED
    BY <2>1, <2>2, <2>3, SendingOrdered DEF Sending, Dropping, MovesTo, Back
<1>8. CASE UNCHANGED vars
  BY <1>8, RequestsRest DEF vars
<1>9. QED
  BY <1>1, <1>2, <1>3, <1>4, <1>5, <1>6, <1>7, <1>8, SubscribeOrdered, UnregisterOrdered,
     StartOrdered, ProduceOrdered, SendCompleteOrdered, TakeOrdered, FinishOrdered,
     DirectOrdered, SendOneOrdered
     DEF Next, Chat, Forward, Broadcast

(* No client sees the events of a chat out of order or twice, whether it    *)
(* asked for the chat, watches the session or changes sessions meanwhile.   *)
THEOREM EventsInOrder == Spec => []OrderedOnce
<1>1. Init => TypeInv /\ OrderInv
  BY TypeInit, OrderInit
<1>2. TypeInv /\ OrderInv /\ [Next]_vars => (TypeInv /\ OrderInv)'
  BY TypeStep, OrderStep
<1>3. TypeInv /\ OrderInv => OrderedOnce
  BY DEF OrderInv, Sent, OrderedOnce
<1>4. QED
  BY <1>1, <1>2, <1>3, PTL DEF Spec

(***************************************************************************)
(* Watchers.                                                               *)
(***************************************************************************)
(* A step of the handler or the forwarder of r which is no broadcast and    *)
(* unregisters nobody.                                                      *)
Keeps(r) ==
    /\ \A b \in Actor \ {Handler(r), Forwarder(r)} : task'[b] = task[b]
    /\ \A a \in {Handler(r), Forwarder(r)} :
          \/ task'[a] = task[a]
          \/ task'[a].stale = task[a].stale /\ task'[a].at \notin {"unfollow", "evict"}
    /\ H(r)'.at # "idle" /\ (H(r).at = "done" => H(r)'.at = "done")

LEMMA HandlerKeeps ==
    ASSUME NEW r \in Request, Alone(Handler(r)), task'[Handler(r)].stale = task[Handler(r)].stale,
           task'[Handler(r)].at \notin {"idle", "unfollow", "evict"}, H(r).at # "done"
    PROVE  Keeps(r) /\ F(r)' = F(r)
BY Actors DEF Alone, Keeps, H, F

LEMMA ForwarderKeeps ==
    ASSUME TypeInv, NEW r \in Request, Alone(Forwarder(r)), F(r).at # "idle",
           task'[Forwarder(r)].stale = task[Forwarder(r)].stale,
           task'[Forwarder(r)].at \notin {"unfollow", "evict"}
    PROVE  Keeps(r) /\ H(r)' = H(r)
<1>1. H(r)' = H(r) /\ H(r).at # "idle"
  BY Actors, Begun DEF Alone, H
<1>2. QED
  BY <1>1, Actors DEF Alone, Keeps, H

LEMMA HandlerGoes ==
    ASSUME TypeInv, NEW r \in Request, NEW l \in Label \ {"idle", "unfollow", "evict"},
           Goto(Handler(r), l), H(r).at # "done"
    PROVE  Keeps(r) /\ F(r)' = F(r) /\ H(r)'.at = l
<1>1. MovesTo(Handler(r), l)
  BY Actors, GotoMoves DEF TypeInv
<1>2. QED
  BY <1>1, HandlerKeeps DEF MovesTo, H

LEMMA ForwarderGoes ==
    ASSUME TypeInv, NEW r \in Request, NEW l \in Label \ {"idle", "unfollow", "evict"},
           Goto(Forwarder(r), l), F(r).at # "idle"
    PROVE  /\ Keeps(r) /\ H(r)' = H(r) /\ F(r)'.at = l /\ F(r)'.event = F(r).event
           /\ F(r)'.targets = F(r).targets
<1>1. MovesTo(Forwarder(r), l)
  BY Actors, GotoMoves DEF TypeInv
<1>2. QED
  BY <1>1, ForwarderKeeps DEF MovesTo, F

(* What is known of the peers that have been dropped stays known.           *)
LEMMA StaleKeeps ==
    ASSUME StaleGone, NEW r \in Request, Keeps(r), UNCHANGED conn,
           \A s \in Request \ {r} : req'[s] = req[s], GoneAsker(r)'
    PROVE  StaleGone'
<1>1. ASSUME NEW a \in Actor PROVE GoneStale(a)'
  BY DEF Keeps, StaleGone, GoneStale
<1>2. ASSUME NEW s \in Request, s # r PROVE GoneAsker(s)'
  <2>1. Handler(s) \in Actor \ {Handler(r), Forwarder(r)} /\ Forwarder(s) \in Actor \ {Handler(r), Forwarder(r)}
    BY <1>2, Actors
  <2>2. H(s)' = H(s) /\ F(s)' = F(s) /\ GoneAsker(s)
    BY <2>1 DEF Keeps, H, F, StaleGone
  <2>3. QED
    BY <1>2, <2>2 DEF GoneAsker
<1>3. QED
  BY <1>1, <1>2 DEF StaleGone

(* A peer that follows a session quietly goes on following it, when it      *)
(* stays connected, stays in the maps and sends no request.                 *)
LEMMA FollowsKeeps ==
    ASSUME NEW p \in Peer, NEW s \in Session, Follows(p, s), MapsKept(p), conn'[p] = conn[p],
           \A r \in Request : /\ req'[r] = req[r] \/ req'[r].peer # p
                              /\ task[Handler(r)].at = "done" => task'[Handler(r)].at = "done"
    PROVE  Follows(p, s)'
<1>1. InFlight(p)' = {}
  <2>1. ASSUME NEW r \in Request, req'[r] # NoRequest, req'[r].peer = p
        PROVE  task'[Handler(r)].at = "done"
    <3>1. req'[r] = req[r]
      BY <2>1
    <3>2. task[Handler(r)].at = "done"
      BY <2>1, <3>1 DEF Follows, InFlight, At
    <3>3. QED
      BY <3>2
  <2>2. QED
    BY <2>1 DEF InFlight, At
<1>2. QED
  BY <1>1 DEF Follows, MapsKept

(* The channel and the forwarder of r keep what is on its way. *)
LEMMA ComingKeeps ==
    ASSUME NEW r \in Request, NEW p, NEW n, Coming(p, r, n), queue'[r] = queue[r],
           F(r)'.event = F(r).event, Held(p, r) => Held(p, r)'
    PROVE  Coming(p, r, n)'
BY DEF Coming

(* Everything owed stays owed, or is paid. *)
Owing == \A o \in owed : Owes(o[1], o[2], o[3])

LEMMA OwedType ==
    ASSUME TypeInv, NEW o \in owed
    PROVE  o[1] \in Peer /\ o[2] \in Request /\ o[3] \in 1 .. MaxEvents /\ o = <<o[1], o[2], o[3]>>
BY DEF TypeInv, StoreOK

LEMMA OwesKeeps ==
    ASSUME TypeInv, NEW p \in Peer, NEW r \in Request, NEW n, Owes(p, r, n),
           \A q \in Peer : conn[q] = "closed" => conn'[q] = "closed",
           H(r)'.at # "idle", req'[r] = req[r], Follows(p, req[r].session)',
           Coming(p, r, n) => Coming(p, r, n)' \/ conn[req[r].peer] = "closed"
    PROVE  Owes(p, r, n)'
<1>1. req[r].peer \in Peer
  BY Begun DEF Owes, Known
<1>2. conn'[req'[r].peer] = "closed" \/ Coming(p, r, n)'
  BY <1>1 DEF Owes
<1>3. QED
  BY <1>2 DEF Owes

(* The handler or the forwarder of r moves: what is left to show.           *)
LEMMA WatchKeeps ==
    ASSUME TypeInv, WatchInv, NEW r \in Request, Keeps(r), UNCHANGED <<conn, req>>, GoneAsker(r)',
           \A p \in Peer : InFlight(p) = {} => MapsKept(p),
           \A s \in Request \ {r} : queue'[s] = queue[s],
           \A o \in owed \cap owed' : o[2] = r /\ Coming(o[1], r, o[3]) =>
               Coming(o[1], r, o[3])' \/ conn[req[r].peer] = "closed"
    PROVE  StaleGone' /\ \A o \in owed \cap owed' : Owes(o[1], o[2], o[3])'
<1>1. StaleGone'
  BY StaleKeeps DEF WatchInv
<1>2. ASSUME NEW p \in Peer, NEW s \in Request, NEW n, <<p, s, n>> \in owed \cap owed'
      PROVE  Owes(p, s, n)'
  <2>1. Owes(p, s, n)
    BY <1>2 DEF WatchInv
  <2>2. /\ H(s).at # "idle" /\ InFlight(p) = {} /\ req[s].session \in Session
        /\ Follows(p, req[s].session)
    BY <2>1, Begun DEF Owes, Follows
  <2>3. \A q \in Request : task[Handler(q)].at = "done" => task'[Handler(q)].at = "done"
    BY Actors DEF Keeps, H
  <2>4. Follows(p, req[s].session)'
    <3>1. PICK e \in Session : e = req[s].session
      BY <2>2
    <3>2. Follows(p, e)'
      BY <2>2, <2>3, <3>1, FollowsKeeps
    <3>3. e = req'[s].session
      BY <3>1
    <3>4. QED
      BY <3>2, <3>3
  <2>5. H(s)'.at # "idle" /\ (Coming(p, s, n) => Coming(p, s, n)' \/ conn[req[s].peer] = "closed")
    <3>1. CASE s = r
      BY <1>2, <3>1 DEF Keeps
    <3>2. CASE s # r
      <4>1. Handler(s) \in Actor \ {Handler(r), Forwarder(r)} /\ Forwarder(s) \in Actor \ {Handler(r), Forwarder(r)}
        BY <3>2, Actors
      <4>2. H(s)' = H(s) /\ F(s)' = F(s) /\ queue'[s] = queue[s]
        BY <3>2, <4>1 DEF Keeps, H, F
      <4>3. QED
        BY <2>2, <4>2, ComingKeeps DEF Held
    <3>3. QED
      BY <3>1, <3>2
  <2>6. QED
    BY <2>1, <2>4, <2>5, OwesKeeps
<1>3. QED
  BY <1>1, <1>2, OwedType

(* A task that broadcasts or unregisters moves. *)
LEMMA WatchSends ==
    ASSUME TypeInv, WatchInv, NEW a \in Actor, Alone(a), UNCHANGED <<conn, req, queue>>,
           task[a].at \in Sending, task'[a].at \in Sending \cup {Back(a)},
           task'[a].event = task[a].event, GoneStale(a)', owed' \subseteq owed,
           \A p \in Peer : InFlight(p) = {} /\ conn[p] = "open" => MapsKept(p),
           \A o \in owed' : a = Forwarder(o[2]) /\ F(o[2]).event = o[3] /\ Held(o[1], o[2]) =>
               Held(o[1], o[2])'
    PROVE  WatchInv'
<1>1. ASSUME NEW b \in Actor PROVE GoneStale(b)'
  BY DEF Alone, WatchInv, StaleGone, GoneStale
<1>2. ASSUME NEW s \in Request
      PROVE  /\ H(s)' = H(s) \/ (a = Handler(s) /\ H(s).at \in Sending /\ H(s)'.at \in Sending \cup {"done"})
             /\ F(s)' = F(s) \/ (a = Forwarder(s) /\ F(s).at \in Sending /\ F(s)'.at \in Sending \cup {"take"})
  BY Actors DEF Alone, H, F, Back
<1>3. ASSUME NEW s \in Request PROVE GoneAsker(s)'
  BY <1>2 DEF WatchInv, StaleGone, GoneAsker, Sending, Dropping
<1>4. ASSUME NEW p \in Peer, NEW s \in Request, NEW n, <<p, s, n>> \in owed'
      PROVE  Owes(p, s, n)'
  <2>1. Owes(p, s, n)
    BY <1>4 DEF WatchInv
  <2>2. /\ H(s).at # "idle" /\ InFlight(p) = {} /\ conn[p] = "open" /\ req[s].session \in Session
        /\ Follows(p, req[s].session)
    BY <2>1, Begun DEF Owes, Follows
  <2>3. \A q \in Request : task[Handler(q)].at = "done" => task'[Handler(q)].at = "done"
    BY <1>2 DEF H, Sending, Dropping
  <2>4. Follows(p, req[s].session)'
    <3>1. PICK e \in Session : e = req[s].session
      BY <2>2
    <3>2. Follows(p, e)'
      BY <2>2, <2>3, <3>1, FollowsKeeps
    <3>3. e = req'[s].session
      BY <3>1
    <3>4. QED
      BY <3>2, <3>3
  <2>5. H(s)'.at # "idle"
    BY <1>2, <2>2 DEF Sending, Dropping
  <2>6. Coming(p, s, n) => Coming(p, s, n)'
    <3>1. F(s)'.event = F(s).event /\ queue'[s] = queue[s]
      BY Actors DEF F, Alone
    <3>2. F(s).event = n /\ Held(p, s) => Held(p, s)'
      BY <1>2, <1>4 DEF Held
    <3>3. QED
      BY <3>1, <3>2 DEF Coming
  <2>7. QED
    BY <2>1, <2>4, <2>5, <2>6, OwesKeeps
<1>5. QED
  BY <1>1, <1>3, <1>4, OwedType DEF WatchInv, StaleGone

(* What unregistering leaves alone. *)
LEMMA UnregisterMaps ==
    ASSUME TypeInv, NEW a \in Actor, Unregister(a), NEW p \in Peer, p \notin task[a].stale,
           task[a].at \in {"unfollow", "evict"} => task[a].peer # p
    PROVE  MapsKept(p)
<1>1. CASE Drop(a)
  <2>1. UNCHANGED <<follows, audience>> /\ \E q \in task[a].stale : peers' = peers \ {q}
    BY <1>1 DEF Drop
  <2>2. QED
    BY <2>1 DEF MapsKept
<1>2. CASE Unfollow(a)
  <2>1. /\ task[a].at = "unfollow" /\ UNCHANGED <<peers, audience>>
        /\ follows' = [follows EXCEPT ![task[a].peer] = NoSession]
    BY <1>2 DEF Unfollow, At
  <2>2. QED
    BY <2>1 DEF MapsKept, TypeInv, StoreOK
<1>3. CASE Evict(a)
  <2>1. /\ task[a].at = "evict" /\ UNCHANGED <<peers, follows>>
        /\ audience' = [audience EXCEPT ![task[a].leaves] = @ \ {task[a].peer}]
    BY <1>3 DEF Evict, RemoveFromSession, At
  <2>2. \A s \in Session : p \in audience[s] => p \in audience'[s]
    BY <2>1 DEF TypeInv, StoreOK
  <2>3. QED
    BY <2>1, <2>2 DEF MapsKept
<1>4. QED
  BY <1>1, <1>2, <1>3 DEF Unregister

LEMMA UnregisterWatched ==
    ASSUME TypeInv, OrderInv, WatchInv, NEW a \in Actor, Unregister(a)
    PROVE  WatchInv'
<1>1. /\ Alone(a) /\ task[a].at \in Dropping /\ task'[a].at \in Dropping \cup {Back(a)}
      /\ task'[a].event = task[a].event /\ task'[a].stale \subseteq task[a].stale
      /\ task'[a].at = "unfollow" => task'[a].peer \in task[a].stale
      /\ task'[a].at = "evict" => task[a].at = "unfollow" /\ task'[a].peer = task[a].peer
      /\ UNCHANGED <<conn, req, queue, owed>>
  BY UnregisterMoves DEF turn
<1>2. GoneStale(a) /\ GoneStale(a)'
  BY <1>1 DEF WatchInv, StaleGone, GoneStale
<1>3. ASSUME NEW p \in Peer, conn[p] = "open" PROVE MapsKept(p)
  BY <1>2, <1>3, UnregisterMaps DEF GoneStale
<1>4. ASSUME NEW o \in owed, a = Forwarder(o[2]) PROVE ~Held(o[1], o[2])
  BY <1>1, <1>4 DEF Held, F, Dropping
<1>5. QED
  BY <1>1, <1>2, <1>3, <1>4, WatchSends DEF Sending

LEMMA BroadcastWatched ==
    ASSUME TypeInv, OrderInv, WatchInv, NEW a \in Sender, Broadcast(a)
    PROVE  WatchInv'
<1>0. /\ a \in Actor /\ TypeOK /\ task[a].at \in {"audience", "sinks", "send"}
      /\ UNCHANGED <<conn, maps, req, queue>>
  BY TypeImplies, SenderCases
     DEF Broadcast, ReadAudience, ReadSinks, SendOne, AllSent, At, turn
<1>1. GoneStale(a) /\ \A p \in Peer : MapsKept(p)
  BY <1>0 DEF WatchInv, StaleGone, MapsKept, maps
<1>2. ASSUME NEW o \in owed
      PROVE  /\ o[1] \in Peer /\ o[2] \in Request /\ Owes(o[1], o[2], o[3])
             /\ conn[o[1]] = "open" /\ o[1] # req[o[2]].peer
             /\ o[1] \in audience[req[o[2]].session] /\ o[1] \in peers
             /\ Of(Forwarder(o[2])) = req[o[2]]
  BY OwedType, Actors DEF WatchInv, Owes, Follows
<1>3. CASE ReadAudience(a)
  <2>1. Of(a).session \in Session /\ owed' = owed
    BY <1>0, <1>3, BegunSender DEF ReadAudience
  <2>2. /\ Alone(a) /\ task'[a].at \in {Back(a), "sinks"}
        /\ task'[a].targets = audience[Of(a).session]
        /\ task'[a].targets # {} => task'[a].at = "sinks"
        /\ task'[a].event = task[a].event /\ task'[a].stale = task[a].stale
    BY <1>0, <1>3, <2>1, ReadAudienceMoves
  <2>3. GoneStale(a)'
    BY <1>0, <1>1, <2>2 DEF GoneStale, Back
  <2>4. ASSUME NEW o \in owed, a = Forwarder(o[2]) PROVE Held(o[1], o[2])'
    <3>1. task'[a].targets # {} /\ o[1] \in task'[a].targets
      BY <1>2, <2>2, <2>4
    <3>2. QED
      BY <2>2, <2>4, <3>1 DEF Held, F
  <2>5. QED
    BY <1>0, <1>1, <2>1, <2>2, <2>3, <2>4, WatchSends DEF Sending, Back
<1>4. CASE ReadSinks(a)
  <2>1. /\ Alone(a) /\ task'[a].at = "send" /\ task'[a].targets = Recipients(a)
        /\ task'[a].event = task[a].event /\ task'[a].stale = task[a].stale
    BY <1>0, <1>4, ReadSinksMoves
  <2>2. task[a].at = "sinks" /\ owed' = owed
    BY <1>4 DEF ReadSinks, At
  <2>3. GoneStale(a)'
    BY <1>0, <1>1, <2>1 DEF GoneStale
  <2>4. ASSUME NEW o \in owed, a = Forwarder(o[2]), Held(o[1], o[2]) PROVE Held(o[1], o[2])'
    <3>1. o[1] \in task[a].targets
      BY <2>2, <2>4 DEF Held, F
    <3>2. o[1] \in Recipients(a)
      BY <1>2, <2>4, <3>1 DEF Recipients
    <3>3. QED
      BY <2>1, <2>4, <3>2 DEF Held, F
  <2>5. QED
    BY <1>0, <1>1, <2>1, <2>2, <2>3, <2>4, WatchSends DEF Sending
<1>5. CASE SendOne(a)
  <2>1. PICK p \in task[a].targets :
            /\ At(a, "send") /\ UNCHANGED <<conn, maps, req, turn>>
            /\ \/ /\ Delivers(p, a[2], task[a].event)
                  /\ task' = [task EXCEPT ![a].targets = @ \ {p}]
               \/ /\ Fails(p)
                  /\ task' = [task EXCEPT ![a].targets = @ \ {p}, ![a].stale = @ \cup {p}]
    BY <1>5 DEF SendOne
  <2>2. /\ Alone(a) /\ task'[a].at = "send" /\ task'[a].targets = task[a].targets \ {p}
        /\ task'[a].event = task[a].event /\ task'[a].stale \subseteq task[a].stale \cup {p}
        /\ task' = [task EXCEPT ![a].targets = @ \ {p}] => task'[a].stale = task[a].stale
    BY <1>0, <2>1, SendOneMoves
  <2>3. Fails(p) => conn[p] = "closed"
    BY DEF Fails, TypeInv, StoreOK
  <2>4. GoneStale(a)'
    BY <1>0, <1>1, <2>1, <2>2, <2>3 DEF GoneStale
  <2>5. owed' \subseteq owed /\ (conn[p] = "open" => owed' = owed \ {<<p, a[2], task[a].event>>})
    BY <2>1, <2>3 DEF Delivers, Fails
  <2>6. ASSUME NEW o \in owed', a = Forwarder(o[2]), F(o[2]).event = o[3], Held(o[1], o[2])
        PROVE  Held(o[1], o[2])'
    <3>1. o \in owed /\ a[2] = o[2] /\ o = <<o[1], o[2], o[3]>> /\ task[a].event = o[3]
      BY <2>5, <2>6, OwedType, Actors DEF F
    <3>2. o[1] # p
      BY <1>2, <2>5, <3>1
    <3>3. o[1] \in task[a].targets
      BY <2>1, <2>6 DEF Held, F, At
    <3>4. QED
      BY <2>2, <2>6, <3>2, <3>3 DEF Held, F
  <2>7. QED
    BY <1>0, <1>1, <2>2, <2>4, <2>5, <2>6, WatchSends DEF Sending
<1>6. CASE AllSent(a)
  <2>1. task[a].at = "send" /\ task[a].targets = {} /\ owed' = owed
    BY <1>6 DEF AllSent, At
  <2>2. PICK l \in {Back(a), "drop"} : MovesTo(a, l)
    BY <1>0, <1>6, AllSentMoves
  <2>3. GoneStale(a)'
    BY <1>0, <1>1, <2>2 DEF GoneStale, MovesTo, Back
  <2>4. ASSUME NEW o \in owed, a = Forwarder(o[2]) PROVE ~Held(o[1], o[2])
    BY <2>1, <2>4 DEF Held, F
  <2>5. QED
    BY <1>0, <1>1, <2>1, <2>2, <2>3, <2>4, WatchSends DEF Sending, Dropping, MovesTo
<1>7. QED
  BY <1>3, <1>4, <1>5, <1>6 DEF Broadcast

(* Nothing moves but connections and what closers are to drop. *)
LEMMA ConnectionsWatched ==
    ASSUME TypeInv, WatchInv, UNCHANGED <<maps, req, queue>>,
           \A b \in Sender : task'[b] = task[b],
           \A q \in Peer : conn[q] = "closed" => conn'[q] = "closed",
           \A a \in Actor : GoneStale(a)', owed' \subseteq owed,
           \A o \in owed' : conn'[o[1]] = conn[o[1]]
    PROVE  WatchInv'
<1>1. ASSUME NEW s \in Request PROVE H(s)' = H(s) /\ F(s)' = F(s)
  BY Actors DEF H, F
<1>2. ASSUME NEW s \in Request PROVE GoneAsker(s)'
  <2>1. GoneAsker(s)
    BY DEF WatchInv, StaleGone
  <2>2. H(s).at # "idle" => req[s].peer \in Peer
    BY Begun DEF Known
  <2>3. QED
    BY <1>1, <2>1, <2>2 DEF GoneAsker
<1>3. ASSUME NEW p \in Peer, NEW s \in Request, NEW n, <<p, s, n>> \in owed'
      PROVE  Owes(p, s, n)'
  <2>1. Owes(p, s, n) /\ conn'[p] = conn[p]
    BY <1>3 DEF WatchInv
  <2>2. PICK e \in Session : e = req[s].session /\ Follows(p, e)
    BY <2>1, Begun DEF Owes
  <2>3. MapsKept(p) /\ \A q \in Request : task'[Handler(q)] = task[Handler(q)]
    BY Actors DEF MapsKept, maps
  <2>4. Follows(p, e)'
    BY <2>1, <2>2, <2>3, FollowsKeeps
  <2>5. Follows(p, req[s].session)'
    BY <2>2, <2>4
  <2>6. H(s)'.at # "idle" /\ (Coming(p, s, n) => Coming(p, s, n)')
    BY <1>1, <2>1 DEF Owes, Coming, Held
  <2>7. QED
    BY <2>1, <2>5, <2>6, OwesKeeps
<1>4. QED
  BY <1>2, <1>3, OwedType DEF WatchInv, StaleGone

(* A request is received, of a peer that is owed nothing any more. *)
LEMMA ReceiveWatched ==
    ASSUME TypeInv, OrderInv, WatchInv, NEW r \in Request, Receive(r)
    PROVE  WatchInv'
<1>1. PICK p \in Peer, s \in Session, k \in Kind :
          /\ At(Handler(r), "idle")
          /\ conn[p] = "open"
          /\ k = "chat" => r \in MayChat
          /\ Cardinality(InFlight(p)) < MaxInFlight
          /\ req' = [req EXCEPT ![r] = [peer |-> p, session |-> s, kind |-> k]]
          /\ Goto(Handler(r), "register")
          /\ owed' = {o \in owed : o[1] # p}
          /\ UNCHANGED <<conn, shut, maps, turn, got>>
  BY DEF Receive
<1>2. /\ H(r).at = "idle" /\ UNCHANGED <<conn, maps, queue>> /\ req'[r].peer = p
      /\ \A q \in Request \ {r} : req'[q] = req[q]
  BY <1>1 DEF At, H, turn, TypeInv, StoreOK
<1>3. Keeps(r) /\ F(r)' = F(r) /\ H(r)'.at = "register"
  BY <1>1, <1>2, HandlerGoes DEF Label
<1>4. StaleGone'
  BY <1>2, <1>3, StaleKeeps DEF WatchInv, GoneAsker
<1>5. ASSUME NEW q \in Peer, NEW c \in Request, NEW n, <<q, c, n>> \in owed'
      PROVE  Owes(q, c, n)'
  <2>1. Owes(q, c, n) /\ q # p /\ c # r
    BY <1>1, <1>2, <1>5 DEF WatchInv, Owes
  <2>2. PICK e \in Session : e = req[c].session /\ Follows(q, e)
    BY <2>1, Begun DEF Owes
  <2>3. MapsKept(q) /\ \A x \in Request : task[Handler(x)].at = "done" => task'[Handler(x)].at = "done"
    BY <1>2, <1>3, Actors DEF MapsKept, maps, Keeps, H
  <2>4. Follows(q, e)'
    BY <1>2, <2>1, <2>2, <2>3, FollowsKeeps
  <2>5. req'[c] = req[c] /\ Follows(q, req[c].session)'
    BY <1>2, <2>1, <2>2, <2>4
  <2>6. H(c)'.at # "idle" /\ (Coming(q, c, n) => Coming(q, c, n)')
    <3>1. Handler(c) \in Actor \ {Handler(r), Forwarder(r)} /\ Forwarder(c) \in Actor \ {Handler(r), Forwarder(r)}
      BY <2>1, Actors
    <3>2. H(c)' = H(c) /\ F(c)' = F(c) /\ queue'[c] = queue[c]
      BY <1>2, <3>1, <1>3 DEF Keeps, H, F
    <3>3. QED
      BY <2>1, <3>2 DEF Owes, Coming, Held
  <2>7. QED
    BY <1>2, <2>1, <2>5, <2>6, OwesKeeps
<1>6. owed' \subseteq owed
  BY <1>1
<1>7. QED
  BY <1>4, <1>5, <1>6, OwedType DEF WatchInv

(* A step of r that changes no map, pays what it pays and owes nothing new. *)
LEMMA WatchMoves ==
    ASSUME TypeInv, WatchInv, NEW r \in Request, Keeps(r), UNCHANGED <<conn, maps, req>>,
           GoneAsker(r)', owed' \subseteq owed,
           \A s \in Request \ {r} : queue'[s] = queue[s],
           \A o \in owed \cap owed' : o[2] = r /\ Coming(o[1], r, o[3]) =>
               Coming(o[1], r, o[3])' \/ conn[req[r].peer] = "closed"
    PROVE  WatchInv'
<1>1. \A p \in Peer : MapsKept(p)
  BY DEF MapsKept, maps
<1>2. StaleGone' /\ \A o \in owed \cap owed' : Owes(o[1], o[2], o[3])'
  BY <1>1, WatchKeeps
<1>3. QED
  BY <1>2 DEF WatchInv

(* The peer of a request that is handled follows nothing quietly.           *)
LEMMA SubscribeMaps ==
    ASSUME TypeInv, NEW r \in Request, Subscribe(r) \/ Refuse(r), NEW p \in Peer, InFlight(p) = {}
    PROVE  MapsKept(p)
<1>1. H(r).at \notin {"idle", "done"}
  BY DEF Subscribe, Register, Bind, Leave, Join, Refuse, At, H
<1>2. req[r].peer # p
  <2>1. req[r] # NoRequest
    BY <1>1, Begun DEF RequestFits
  <2>2. QED
    BY <1>1, <2>1 DEF InFlight, At, H
<1>3. CASE Register(r)
  BY <1>3 DEF Register, MapsKept
<1>4. CASE Bind(r)
  BY <1>2, <1>4 DEF Bind, MapsKept, TypeInv, StoreOK
<1>5. CASE Leave(r)
  <2>1. /\ UNCHANGED <<peers, follows>>
        /\ audience' = [audience EXCEPT ![task[Handler(r)].leaves] = @ \ {req[r].peer}]
    BY <1>5 DEF Leave, RemoveFromSession
  <2>2. QED
    BY <1>2, <2>1 DEF MapsKept, TypeInv, StoreOK
<1>6. CASE Join(r)
  BY <1>6 DEF Join, MapsKept, TypeInv, StoreOK
<1>7. CASE Refuse(r)
  BY <1>7 DEF Refuse, MapsKept, maps
<1>8. QED
  BY <1>3, <1>4, <1>5, <1>6, <1>7 DEF Subscribe

LEMMA SubscribeWatched ==
    ASSUME TypeInv, OrderInv, WatchInv, NEW r \in Request, Subscribe(r) \/ Refuse(r)
    PROVE  WatchInv'
<1>1. /\ H(r).at \in Early \ {"idle"} /\ UNCHANGED <<conn, req, produced, queue, owed>>
      /\ TypeOK /\ Handler(r) \in Actor /\ InStep(r)
  BY TypeImplies, Actors
     DEF OrderInv, Subscribe, Register, Bind, Leave, Join, Refuse, At, H, Early, turn
<1>2. H(r).at # "done" /\ (H(r).at # "check" => F(r).at = "idle") /\ F(r).at \in {"idle", "take"}
  BY <1>1 DEF InStep, Early
<1>3. ASSUME Keeps(r), F(r)' = F(r), H(r)'.at \in {"bind", "leave", "join", "done"}
      PROVE  Keeps(r) /\ GoneAsker(r)' /\ \A p \in Peer : ~Held(p, r)
  BY <1>2, <1>3 DEF GoneAsker, Held
<1>4. ASSUME Opens(r), H(r).at # "check"
      PROVE  Keeps(r) /\ GoneAsker(r)' /\ \A p \in Peer : ~Held(p, r)
  BY <1>2, <1>4 DEF Opens, Keeps, H, F, GoneAsker, Held
<1>5. ASSUME NEW l \in {"bind", "join", "done"}, Goto(Handler(r), l)
      PROVE  Keeps(r) /\ GoneAsker(r)' /\ \A p \in Peer : ~Held(p, r)
  BY <1>2, <1>3, <1>5, HandlerGoes DEF Label
<1>6. ASSUME Subscribed(r), H(r).at # "check"
      PROVE  Keeps(r) /\ GoneAsker(r)' /\ \A p \in Peer : ~Held(p, r)
  <2>1. CASE MovesTo(Handler(r), "done")
    <3>1. Keeps(r) /\ F(r)' = F(r) /\ H(r)'.at = "done"
      BY <1>2, <2>1, HandlerKeeps DEF MovesTo, H
    <3>2. QED
      BY <1>3, <3>1
  <2>2. QED
    BY <1>1, <1>4, <1>6, <2>1, SubscribedMoves DEF TypeOK
<1>7. Keeps(r) /\ GoneAsker(r)' /\ \A p \in Peer : ~Held(p, r)
  <2>1. CASE Register(r)
    BY <1>5, <2>1 DEF Register
  <2>2. CASE Bind(r)
    <3>1. H(r).at = "bind" /\ req[r].peer \in Peer
      BY <2>2, Begun DEF Bind, At, H, Known
    <3>2. \/ Subscribed(r)
          \/ Goto(Handler(r), "join")
          \/ task' = [task EXCEPT ![Handler(r)].at = "leave", ![Handler(r)].leaves = follows[req[r].peer]]
      BY <2>2 DEF Bind
    <3>3. CASE task' = [task EXCEPT ![Handler(r)].at = "leave", ![Handler(r)].leaves = follows[req[r].peer]]
      <4>1. PICK q \in Session \cup {NoSession} : q = follows[req[r].peer]
        BY <3>1 DEF TypeInv, StoreOK
      <4>2. "leave" \in Label /\ task' = [task EXCEPT ![Handler(r)].at = "leave", ![Handler(r)].leaves = q]
        BY <3>3, <4>1 DEF Label
      <4>3. /\ Alone(Handler(r)) /\ task'[Handler(r)].at = "leave"
            /\ task'[Handler(r)].stale = task[Handler(r)].stale
        BY <1>1, <4>2, LeavesMoves
      <4>4. Keeps(r) /\ F(r)' = F(r) /\ H(r)'.at = "leave"
        BY <1>2, <4>3, HandlerKeeps DEF H
      <4>5. QED
        BY <1>3, <4>4
    <3>4. QED
      BY <1>5, <1>6, <3>1, <3>2, <3>3
  <2>3. CASE Leave(r)
    <3>1. task' = [task EXCEPT ![Handler(r)].at = "join", ![Handler(r)].leaves = NoSession]
      BY <2>3 DEF Leave
    <3>2. "join" \in Label
      BY DEF Label
    <3>3. /\ Alone(Handler(r)) /\ task'[Handler(r)].at = "join"
          /\ task'[Handler(r)].stale = task[Handler(r)].stale
      BY <1>1, <3>1, <3>2, LeavesMoves
    <3>4. Keeps(r) /\ F(r)' = F(r) /\ H(r)'.at = "join"
      BY <1>2, <3>3, HandlerKeeps DEF H
    <3>5. QED
      BY <1>3, <3>4
  <2>4. CASE Join(r)
    BY <1>6, <2>4 DEF Join, At, H
  <2>5. CASE Refuse(r)
    BY <1>5, <2>5 DEF Refuse
  <2>6. QED
    BY <2>1, <2>2, <2>3, <2>4, <2>5 DEF Subscribe
<1>8. \A o \in owed : Coming(o[1], r, o[3]) => Coming(o[1], r, o[3])'
  BY <1>1, <1>7, OwedType DEF Coming
<1>9. StaleGone' /\ \A o \in owed \cap owed' : Owes(o[1], o[2], o[3])'
  BY <1>1, <1>7, <1>8, SubscribeMaps, WatchKeeps
<1>10. QED
  BY <1>1, <1>9 DEF WatchInv

(* The handler goes on with its chat. *)
LEMMA ChatWatched ==
    ASSUME TypeInv, OrderInv, WatchInv, NEW r \in Request,
           Start(r) \/ Emit(r) \/ TurnEnds(r) \/ Await(r) \/ SendComplete(r)
    PROVE  WatchInv'
<1>0. TypeOK /\ Handler(r) \in Actor /\ InStep(r) /\ GoneAsker(r)
  BY TypeImplies, Actors DEF OrderInv, WatchInv, StaleGone
<1>1. H(r).at # "done" /\ H(r).at # "idle" /\ UNCHANGED <<conn, maps, req, queue>>
  BY DEF Start, Emit, TurnEnds, Await, SendComplete, At, H, turn
<1>2. owed' \subseteq owed
  BY DEF Start, Emit, TurnEnds, Await, SendComplete, Delivers, Fails
<1>3. Keeps(r) /\ F(r)' = F(r) /\ (F(r).at = "done" /\ H(r)'.at \in {"check", "turn", "emit"} =>
                                       H(r).at \in {"check", "turn", "emit"})
  <2>1. CASE SendComplete(r)
    <3>1. task' = [task EXCEPT ![Handler(r)].at = "audience", ![Handler(r)].event = Complete]
      BY <2>1 DEF SendComplete
    <3>2. "audience" \in Label /\ Complete \in Nat
      BY PushCenterAssumption DEF Label, Complete
    <3>3. /\ Alone(Handler(r)) /\ task'[Handler(r)].at = "audience"
          /\ task'[Handler(r)].stale = task[Handler(r)].stale
      BY <1>0, <3>1, <3>2, EventMoves
    <3>4. QED
      BY <1>1, <3>3, HandlerKeeps DEF H
  <2>2. CASE Start(r) \/ Emit(r) \/ TurnEnds(r) \/ Await(r)
    <3>1. PICK l \in {"turn", "emit", "await", "awaitError", "complete", "done"} :
              Goto(Handler(r), l) /\ (l \in {"turn", "emit"} => H(r).at \in {"check", "turn"})
      BY <2>2 DEF Start, Emit, TurnEnds, Await, At, H
    <3>2. Keeps(r) /\ F(r)' = F(r) /\ H(r)'.at = l
      BY <1>1, <3>1, HandlerGoes DEF Label
    <3>3. QED
      BY <3>1, <3>2
  <2>3. QED
    BY <2>1, <2>2
<1>4. GoneAsker(r)'
  BY <1>0, <1>1, <1>3 DEF GoneAsker
<1>5. \A o \in owed : Coming(o[1], r, o[3]) => Coming(o[1], r, o[3])'
  BY <1>1, <1>3 DEF Coming, Held
<1>6. QED
  BY <1>1, <1>2, <1>3, <1>4, <1>5, WatchMoves

(* The turn produces an event, and owes it to those who follow quietly.     *)
LEMMA ProduceWatched ==
    ASSUME TypeInv, OrderInv, WatchInv, NEW r \in Request, Produce(r)
    PROVE  WatchInv'
<1>0. PICK n \in Nat : n = produced[r] + 1
  BY Numbers
<1>1. /\ H(r).at = "emit" /\ Goto(Handler(r), "turn") /\ Enqueue(r, n)
      /\ owed' = owed \cup {<<p, r, n>> : p \in {q \in Peer : Follows(q, req[r].session)}}
      /\ UNCHANGED <<conn, maps, req>>
  BY <1>0 DEF Produce, At, H
<1>2. Keeps(r) /\ F(r)' = F(r) /\ H(r)'.at = "turn"
  BY <1>1, HandlerGoes DEF Label
<1>3. InStep(r) /\ GoneAsker(r) /\ req[r].peer \in Peer /\ req[r].session \in Session
  BY <1>1, Begun DEF OrderInv, WatchInv, StaleGone, Known
<1>4. /\ \A s \in Request \ {r} : queue'[s] = queue[s]
      /\ \/ F(r).at = "done" /\ queue'[r] = queue[r]
         \/ F(r).at # "done" /\ queue'[r] = Append(queue[r], n)
  BY <1>1 DEF Enqueue, At, F, TypeInv, StoreOK
<1>5. /\ \A m : (\E i \in DOMAIN queue[r] : queue[r][i] = m) => (\E i \in DOMAIN queue'[r] : queue'[r][i] = m)
      /\ F(r).at # "done" => \E i \in DOMAIN queue'[r] : queue'[r][i] = n
  <2>1. PICK q \in Seq(1 .. MaxEvents) : q = queue[r]
    BY Numbers
  <2>2. /\ DOMAIN Append(q, n) = 1 .. Len(q) + 1 /\ DOMAIN q = 1 .. Len(q) /\ Len(q) \in Nat
        /\ \A i \in 1 .. Len(q) : Append(q, n)[i] = q[i]
        /\ Append(q, n)[Len(q) + 1] = n
    OBVIOUS
  <2>3. /\ \A i \in DOMAIN q : i \in DOMAIN Append(q, n) /\ Append(q, n)[i] = q[i]
        /\ \E i \in DOMAIN Append(q, n) : Append(q, n)[i] = n
    BY <2>2
  <2>4. QED
    BY <1>4, <2>1, <2>3
<1>6. GoneAsker(r)'
  BY <1>1, <1>2, <1>3 DEF GoneAsker
<1>7. \A o \in owed : Coming(o[1], r, o[3]) => Coming(o[1], r, o[3])'
  BY <1>2, <1>5 DEF Coming, Held
<1>8. StaleGone' /\ \A o \in owed : Owes(o[1], o[2], o[3])'
  <2>1. \A p \in Peer : MapsKept(p)
    BY <1>1 DEF MapsKept, maps
  <2>2. owed \subseteq owed'
    BY <1>1
  <2>3. QED
    BY <1>1, <1>2, <1>4, <1>6, <1>7, <2>1, <2>2, WatchKeeps
<1>9. ASSUME NEW p \in Peer, Follows(p, req[r].session) PROVE Owes(p, r, n)'
  <2>1. req[r].peer # p
    <3>1. req[r] # NoRequest /\ H(r).at # "done"
      BY <1>1, Begun DEF RequestFits
    <3>2. QED
      BY <1>9, <3>1 DEF Follows, InFlight, At, H
  <2>2. PICK e \in Session : e = req[r].session
    BY <1>3
  <2>3. MapsKept(p) /\ \A q \in Request : task[Handler(q)].at = "done" => task'[Handler(q)].at = "done"
    BY <1>1, <1>2, Actors DEF MapsKept, maps, Keeps, H
  <2>4. Follows(p, e)'
    BY <1>1, <1>9, <2>2, <2>3, FollowsKeeps
  <2>5. Follows(p, req[r].session)'
    BY <1>1, <2>2, <2>4
  <2>6. conn'[req'[r].peer] = "closed" \/ Coming(p, r, n)'
    <3>1. CASE F(r).at = "done"
      BY <1>1, <1>3, <3>1 DEF GoneAsker
    <3>2. CASE F(r).at # "done"
      BY <1>5, <3>2 DEF Coming
    <3>3. QED
      BY <3>1, <3>2
  <2>7. QED
    BY <1>1, <1>2, <2>1, <2>5, <2>6 DEF Owes
<1>10. ASSUME NEW o \in owed' PROVE Owes(o[1], o[2], o[3])'
  <2>1. CASE o \in owed
    BY <1>8, <2>1
  <2>2. CASE o \notin owed
    <3>1. PICK p \in Peer : Follows(p, req[r].session) /\ o = <<p, r, n>>
      BY <1>1, <2>2
    <3>2. o[1] = p /\ o[2] = r /\ o[3] = n
      BY <3>1
    <3>3. QED
      BY <1>9, <3>1, <3>2
  <2>3. QED
    BY <2>1, <2>2
<1>11. QED
  BY <1>8, <1>10 DEF WatchInv

(* The forwarder goes on. *)
LEMMA ForwardWatched ==
    ASSUME TypeInv, OrderInv, WatchInv, NEW r \in Request, Forward(r)
    PROVE  WatchInv'
<1>0. /\ TypeOK /\ Forwarder(r) \in Actor /\ InStep(r) /\ GoneAsker(r)
      /\ queue \in [Request -> Seq(1 .. MaxEvents)]
  BY TypeImplies, Actors DEF OrderInv, WatchInv, StaleGone, TypeInv, StoreOK
<1>1. F(r).at # "idle" /\ UNCHANGED <<conn, maps, req>> /\ owed' \subseteq owed
  BY DEF Forward, Take, Finish, Direct, Delivers, Fails, At, F
<1>2. CASE Take(r)
  <2>1. PICK q \in Seq(1 .. MaxEvents) : q = queue[r] /\ q # <<>>
    BY <1>0, <1>2 DEF Take
  <2>2. PICK n \in Nat : n = q[1] /\ n = Head(q)
    BY <2>1, PushCenterAssumption
  <2>3. /\ F(r).at = "take" /\ queue' = [queue EXCEPT ![r] = Tail(@)]
        /\ task' = [task EXCEPT ![Forwarder(r)].at = "direct", ![Forwarder(r)].event = n]
    BY <1>2, <2>1, <2>2 DEF Take, At, F
  <2>4. Keeps(r) /\ H(r)' = H(r) /\ F(r)'.at = "direct" /\ F(r)'.event = n
    <3>1. "direct" \in Label
      BY DEF Label
    <3>2. /\ Alone(Forwarder(r)) /\ task'[Forwarder(r)].at = "direct"
          /\ task'[Forwarder(r)].event = n /\ task'[Forwarder(r)].stale = task[Forwarder(r)].stale
      BY <1>0, <2>3, <3>1, EventMoves
    <3>3. QED
      BY <1>1, <3>2, ForwarderKeeps DEF F
  <2>5. GoneAsker(r)'
    BY <2>4 DEF GoneAsker
  <2>6. /\ \A s \in Request \ {r} : queue'[s] = queue[s]
        /\ queue'[r] = Tail(q)
    BY <1>0, <2>1, <2>3
  <2>7. \A i \in DOMAIN q : q[i] = n \/ \E j \in DOMAIN Tail(q) : Tail(q)[j] = q[i]
    <3>1. /\ DOMAIN q = 1 .. Len(q) /\ Len(q) \in Nat /\ DOMAIN Tail(q) = 1 .. Len(q) - 1
          /\ \A i \in 1 .. Len(q) - 1 : Tail(q)[i] = q[i + 1]
      BY <2>1
    <3>2. ASSUME NEW i \in 1 .. Len(q), i # 1
          PROVE  i - 1 \in DOMAIN Tail(q) /\ Tail(q)[i - 1] = q[i]
      BY <3>1, <3>2
    <3>3. QED
      BY <2>2, <3>1, <3>2
  <2>8. \A o \in owed : Coming(o[1], r, o[3]) => Coming(o[1], r, o[3])'
    BY <2>1, <2>3, <2>4, <2>6, <2>7 DEF Coming, Held
  <2>9. QED
    BY <1>1, <2>4, <2>5, <2>6, <2>8, WatchMoves
<1>3. CASE Finish(r)
  <2>1. /\ F(r).at = "take" /\ queue[r] = <<>> /\ Goto(Forwarder(r), "done") /\ UNCHANGED queue
        /\ H(r).at \in {"await", "awaitError", "done"}
    BY <1>3 DEF Finish, At, F, H, turn
  <2>2. Keeps(r) /\ H(r)' = H(r)
    BY <1>1, <2>1, ForwarderGoes DEF Label
  <2>3. GoneAsker(r)'
    BY <2>1, <2>2 DEF GoneAsker
  <2>4. \A o \in owed : ~Coming(o[1], r, o[3])
    BY <2>1 DEF Coming, Held
  <2>5. QED
    BY <1>1, <2>1, <2>2, <2>3, <2>4, WatchMoves
<1>4. CASE Direct(r)
  <2>1. PICK p \in Peer : p = req[r].peer
    BY <1>1, Begun DEF Known
  <2>2. F(r).at = "direct"
    BY <1>4 DEF Direct, At, F
  <2>3. CASE Delivers(p, r, F(r).event) /\ Goto(Forwarder(r), "audience") /\ UNCHANGED queue
    <3>1. /\ Keeps(r) /\ H(r)' = H(r) /\ F(r)'.at = "audience" /\ F(r)'.event = F(r).event
      BY <1>1, <2>3, ForwarderGoes DEF Label
    <3>2. GoneAsker(r)'
      BY <3>1 DEF GoneAsker
    <3>3. \A o \in owed : Coming(o[1], r, o[3]) => Coming(o[1], r, o[3])'
      BY <2>3, <3>1 DEF Coming, Held
    <3>4. QED
      BY <1>1, <2>3, <3>1, <3>2, <3>3, WatchMoves
  <2>4. CASE Fails(p) /\ Goto(Forwarder(r), "done") /\ queue' = [queue EXCEPT ![r] = <<>>]
    <3>1. conn[p] = "closed"
      BY <2>4 DEF Fails, TypeInv, StoreOK
    <3>2. Keeps(r) /\ H(r)' = H(r)
      BY <1>1, <2>4, ForwarderGoes DEF Label
    <3>3. GoneAsker(r)'
      BY <1>1, <2>1, <3>1 DEF GoneAsker
    <3>4. \A s \in Request \ {r} : queue'[s] = queue[s]
      BY <1>0, <2>4
    <3>5. QED
      BY <1>1, <2>1, <3>1, <3>2, <3>3, <3>4, WatchMoves
  <2>5. QED
    BY <1>4, <2>1, <2>3, <2>4 DEF Direct, CloseChannel, F
<1>5. QED
  BY <1>2, <1>3, <1>4 DEF Forward

LEMMA WatchInit == Init => WatchInv
<1> SUFFICES ASSUME Init PROVE WatchInv
  OBVIOUS
<1>1. \A a \in Actor : task[a] = Idle
  BY DEF Init
<1>2. StaleGone
  BY <1>1, Actors DEF StaleGone, GoneStale, GoneAsker, Idle, H, F
<1>3. QED
  BY <1>2 DEF Init, WatchInv

LEMMA WatchStep == TypeInv /\ OrderInv /\ WatchInv /\ [Next]_vars => WatchInv'
<1> SUFFICES ASSUME TypeInv, OrderInv, WatchInv, [Next]_vars PROVE WatchInv'
  OBVIOUS
<1>0. TypeOK /\ \A a \in Actor : GoneStale(a)
  BY TypeImplies DEF WatchInv, StaleGone
<1>1. ASSUME NEW p \in Peer, Connect(p) PROVE WatchInv'
  <2>1. /\ conn[p] = "new" /\ conn' = [conn EXCEPT ![p] = "open"]
        /\ UNCHANGED <<maps, req, queue, task, owed>>
    BY <1>1 DEF Connect, turn
  <2>2. \A q \in Peer : conn[q] # "new" => conn'[q] = conn[q]
    BY <2>1 DEF TypeInv, StoreOK
  <2>3. ASSUME NEW a \in Actor PROVE GoneStale(a)'
    <3>1. TaskFits(a) /\ GoneStale(a) /\ task'[a] = task[a]
      BY <1>0, <2>1 DEF TypeInv, Fits
    <3>2. QED
      BY <2>2, <3>1 DEF TaskFits, GoneStale, Known
  <2>4. \A o \in owed : conn'[o[1]] = conn[o[1]]
    BY <2>2, OwedType DEF WatchInv, Owes, Follows
  <2>5. QED
    BY <2>1, <2>2, <2>3, <2>4, ConnectionsWatched
<1>2. ASSUME NEW p \in Peer, Disconnect(p) PROVE WatchInv'
  <2>1. /\ conn[p] = "open" /\ conn' = [conn EXCEPT ![p] = "closed"]
        /\ owed' = {o \in owed : o[1] # p} /\ UNCHANGED <<maps, req, queue>>
    BY <1>2 DEF Disconnect, turn
  <2>2. /\ Alone(Closer(p)) /\ task'[Closer(p)].at = "drop" /\ task'[Closer(p)].stale = {p}
    BY <1>0, <1>2, DisconnectMoves
  <2>3. /\ conn'[p] = "closed" /\ \A q \in Peer \ {p} : conn'[q] = conn[q]
        /\ \A q \in Peer : conn[q] = "closed" => conn'[q] = "closed"
    BY <2>1 DEF TypeInv, StoreOK
  <2>4. ASSUME NEW a \in Actor PROVE GoneStale(a)'
    <3>1. CASE a = Closer(p)
      BY <2>2, <2>3, <3>1 DEF GoneStale
    <3>2. CASE a # Closer(p)
      <4>1. TaskFits(a) /\ GoneStale(a) /\ task'[a] = task[a]
        BY <1>0, <2>2, <3>2 DEF TypeInv, Fits, Alone
      <4>2. QED
        BY <2>3, <4>1 DEF TaskFits, GoneStale, Known
    <3>3. QED
      BY <3>1, <3>2
  <2>5. \A b \in Sender : task'[b] = task[b]
    BY <2>2, SenderCases, Actors DEF Alone
  <2>6. \A o \in owed' : conn'[o[1]] = conn[o[1]]
    BY <2>1, <2>3, OwedType
  <2>7. QED
    BY <2>1, <2>3, <2>4, <2>5, <2>6, ConnectionsWatched
<1>3. CASE UNCHANGED vars
  <2>1. UNCHANGED <<conn, maps, req, queue, task, owed>>
    BY <1>3 DEF vars, turn
  <2>2. \A a \in Actor : GoneStale(a)'
    BY <1>0, <2>1 DEF GoneStale
  <2>3. QED
    BY <2>1, <2>2, ConnectionsWatched
<1>4. QED
  BY <1>1, <1>2, <1>3, ReceiveWatched, SubscribeWatched, ChatWatched, ProduceWatched,
     ForwardWatched, BroadcastWatched, UnregisterWatched
     DEF Next, Chat

(* A client that quietly follows a session is sent every event of a chat    *)
(* there, unless the connection that asked for the chat has closed.         *)
THEOREM WatchersServed == Spec => []WatchersKeepUp
<1>1. Init => TypeInv /\ OrderInv /\ WatchInv
  BY TypeInit, OrderInit, WatchInit
<1>2. TypeInv /\ OrderInv /\ WatchInv /\ [Next]_vars => (TypeInv /\ OrderInv /\ WatchInv)'
  BY TypeStep, OrderStep, WatchStep
<1>3. TypeInv /\ OrderInv /\ WatchInv => WatchersKeepUp
  <2> SUFFICES ASSUME TypeInv, OrderInv, WatchInv, NEW o \in owed, Settled(o[2])
               PROVE  conn[req[o[2]].peer] = "closed"
    BY DEF WatchersKeepUp
  <2>1. o[2] \in Request /\ Owes(o[1], o[2], o[3]) /\ InStep(o[2])
    BY OwedType DEF WatchInv, OrderInv
  <2>2. F(o[2]).at \in {"idle", "done"}
    BY DEF Settled, F
  <2>3. ~Coming(o[1], o[2], o[3])
    BY <2>1, <2>2 DEF InStep, Coming, Held
  <2>4. QED
    BY <2>1, <2>3 DEF Owes
<1>4. QED
  BY <1>1, <1>2, <1>3, PTL DEF Spec
=============================================================================
