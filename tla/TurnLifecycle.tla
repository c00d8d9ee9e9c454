--------------------------- MODULE TurnLifecycle ---------------------------
(***************************************************************************)
(* The turns of one session: ConversationService::execute_agent_turn, the   *)
(* stops that reach it through the cancellation token, and the run records  *)
(* it leaves in the database.                                              *)
(*                                                                         *)
(* A turn gets the Session object, records its run, takes the chat_lock of  *)
(* the object, appends the user's message, leaves its cancellation token in *)
(* the object, reads the history it gives to the runtime, runs, appends     *)
(* what the runtime returned and settles its run.  Every `?` on the way     *)
(* returns at once and drops the lock, and nothing else.                    *)
(*                                                                         *)
(* A turn looks its session up by id again whenever it appends, and finds   *)
(* the object that is in the cache then.  Spec is the service with one      *)
(* object for the session between two restarts.  RacingSpec adds Reload: a  *)
(* cold load that began earlier (SessionStore, Install) installs a new      *)
(* object in the cache while turns run.                                    *)
(*                                                                         *)
(* Abstracted: the runtime is an oracle that returns some messages or an    *)
(* error; the steps of the run and the runtime state of the session, which  *)
(* nothing here reads; append_message as SessionStore has it, here with the *)
(* history loaded.                                                         *)
(***************************************************************************)
EXTENDS Naturals, Sequences

CONSTANTS Turn,        \* turns, each started once
          NoTurn,      \* an object nobody has locked or can stop
          MaxReplies,  \* bound: messages a runtime returns
          MaxFailures, \* bound: early returns
          MaxCrashes,  \* bound: restarts of the process
          MaxReloads   \* bound: objects replaced under the turns

ASSUME TurnAssumption ==
    /\ NoTurn \notin Turn
    /\ {MaxReplies, MaxFailures, MaxCrashes, MaxReloads} \subseteq Nat
    /\ MaxReplies > 0

VARIABLES
    objects,   \* Seq([history, lock, token]): the Session objects, the last one cached
    rows,      \* Seq(Message): the table messages
    run,       \* [Turn -> status]: the table runs
    pc,        \* [Turn -> label]
    held,      \* [Turn -> Nat]: the object the turn holds
    base,      \* [Turn -> Seq(Message)]: the history given to the runtime
    reply,     \* [Turn -> Nat]: messages the runtime returned
    saved,     \* [Turn -> Nat]: those appended so far
    cancelled, \* turns whose token is cancelled
    stopping,  \* turns whose run control_run has marked and not yet cancelled
    failures, crashes, reloads

store  == <<objects, rows>>
local  == <<held, base, reply, saved>>
stops  == <<cancelled, stopping>>
counts == <<failures, crashes, reloads>>
vars   == <<store, run, pc, local, stops, counts>>

(* <<t, 0>> is the user's message of turn t, <<t, n>> the n-th reply. *)
Message == Turn \X (0 .. MaxReplies)
Object  == [history : Seq(Message), lock : Turn \cup {NoTurn}, token : Turn \cup {NoTurn}]
Status  == {"none", "running", "failed", "success", "stopped"}

(* Labels: those under the chat_lock, those before and those after. *)
Critical == {"user", "userRow", "userSaved", "snapshot", "prepare", "run",
             "failing", "reply", "replyRow", "finish", "clear"}
Outcome  == {"ok", "error", "panicked", "lost"}
Label    == {"idle", "create", "lock"} \cup Critical \cup Outcome

Cached == Len(objects)
NewObject(h) == [history |-> h, lock |-> NoTurn, token |-> NoTurn]

Init ==
    /\ objects = <<NewObject(<<>>)>>
    /\ rows = <<>>
    /\ run = [t \in Turn |-> "none"]
    /\ pc = [t \in Turn |-> "idle"]
    /\ held = [t \in Turn |-> 0]
    /\ base = [t \in Turn |-> <<>>]
    /\ reply = [t \in Turn |-> 0]
    /\ saved = [t \in Turn |-> 0]
    /\ cancelled = {}
    /\ stopping = {}
    /\ failures = 0 /\ crashes = 0 /\ reloads = 0
-----------------------------------------------------------------------------
(***************************************************************************)
(* Steps of a turn.                                                        *)
(***************************************************************************)
Goto(t, from, to) == pc[t] = from /\ pc' = [pc EXCEPT ![t] = to]

(* The guard of chat_lock is dropped when the function returns. *)
Unlock(t) == objects' = [objects EXCEPT ![held[t]].lock = NoTurn]

(* append_message, first in memory and then in the table. *)
PushMessage(m) == objects' = [objects EXCEPT ![Cached].history = Append(@, m)]
SaveMessage(m) == rows' = Append(rows, m)

(* Mutant: a turn can be stopped before it has the lock. *)
BeginStoppable(t) ==
    /\ Goto(t, "idle", "create")
    /\ held' = [held EXCEPT ![t] = Cached]
    /\ objects' = [objects EXCEPT ![Cached].token = t]
    /\ UNCHANGED <<rows, run, base, reply, saved, stops, counts>>

Begin(t) ==
    /\ Goto(t, "idle", "create")
    /\ held' = [held EXCEPT ![t] = Cached]
    /\ UNCHANGED <<store, run, base, reply, saved, stops, counts>>

CreateRun(t) ==
    /\ Goto(t, "create", "lock")
    /\ run' = [run EXCEPT ![t] = "running"]
    /\ UNCHANGED <<store, local, stops, counts>>

(* Mutant: nothing is locked. *)
LockNothing(t) ==
    /\ Goto(t, "lock", "user")
    /\ UNCHANGED <<store, run, local, stops, counts>>

Lock(t) ==
    /\ Goto(t, "lock", "user")
    /\ objects[held[t]].lock = NoTurn
    /\ objects' = [objects EXCEPT ![held[t]].lock = t]
    /\ UNCHANGED <<rows, run, local, stops, counts>>

PushUser(t) ==
    /\ Goto(t, "user", "userRow")
    /\ PushMessage(<<t, 0>>)
    /\ UNCHANGED <<rows, run, local, stops, counts>>

(* Mutant: the user's message stays in memory. *)
SaveUserNowhere(t) ==
    /\ Goto(t, "userRow", "userSaved")
    /\ UNCHANGED <<store, run, local, stops, counts>>

SaveUser(t) ==
    /\ Goto(t, "userRow", "userSaved")
    /\ SaveMessage(<<t, 0>>)
    /\ UNCHANGED <<objects, run, local, stops, counts>>

SetToken(t) ==
    /\ Goto(t, "userSaved", "snapshot")
    /\ objects' = [objects EXCEPT ![held[t]].token = t]
    /\ UNCHANGED <<rows, run, local, stops, counts>>

(* Mutant: the user's message is given twice, in the history and as input. *)
WithInput(h) == h

(* What the runtime is given: the history but for its last message. *)
Before(h) == SubSeq(h, 1, Len(h) - 1)

(* An empty history has no last message: the slice panics. *)
Snapshot(t) ==
    LET h == objects[held[t]].history IN
    /\ pc[t] = "snapshot"
    /\ \/ /\ h # <<>>
          /\ base' = [base EXCEPT ![t] = Before(h)]
          /\ Goto(t, "snapshot", "prepare")
          /\ UNCHANGED objects
       \/ /\ h = <<>>
          /\ Goto(t, "snapshot", "panicked")
          /\ Unlock(t)
          /\ UNCHANGED base
    /\ UNCHANGED <<rows, run, held, reply, saved, stops, counts>>

Prepare(t) ==
    /\ Goto(t, "prepare", "run")
    /\ UNCHANGED <<store, run, local, stops, counts>>

(* The runtime returns its messages; a cancelled one may have none. *)
RunTurn(t) ==
    /\ Goto(t, "run", "reply")
    /\ \E n \in 0 .. MaxReplies :
          /\ n = 0 => t \in cancelled
          /\ reply' = [reply EXCEPT ![t] = n]
    /\ UNCHANGED <<store, run, held, base, saved, stops, counts>>

(* It returns an error: the run is marked and the error passed on. *)
RunFails(t) ==
    /\ Goto(t, "run", "failing")
    /\ UNCHANGED <<store, run, local, stops, counts>>

FailRun(t) ==
    /\ Goto(t, "failing", "error")
    /\ run' = [run EXCEPT ![t] = "failed"]
    /\ Unlock(t)
    /\ UNCHANGED <<rows, local, stops, counts>>

(* Mutant: nobody counts the replies. *)
PushReplyAlways(t) ==
    /\ Goto(t, "reply", "replyRow")
    /\ PushMessage(<<t, saved[t] + 1>>)
    /\ UNCHANGED <<rows, run, local, stops, counts>>

PushReply(t) ==
    /\ saved[t] < reply[t]
    /\ Goto(t, "reply", "replyRow")
    /\ PushMessage(<<t, saved[t] + 1>>)
    /\ UNCHANGED <<rows, run, local, stops, counts>>

SaveReply(t) ==
    /\ Goto(t, "replyRow", "reply")
    /\ SaveMessage(<<t, saved[t] + 1>>)
    /\ saved' = [saved EXCEPT ![t] = @ + 1]
    /\ UNCHANGED <<objects, run, held, base, reply, stops, counts>>

(* update_run_usage and update_runtime_state. *)
RecordUsage(t) ==
    /\ saved[t] = reply[t]
    /\ Goto(t, "reply", "finish")
    /\ UNCHANGED <<store, run, local, stops, counts>>

Finish(t) ==
    /\ Goto(t, "finish", "clear")
    /\ run' = [run EXCEPT ![t] = "success"]
    /\ UNCHANGED <<store, local, stops, counts>>

(* Mutant: the token is not cleared. *)
ClearNothing(t) ==
    /\ Goto(t, "clear", "ok")
    /\ Unlock(t)
    /\ UNCHANGED <<rows, run, local, stops, counts>>

Clear(t) ==
    /\ Goto(t, "clear", "ok")
    /\ objects' = [objects EXCEPT ![held[t]].lock = NoTurn, ![held[t]].token = NoTurn]
    /\ UNCHANGED <<rows, run, local, stops, counts>>

(* A statement fails, or the prompt cannot be built: the error is passed on *)
(* at once.  At "userSaved" and "reply" what failed is the statement that    *)
(* follows the message's own, persist_session_control.                      *)
MayReturn == {"idle", "create", "user", "userRow", "userSaved", "prepare",
              "failing", "reply", "replyRow", "finish"}

(* Mutant: the lock is never dropped. *)
ReturnLocked(t) ==
    /\ failures < MaxFailures /\ failures' = failures + 1
    /\ pc[t] \in MayReturn
    /\ pc' = [pc EXCEPT ![t] = "error"]
    /\ UNCHANGED <<store, run, local, stops, crashes, reloads>>

EarlyReturn(t) ==
    /\ failures < MaxFailures /\ failures' = failures + 1
    /\ pc[t] \in MayReturn
    /\ pc' = [pc EXCEPT ![t] = "error"]
    /\ IF pc[t] \in Critical THEN Unlock(t) ELSE UNCHANGED objects
    /\ UNCHANGED <<rows, run, local, stops, crashes, reloads>>
-----------------------------------------------------------------------------
(***************************************************************************)
(* Stops, restarts, and what another load does to the cache.               *)
(***************************************************************************)
(* Cancel what the cached object holds a token of. *)
CancelCached ==
    LET token == objects[Cached].token IN
    /\ cancelled' = cancelled \cup ({token} \ {NoTurn})
    /\ objects' = [objects EXCEPT ![Cached].token = NoTurn]

Running == {t \in Turn : pc[t] \in Critical}

(* stop_turn.  It answers Ok whether it found a token or not. *)
StopTurn ==
    /\ CancelCached
    /\ UNCHANGED <<rows, run, pc, local, stopping, counts>>

(* control_run(stop) of the run of t: first the row, then the token. *)
ControlStop(t) ==
    /\ run[t] # "none" /\ stopping = {}
    /\ run' = [run EXCEPT ![t] = "stopped"]
    /\ stopping' = {t}
    /\ UNCHANGED <<store, pc, local, cancelled, counts>>

ControlCancel ==
    /\ stopping # {}
    /\ CancelCached
    /\ stopping' = {}
    /\ UNCHANGED <<rows, run, pc, local, counts>>

(* The process dies.  The next one loads the session from its rows. *)
Crash ==
    /\ crashes < MaxCrashes /\ crashes' = crashes + 1
    /\ pc' = [t \in Turn |-> IF pc[t] \in Outcome \cup {"idle"} THEN pc[t] ELSE "lost"]
    /\ objects' = <<NewObject(rows)>>
    /\ stopping' = {}
    /\ held' = [t \in Turn |-> 0]
    /\ UNCHANGED <<rows, run, base, reply, saved, cancelled, failures, reloads>>

(* A second cold load of the session installs its own object. *)
Reload ==
    /\ reloads < MaxReloads /\ reloads' = reloads + 1
    /\ objects' = Append(objects, NewObject(rows))
    /\ UNCHANGED <<rows, run, pc, local, stops, failures, crashes>>

Step(t) ==
    \/ Begin(t) \/ CreateRun(t) \/ Lock(t) \/ PushUser(t) \/ SaveUser(t)
    \/ SetToken(t) \/ Snapshot(t) \/ Prepare(t) \/ RunTurn(t) \/ RunFails(t)
    \/ FailRun(t) \/ PushReply(t) \/ SaveReply(t) \/ RecordUsage(t)
    \/ Finish(t) \/ Clear(t)

Next ==
    \/ \E t \in Turn : Step(t) \/ EarlyReturn(t) \/ ControlStop(t)
    \/ StopTurn \/ ControlCancel \/ Crash

Spec == Init /\ [][Next]_vars
RacingSpec == Init /\ [][Next \/ Reload]_vars

(* A turn that can take a step does, the runtime returns, and the lock is   *)
(* fair.                                                                   *)
LiveSpec == Spec /\ \A t \in Turn : WF_vars(Step(t)) /\ SF_vars(Lock(t))
-----------------------------------------------------------------------------
(***************************************************************************)
(* Properties.                                                             *)
(***************************************************************************)
(* Every variable has its type. *)
TypeOK ==
    /\ objects \in Seq(Object) /\ Len(objects) > 0
    /\ rows \in Seq(Message)
    /\ run \in [Turn -> Status]
    /\ pc \in [Turn -> Label]
    /\ held \in [Turn -> 0 .. Len(objects)]
    /\ base \in [Turn -> Seq(Message)]
    /\ reply \in [Turn -> 0 .. MaxReplies]
    /\ saved \in [Turn -> 0 .. MaxReplies]
    /\ cancelled \subseteq Turn /\ stopping \subseteq Turn
    /\ failures \in Nat /\ crashes \in Nat /\ reloads \in Nat

(* The table keeps turns whole: what one turn stored is never split by what *)
(* another stored, even when turns fail half way or the process restarts.   *)
WholeTurns ==
    \A i, k \in DOMAIN rows : rows[i][1] = rows[k][1] =>
        \A j \in i .. k : rows[j][1] = rows[i][1]

(* History h has every message of s once, in the order of s; it may have    *)
(* others.                                                                 *)
Recalls(h, s) ==
    /\ \A k, l \in DOMAIN h : h[k] = h[l] => k = l
    /\ \A i \in DOMAIN s : \E k \in DOMAIN h : h[k] = s[i]
    /\ \A i, j \in DOMAIN s : i < j =>
          \A k, l \in DOMAIN h : h[k] = s[i] /\ h[l] = s[j] => k < l

(* The runtime is given every message stored before the turn's own, once    *)
(* and in the order of the table, and none of the turn itself.  (It may     *)
(* also be given messages that were appended in memory and not stored.)     *)
SeesPast ==
    \A t \in Turn : pc[t] \in {"prepare", "run"} =>
        /\ \A i \in DOMAIN base[t] : base[t][i][1] # t
        /\ Recalls(base[t], Before(rows))

(* A stop cancels a turn that runs or has ended, never one that still waits *)
(* for the turn before it: that one would end before it began.              *)
StopsNobodyWaiting ==
    [][\A t \in cancelled' \ cancelled : pc[t] \in Critical \cup Outcome]_vars

(* What is stored of a turn is a prefix of it, the user's message first, in *)
(* order and once, whichever object its messages went through.              *)
InOrder ==
    /\ \A i, j \in DOMAIN rows :
          i < j /\ rows[i][1] = rows[j][1] => rows[i][2] < rows[j][2]
    /\ \A i \in DOMAIN rows : rows[i][2] > 0 =>
          \E j \in 1 .. i - 1 : rows[j] = <<rows[i][1], rows[i][2] - 1>>

(* A turn that was started ends: the lock of a turn that failed, panicked   *)
(* or was cancelled is never left for the others to wait on.                *)
TurnsEnd == \A t \in Turn : (pc[t] # "idle") ~> (pc[t] \in Outcome)

(* The layering design: the turns of a session run one at a time.           *)
OneAtATime == \A t, u \in Running : t = u

(* A token that is left in an object is that of the turn that runs, or of   *)
(* one that failed or panicked; a turn that succeeded, or that died with    *)
(* its process, never leaves one for a later stop to find.                  *)
TokenLeft ==
    \A i \in DOMAIN objects : LET t == objects[i].token IN
        t # NoTurn => pc[t] \in Critical \cup {"error", "panicked"}
=============================================================================
