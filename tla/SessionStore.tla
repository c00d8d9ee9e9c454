---------------------------- MODULE SessionStore ----------------------------
(***************************************************************************)
(* SessionService of nova-agent: an in-memory cache of Session objects over *)
(* a SQLite repository.  At start-up the cache holds an index of sessions   *)
(* without histories; the history of a session is loaded from the database  *)
(* the first time somebody needs it, and the table `loading` is there to    *)
(* make concurrent first uses share one load.                               *)
(*                                                                         *)
(* Every caller is a task of its own and every lock section and every SQL   *)
(* statement is one step: between two of them any other task may run.  A    *)
(* Session object (an Arc<Session>) is an index into `heap`; what the heap  *)
(* keeps of it is the set of messages of its in-memory history.             *)
(*                                                                         *)
(* An append may leave a task behind that outlives it: the generation of a  *)
(* title, which in the end writes the row of the session with an upsert.    *)
(* When a title is due is the matter of SessionControl; here every append   *)
(* may start one.                                                          *)
(***************************************************************************)
EXTENDS Naturals, Sequences, FiniteSets

CONSTANTS Task,       \* tasks that call the service
          Id,         \* session ids
          SystemMsg,  \* initial messages written when a session is created
          UserMsg,    \* messages appended by turns
          Ops,        \* the operations the tasks call
          MaxCalls,   \* bound: calls started in a behaviour
          MaxErrors,  \* bound: database statements that fail
          MaxCrashes  \* bound: restarts of the process

AllOps == {"get", "history", "append", "create", "delete"}

ASSUME SessionStoreAssumption ==
    /\ Ops \subseteq AllOps
    /\ SystemMsg \cap UserMsg = {}
    /\ "none" \notin Id            \* stands for no id in the refinement
    /\ {MaxCalls, MaxErrors, MaxCrashes} \subseteq Nat

Msg == SystemMsg \cup UserMsg
Null == 0                       \* no Session object
NoCall == [op |-> "none"]
NoMsg == "none"                 \* the call writes no message
Call == [op : Ops, id : Id, msg : Msg \cup {NoMsg}]

VARIABLES
    rows,      \* ids that have a row in the table sessions
    stored,    \* [Id -> SUBSET Msg]: the rows of the table messages
    cache,     \* [Id -> Nat]: the cached Session object, Null if none
    full,      \* ids whose cache entry says history_loaded
    heap,      \* the in-memory histories of the Session objects
    loading,   \* ids with an entry in the table `loading`
    waiters,   \* [Id -> SUBSET Task]: the oneshot senders of that entry
    up,        \* start-up is over and the service takes calls
    titles,    \* [Id -> Nat]: title generations at work for a session
    pc,        \* [Task -> label]
    call,      \* [Task -> Call or NoCall]: the arguments of the call
    ret        \* [Task -> Nat]: the Session object the call holds

(* Variables that only remember the past. *)
VARIABLES
    calls, errors, crashes,  \* what the bounds count
    used,      \* messages that have been written once
    acked,     \* [Id -> SUBSET Msg]: appends that returned Ok
    copies,    \* [Id -> Nat]: loaded objects put into the cache since start-up
    disturbed, \* ids a failed statement or a delete touched since start-up
    gone       \* ids deleted while nothing worked on them, not created since

db     == <<rows, stored>>
memory == <<cache, full, heap>>
flight == <<loading, waiters>>
service == <<up, titles>>
past   == <<calls, errors, crashes, used, acked, copies, disturbed, gone>>
vars   == <<db, memory, flight, service, pc, call, ret, past>>

LoaderLabel   == {"readRow", "readMessages", "install", "release"}
DatabaseLabel == {"readMeta", "readRow", "readMessages", "save", "persist",
                  "schedule", "createRow", "createMessage", "deleteRows"}
Label == LoaderLabel \cup DatabaseLabel \cup
         {"idle", "isLoaded", "returnCached", "isCached", "recheck", "enter",
          "wait", "ensured", "get", "index", "publish", "evict"}

Init ==
    /\ rows \in SUBSET Id
    /\ stored = [i \in Id |-> {}]
    /\ cache = [i \in Id |-> Null]
    /\ full = {}
    /\ heap = <<>>
    /\ loading = {}
    /\ waiters = [i \in Id |-> {}]
    /\ up = FALSE
    /\ titles = [i \in Id |-> 0]
    /\ pc = [t \in Task |-> "idle"]
    /\ call = [t \in Task |-> NoCall]
    /\ ret = [t \in Task |-> Null]
    /\ calls = 0 /\ errors = 0 /\ crashes = 0
    /\ used = {}
    /\ acked = [i \in Id |-> {}]
    /\ copies = [i \in Id |-> 0]
    /\ disturbed = {}
    /\ gone = {}

(***************************************************************************)
(* Helpers.                                                                *)
(***************************************************************************)
Goto(t, l) == pc' = [pc EXCEPT ![t] = l]

(* Mutant: the call returns but its arguments are kept. *)
ReturnKeepsCall(t) ==
    /\ Goto(t, "idle")
    /\ UNCHANGED call
    /\ ret' = [ret EXCEPT ![t] = Null]

(* The call of t returns, with a result or an error. *)
Return(t) ==
    /\ Goto(t, "idle")
    /\ call' = [call EXCEPT ![t] = NoCall]
    /\ ret' = [ret EXCEPT ![t] = Null]

(* A new Session object with history h, the next index of the heap. *)
New == Len(heap) + 1
Allocate(h) == heap' = Append(heap, h)

(* SessionCache::insert_indexed and ::insert_loaded: both overwrite.       *)
InsertIndexed(i, o) ==
    /\ cache' = [cache EXCEPT ![i] = o]
    /\ full' = full \ {i}

InsertLoaded(i, o) ==
    /\ cache' = [cache EXCEPT ![i] = o]
    /\ full' = full \cup {i}
    /\ copies' = [copies EXCEPT ![i] = @ + 1]

(* What the caller of get does with its result o: create returns an        *)
(* existing session, and a session that was cold goes on to be loaded.     *)
GetReturns(t, o) ==
    \/ /\ call[t].op = "get" \/ (call[t].op = "create" /\ o # Null)
       /\ Return(t)
    \/ /\ call[t].op = "create" /\ o = Null
       /\ Goto(t, "createRow")
       /\ UNCHANGED <<call, ret>>
    \/ /\ call[t].op \in {"history", "append"}
       /\ Goto(t, IF o = Null THEN "ensured" ELSE "recheck")
       /\ UNCHANGED <<call, ret>>

(***************************************************************************)
(* A task starts a call.                                                   *)
(***************************************************************************)
FirstLabel(op) ==
    CASE op \in {"get", "create"}     -> "get"
      [] op \in {"history", "append"} -> "isLoaded"
      [] op = "delete"                -> "deleteRows"

(* The messages a call of op may write, each written by one call only.     *)
Fresh(op) ==
    CASE op = "append" -> UserMsg \ used
      [] op = "create" -> SystemMsg \ used
      [] OTHER         -> {NoMsg}

Start(t) ==
    /\ up
    /\ pc[t] = "idle"
    /\ calls < MaxCalls
    /\ \E op \in Ops, i \in Id : \E m \in Fresh(op) :
          /\ call' = [call EXCEPT ![t] = [op |-> op, id |-> i, msg |-> m]]
          /\ Goto(t, FirstLabel(op))
          /\ used' = used \cup ({m} \ {NoMsg})
    /\ calls' = calls + 1
    /\ UNCHANGED <<db, memory, flight, service, ret, errors, crashes, acked, copies,
                   disturbed, gone>>
-----------------------------------------------------------------------------
(***************************************************************************)
(* get                                                                     *)
(***************************************************************************)
Get(t) ==
    /\ pc[t] = "get"
    /\ \/ /\ cache[call[t].id] # Null
          /\ GetReturns(t, cache[call[t].id])
       \/ /\ cache[call[t].id] = Null
          /\ Goto(t, "readMeta")
          /\ UNCHANGED <<call, ret>>
    /\ UNCHANGED <<db, memory, flight, service, past>>

ReadMeta(t) ==
    /\ pc[t] = "readMeta"
    /\ \/ /\ call[t].id \in rows
          /\ Goto(t, "index")
          /\ UNCHANGED <<call, ret>>
       \/ /\ call[t].id \notin rows
          /\ GetReturns(t, Null)
    /\ UNCHANGED <<db, memory, flight, service, past>>

Index(t) ==
    /\ pc[t] = "index"
    /\ Allocate({})
    /\ InsertIndexed(call[t].id, New)
    /\ GetReturns(t, New)
    /\ UNCHANGED <<db, flight, service, past>>
-----------------------------------------------------------------------------
(***************************************************************************)
(* ensure_session_history_loaded                                           *)
(***************************************************************************)
IsLoaded(t) ==
    /\ pc[t] = "isLoaded"
    /\ Goto(t, IF call[t].id \in full THEN "returnCached" ELSE "isCached")
    /\ UNCHANGED <<db, memory, flight, service, call, ret, past>>

ReturnCached(t) ==
    /\ pc[t] = "returnCached"
    /\ ret' = [ret EXCEPT ![t] = cache[call[t].id]]
    /\ Goto(t, "ensured")
    /\ UNCHANGED <<db, memory, flight, service, call, past>>

IsCached(t) ==
    /\ pc[t] = "isCached"
    /\ Goto(t, IF cache[call[t].id] = Null THEN "get" ELSE "enter")
    /\ UNCHANGED <<db, memory, flight, service, call, ret, past>>

Recheck(t) ==
    /\ pc[t] = "recheck"
    /\ Goto(t, IF call[t].id \in full THEN "returnCached" ELSE "enter")
    /\ UNCHANGED <<db, memory, flight, service, call, ret, past>>

(* Mutant: every task that finds the history missing loads it itself. *)
AlwaysLeads(i) == TRUE

MayLead(i) == i \notin loading

(* Under the write lock of `loading`: follow the load of this id or lead   *)
(* one.  Whether the history has been loaded meanwhile is not asked again. *)
Enter(t) ==
    LET i == call[t].id IN
    /\ pc[t] = "enter"
    /\ \/ /\ i \in loading
          /\ waiters' = [waiters EXCEPT ![i] = @ \cup {t}]
          /\ Goto(t, "wait")
          /\ UNCHANGED loading
       \/ /\ MayLead(i)
          /\ loading' = loading \cup {i}
          /\ waiters' = [waiters EXCEPT ![i] = {}]
          /\ Goto(t, "readRow")
    /\ UNCHANGED <<db, memory, service, call, ret, past>>

ReadRow(t) ==
    /\ pc[t] = "readRow"
    /\ Goto(t, IF call[t].id \in rows THEN "readMessages" ELSE "release")
    /\ UNCHANGED <<db, memory, flight, service, call, ret, past>>

(* Mutant: the object is marked as loaded with the history of the index. *)
IndexedHistory(i) == {}

LoadedHistory(i) == stored[i]

ReadMessages(t) ==
    /\ pc[t] = "readMessages"
    /\ Allocate(LoadedHistory(call[t].id))
    /\ ret' = [ret EXCEPT ![t] = New]
    /\ Goto(t, "install")
    /\ UNCHANGED <<db, cache, full, flight, service, call, past>>

Install(t) ==
    /\ pc[t] = "install"
    /\ InsertLoaded(call[t].id, ret[t])
    /\ Goto(t, "release")
    /\ UNCHANGED <<db, heap, flight, service, call, ret, calls, errors, crashes, used,
                   acked, disturbed, gone>>

(* Mutant: the entry is removed and its senders are forgotten. *)
AnswersItself(t) == {t}

Answered(t) == waiters[call[t].id] \cup {t}

(* Remove the entry of `loading` and send every waiter the result.         *)
Release(t) ==
    LET i == call[t].id IN
    /\ pc[t] = "release"
    /\ loading' = loading \ {i}
    /\ waiters' = [waiters EXCEPT ![i] = {}]
    /\ pc' = [u \in Task |-> IF u \in Answered(t) THEN "ensured" ELSE pc[u]]
    /\ ret' = [u \in Task |-> IF u \in Answered(t) THEN ret[t] ELSE ret[u]]
    /\ UNCHANGED <<db, memory, service, call, past>>
-----------------------------------------------------------------------------
(***************************************************************************)
(* get_with_history returns what it was given; append_message goes on to   *)
(* push, save and persist, or fails because there is no such session.      *)
(***************************************************************************)
Ensured(t) ==
    /\ pc[t] = "ensured"
    /\ call[t].op = "history" \/ ret[t] = Null
    /\ Return(t)
    /\ UNCHANGED <<db, memory, flight, service, past>>

Push(t) ==
    /\ pc[t] = "ensured"
    /\ call[t].op = "append"
    /\ ret[t] # Null
    /\ heap' = [heap EXCEPT ![ret[t]] = @ \cup {call[t].msg}]
    /\ Goto(t, "save")
    /\ UNCHANGED <<db, cache, full, flight, service, call, ret, past>>

(* save_message: an INSERT whose foreign key needs the row of the session. *)
Save(t) ==
    /\ pc[t] = "save"
    /\ \/ /\ call[t].id \in rows
          /\ stored' = [stored EXCEPT ![call[t].id] = @ \cup {call[t].msg}]
          /\ Goto(t, "persist")
          /\ UNCHANGED <<call, ret>>
       \/ /\ call[t].id \notin rows
          /\ Return(t)
          /\ UNCHANGED stored
    /\ UNCHANGED <<rows, memory, flight, service, past>>

(* The append returns Ok.                                                  *)
Acknowledge(t) ==
    /\ acked' = [acked EXCEPT ![call[t].id] = @ \cup {call[t].msg}]
    /\ Return(t)

(* persist_session_control: an INSERT that updates on conflict, so it      *)
(* writes the row of the session whether or not there is one.  A message   *)
(* of the user may make a title due (maybe_schedule_title_generation).     *)
Persist(t) ==
    /\ pc[t] = "persist"
    /\ rows' = rows \cup {call[t].id}
    /\ \/ Acknowledge(t)
       \/ /\ Goto(t, "schedule")
          /\ UNCHANGED <<call, ret, acked>>
    /\ UNCHANGED <<stored, memory, flight, service, calls, errors, crashes, used,
                   copies, disturbed, gone>>

(* persist_runtime_control is an UPDATE, which makes no row; then the       *)
(* generation is spawned and the append returns without waiting for it.     *)
Schedule(t) ==
    /\ pc[t] = "schedule"
    /\ titles' = [titles EXCEPT ![call[t].id] = @ + 1]
    /\ Acknowledge(t)
    /\ UNCHANGED <<db, memory, flight, up, calls, errors, crashes, used, copies,
                   disturbed, gone>>

(* run_title_generation ends, with a title or without one: it writes the    *)
(* session with the same upsert, or the statement fails and is logged.      *)
TitleEnds(i) ==
    /\ titles[i] > 0
    /\ titles' = [titles EXCEPT ![i] = @ - 1]
    /\ \/ /\ rows' = rows \cup {i}
          /\ UNCHANGED errors
       \/ /\ errors < MaxErrors
          /\ errors' = errors + 1
          /\ UNCHANGED rows
    /\ UNCHANGED <<stored, memory, flight, up, pc, call, ret, calls, crashes, used,
                   acked, copies, disturbed, gone>>
-----------------------------------------------------------------------------
(***************************************************************************)
(* create_for_agent_with_id, when get found nothing: persist_full_session  *)
(* writes the row and then the initial message, and only then is the new   *)
(* object put into the cache.                                              *)
(***************************************************************************)
CreateRow(t) ==
    /\ pc[t] = "createRow"
    /\ rows' = rows \cup {call[t].id}
    /\ gone' = gone \ {call[t].id}
    /\ Goto(t, "createMessage")
    /\ UNCHANGED <<stored, memory, flight, service, call, ret, calls, errors, crashes,
                   used, acked, copies, disturbed>>

CreateMessage(t) ==
    /\ pc[t] = "createMessage"
    /\ \/ /\ call[t].id \in rows
          /\ stored' = [stored EXCEPT ![call[t].id] = @ \cup {call[t].msg}]
          /\ Goto(t, "publish")
          /\ UNCHANGED <<call, ret>>
       \/ /\ call[t].id \notin rows
          /\ Return(t)
          /\ UNCHANGED stored
    /\ UNCHANGED <<rows, memory, flight, service, past>>

Publish(t) ==
    /\ pc[t] = "publish"
    /\ Allocate({call[t].msg})
    /\ InsertLoaded(call[t].id, New)
    /\ Return(t)
    /\ UNCHANGED <<db, flight, service, calls, errors, crashes, used, acked, disturbed,
                   gone>>
-----------------------------------------------------------------------------
(***************************************************************************)
(* delete: one transaction over both tables, then the cache entry.         *)
(***************************************************************************)
Busy(i) == {t \in Task : pc[t] # "idle" /\ call[t].id = i}

(* Nothing but the call of t works on its session: no other call, and no    *)
(* generation of a title.                                                  *)
Quiet(t) == Busy(call[t].id) = {t} /\ titles[call[t].id] = 0

DeleteRows(t) ==
    LET i == call[t].id IN
    /\ pc[t] = "deleteRows"
    /\ rows' = rows \ {i}
    /\ stored' = [stored EXCEPT ![i] = {}]
    /\ acked' = [acked EXCEPT ![i] = {}]
    /\ disturbed' = disturbed \cup {i}
    /\ gone' = IF Quiet(t) THEN gone \cup {i} ELSE gone
    /\ Goto(t, "evict")
    /\ UNCHANGED <<memory, flight, service, call, ret, calls, errors, crashes, used,
                   copies>>

(* Mutant: the rows are deleted and the cache entry stays. *)
EvictNothing(t) ==
    /\ pc[t] = "evict"
    /\ Return(t)
    /\ UNCHANGED <<db, memory, flight, service, past>>

Evict(t) ==
    /\ pc[t] = "evict"
    /\ cache' = [cache EXCEPT ![call[t].id] = Null]
    /\ full' = full \ {call[t].id}
    /\ Return(t)
    /\ UNCHANGED <<db, heap, flight, service, past>>
-----------------------------------------------------------------------------
(***************************************************************************)
(* A statement fails: the call returns the error at once, whatever it had  *)
(* done before stays done.                                                 *)
(***************************************************************************)
StatementFails(t) ==
    /\ pc[t] \in DatabaseLabel
    /\ errors < MaxErrors
    /\ errors' = errors + 1
    /\ disturbed' = disturbed \cup {call[t].id}
    /\ Return(t)
    /\ UNCHANGED <<db, memory, flight, service, calls, crashes, used, acked, copies,
                   gone>>

(***************************************************************************)
(* The process stops and starts again; load_session_index then indexes     *)
(* every row before the service takes calls.                               *)
(***************************************************************************)
Crash ==
    /\ crashes < MaxCrashes
    /\ crashes' = crashes + 1
    /\ cache' = [i \in Id |-> Null]
    /\ full' = {}
    /\ heap' = <<>>
    /\ loading' = {}
    /\ waiters' = [i \in Id |-> {}]
    /\ up' = FALSE
    /\ titles' = [i \in Id |-> 0]
    /\ pc' = [t \in Task |-> "idle"]
    /\ call' = [t \in Task |-> NoCall]
    /\ ret' = [t \in Task |-> Null]
    /\ copies' = [i \in Id |-> 0]
    /\ disturbed' = {}
    /\ UNCHANGED <<db, calls, errors, used, acked, gone>>

IndexRow(i) ==
    /\ ~up
    /\ i \in rows
    /\ cache[i] = Null
    /\ Allocate({})
    /\ InsertIndexed(i, New)
    /\ UNCHANGED <<db, flight, service, pc, call, ret, past>>

Serve ==
    /\ ~up
    /\ \A i \in rows : cache[i] # Null
    /\ up' = TRUE
    /\ UNCHANGED <<db, memory, flight, titles, pc, call, ret, past>>
-----------------------------------------------------------------------------
Step(t) ==
    \/ Get(t) \/ ReadMeta(t) \/ Index(t)
    \/ IsLoaded(t) \/ ReturnCached(t) \/ IsCached(t) \/ Recheck(t)
    \/ Enter(t) \/ ReadRow(t) \/ ReadMessages(t) \/ Install(t) \/ Release(t)
    \/ Ensured(t) \/ Push(t) \/ Save(t) \/ Persist(t) \/ Schedule(t)
    \/ CreateRow(t) \/ CreateMessage(t) \/ Publish(t)
    \/ DeleteRows(t) \/ Evict(t)

Next ==
    \/ \E t \in Task : Start(t) \/ Step(t) \/ StatementFails(t)
    \/ \E i \in Id : IndexRow(i) \/ TitleEnds(i)
    \/ Crash
    \/ Serve

Spec == Init /\ [][Next]_vars

(* The runtime polls every task that can run; nobody has to call, and      *)
(* nothing has to fail.                                                    *)
FairSpec == Spec /\ \A t \in Task : WF_vars(Step(t))
-----------------------------------------------------------------------------
(***************************************************************************)
(* Properties.                                                             *)
(***************************************************************************)
StoreTypeOK ==
    /\ rows \subseteq Id
    /\ stored \in [Id -> SUBSET Msg]
    /\ heap \in Seq(SUBSET Msg)
    /\ cache \in [Id -> Nat]
    /\ full \subseteq Id
    /\ loading \subseteq Id
    /\ waiters \in [Id -> SUBSET Task]
    /\ up \in BOOLEAN
    /\ titles \in [Id -> Nat]

(* The arguments of a call fit the place it has reached. *)
CallFits(t) ==
    /\ call[t] = NoCall <=> pc[t] = "idle"
    /\ call[t].op \in {"append", "create"} => call[t].msg \in Msg
    /\ pc[t] \in {"save", "persist", "schedule"} => call[t].op = "append"
    /\ pc[t] \in {"createRow", "createMessage", "publish"} => call[t].op = "create"

TaskTypeOK ==
    /\ pc \in [Task -> Label]
    /\ call \in [Task -> Call \cup {NoCall}]
    /\ ret \in [Task -> Nat]
    /\ \A t \in Task : CallFits(t)

ObjectsExist ==
    /\ \A i \in Id : cache[i] <= Len(heap)
    /\ \A t \in Task : ret[t] <= Len(heap)

PastTypeOK ==
    /\ calls \in Nat /\ errors \in Nat /\ crashes \in Nat
    /\ used \subseteq Msg
    /\ acked \in [Id -> SUBSET Msg]
    /\ copies \in [Id -> Nat]
    /\ disturbed \subseteq Id
    /\ gone \subseteq Id

(* Every variable has its type; no task and no cache entry holds a Session *)
(* object that does not exist, across restarts too.                        *)
TypeOK == StoreTypeOK /\ TaskTypeOK /\ ObjectsExist /\ PastTypeOK

Loaders(i) == {t \in Task : pc[t] \in LoaderLabel /\ call[t].id = i}

(* The table `loading` is consistent with the tasks: a load has an entry   *)
(* and one loader at most, a task waits exactly when the entry of its id   *)
(* holds its sender, and an entry nobody is loading was left behind by a   *)
(* failed statement.  So no caller waits for an answer nobody is going to  *)
(* send, unless a load failed.                                             *)
FlightInv ==
    /\ \A t \in Task : pc[t] \in LoaderLabel => call[t].id \in loading
    /\ \A t, u \in Task :
          /\ pc[t] \in LoaderLabel /\ pc[u] \in LoaderLabel
          /\ call[t].id = call[u].id
          => t = u
    /\ \A t \in Task :
          pc[t] = "wait" => call[t].id \in loading /\ t \in waiters[call[t].id]
    /\ \A i \in Id : \A t \in waiters[i] : pc[t] = "wait" /\ call[t].id = i
    /\ \A i \in loading : Loaders(i) # {} \/ i \in disturbed

(* Messages on their way into the history and the database of session i.   *)
InFlight(i) ==
    {call[t].msg : t \in {u \in Task :
        pc[u] \in {"save", "createMessage", "publish"} /\ call[u].id = i}}

(* As long as the cache has held one loaded copy of a session, and no      *)
(* statement on it failed and nobody deleted it, that copy and the         *)
(* database have the same messages up to the ones being written.           *)
OneCopyAgrees ==
    \A i \in full \ disturbed :
        copies[i] = 1 =>
            /\ stored[i] \ InFlight(i) \subseteq heap[cache[i]]
            /\ heap[cache[i]] \subseteq stored[i] \cup InFlight(i)

(* A session deleted while no other call and no title generation was       *)
(* working on it stays deleted: calls that found it in the cache before    *)
(* the entry was evicted, and the generations they start, cannot bring     *)
(* back its row, nor can anybody put it into the cache again.  (With one   *)
(* of them at work at the deletion it comes back: README section 6.)       *)
QuietDeleteIsFinal ==
    \A i \in gone :
        /\ i \notin rows
        /\ stored[i] = {}
        /\ cache[i] # Null =>
              \E t \in Task : pc[t] = "evict" /\ call[t].id = i

(* The de-duplication of loads is a single flight: the callers that arrive *)
(* while a load is running get the loader's own result, and no other.      *)
Flight == INSTANCE SingleFlight WITH
    Caller   <- Task,
    Key      <- Id,
    NoKey    <- "none",
    NoAnswer <- <<>>,
    open     <- loading,
    leads    <- [t \in Task |-> IF pc[t] \in LoaderLabel THEN call[t].id ELSE "none"],
    follows  <- [t \in Task |-> IF pc[t] = "wait" THEN call[t].id ELSE "none"],
    answer   <- [t \in Task |-> IF pc[t] = "ensured" THEN <<ret[t]>> ELSE <<>>]

SingleFlightSpec == Flight!Spec

(* Every call returns, whoever it waits for, unless a statement failed: the *)
(* loader of a session whose load failed leaves its waiters behind.         *)
CallsReturn == \A t \in Task : (pc[t] # "idle") ~> (pc[t] = "idle" \/ errors > 0)

(* The audit plan: a message append_message has acknowledged is in the      *)
(* history that get_with_history returns.                                   *)
AckedVisible == \A i \in full \ disturbed : acked[i] \subseteq heap[cache[i]]
=============================================================================
