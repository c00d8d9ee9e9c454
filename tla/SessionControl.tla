--------------------------- MODULE SessionControl ---------------------------
(***************************************************************************)
(* The control state and the title of one session.  Every call that changes *)
(* the control state does so under the lock of one Session object and then  *)
(* saves the WHOLE control state: it copies the title state into it, clones *)
(* it and writes the clone into the session's row, each a step of its own.  *)
(* Nothing orders the writes of two calls.  A message of the user may start *)
(* a title generation, a task that names the session later and saves too.   *)
(*                                                                         *)
(* A restart builds the object from the row.  That a cold load may replace  *)
(* the object under its callers is the business of SessionStore: here the   *)
(* session has one object.  Nobody but a generation names it (set_name has  *)
(* no other caller in src).  The control state and the name are read under  *)
(* two locks one after the other; the model clones both in one step, which  *)
(* differs only for a name given in between, whose giver saves it later.    *)
(***************************************************************************)
EXTENDS Naturals, Sequences, FiniteSets, SequencesExt

CONSTANTS Task,        \* callers
          Assigned,    \* fields a call overwrites: model override, project_dir, prompt
          Added,       \* fields a call adds to: token counters, skill bindings
          Length,      \* lengths of a user's text
          MinTexts,    \* TITLE_MIN_USER_MESSAGES: of the first and of a later attempt
          MinChars,    \* TITLE_MIN_TOTAL_CHARS
          MaxAttempts, \* TITLE_MAX_ATTEMPTS
          MaxCalls,    \* bound: calls
          MaxErrors,   \* bound: statements that fail
          MaxCrashes   \* bound: restarts

ASSUME SessionControlAssumption ==
    /\ Assigned \cap Added = {}
    /\ {MinChars, MaxAttempts, MaxCalls, MaxErrors, MaxCrashes} \subseteq Nat
    /\ Length \subseteq Nat /\ MinTexts \in [1 .. 2 -> Nat]

Field == Assigned \cup Added
Call  == 1 .. MaxCalls
Gen   == 1 .. MaxAttempts * (1 + MaxCrashes)   \* room for every generation
Actor == Task \cup {<<"gen", g>> : g \in Gen}

ASSUME ActorAssumption == Task \cap {<<"gen", g>> : g \in Gen} = {}

(* Whose value a field has, or which calls it counts.                       *)
Control == [Field -> SUBSET Call]
Source  == {"default", "ai"}
Status  == {"idle", "pending", "succeeded", "failed"}
Title   == [source : Source, status : Status, attempts : 0 .. MaxAttempts]
Name    == {0} \cup Gen                \* 0: the default title
State   == [control : Control, synced : Title]
NoTitle == [source |-> "default", status |-> "idle", attempts |-> 0]
Blank   == [control |-> [f \in Field |-> {}], synced |-> NoTitle]

VARIABLES
    mem,       \* the Session object
    row,       \* the row of the session and what its messages amount to
    pc, local, \* [Actor -> label], [Actor -> local variables]
    calls,     \* calls begun
    started,   \* history: generations started
    cloned,    \* history: who is to write a clone that no younger one has
               \* overtaken, the oldest first
    overtaken, \* history: an older clone was written, or an older title copied,
               \* after a younger one
    acked,     \* history: [Field -> the last call acknowledged, or 0]
    errors, crashes

history == <<started, cloned, overtaken, acked>>
vars == <<mem, row, pc, local, calls, history, errors, crashes>>

Object == [state : State, title : Title, name : Name, texts : Nat, chars : Nat]
Row    == [state : State, name : Name, texts : Nat, chars : Nat]
Load(r) == [state |-> r.state, title |-> r.state.synced, name |-> r.name,
            texts |-> r.texts, chars |-> r.chars]
Fresh == [state |-> Blank, name |-> 0, texts |-> 0, chars |-> 0]

Label == {"idle", "apply", "push", "saveMessage", "read", "sync", "clone", "write",
          "schedule", "spawn", "generate", "settle", "name"}
(* saves: by save_session, which writes the name as well; next: where the   *)
(* persist returns to.                                                      *)
NoLocal == [field |-> "none", call |-> 0, length |-> 0, title |-> NoTitle,
            snap |-> Blank, name |-> 0, saves |-> FALSE, next |-> "idle"]

Init ==
    /\ mem = Load(Fresh)
    /\ row = Fresh
    /\ pc = [a \in Actor |-> "idle"]
    /\ local = [a \in Actor |-> NoLocal]
    /\ calls = 0 /\ started = 0 /\ cloned = <<>> /\ overtaken = FALSE
    /\ acked = [f \in Field |-> 0]
    /\ errors = 0 /\ crashes = 0

Goto(a, l) == pc' = [pc EXCEPT ![a] = l]
Return(a) == Goto(a, "idle") /\ local' = [local EXCEPT ![a] = NoLocal]
(* persist_session_control and persist_runtime_control, which returns to l. *)
Persist(a, saves, l) ==
    /\ Goto(a, "read")
    /\ local' = [local EXCEPT ![a].saves = saves, ![a].next = l]
-----------------------------------------------------------------------------
(* override_model, set_project_dir, reload_system_prompt and                *)
(* update_runtime_state: get the cached object ...                          *)
Update(t, f) ==
    /\ pc[t] = "idle" /\ calls < MaxCalls
    /\ calls' = calls + 1
    /\ local' = [local EXCEPT ![t].field = f, ![t].call = calls + 1]
    /\ Goto(t, "apply")
    /\ UNCHANGED <<mem, row, history, errors, crashes>>

(* ... change one field of its control state under the lock ...             *)
(* A mutant: a count is overwritten.                                       *)
AppliedOver(control, f, k) == [control EXCEPT ![f] = {k}]
Applied(control, f, k) ==
    [control EXCEPT ![f] = IF f \in Added THEN @ \cup {k} ELSE {k}]
Apply(t) ==
    /\ pc[t] = "apply"
    /\ mem' = [mem EXCEPT !.state.control =
                   Applied(@, local[t].field, local[t].call)]
    /\ Persist(t, FALSE, "idle")
    /\ UNCHANGED <<row, calls, history, errors, crashes>>

(* ... and save: sync_title_state_into_control reads the title state, then  *)
(* writes it; the control state is cloned, with the name; the row written.  *)
ReadTitle(a) ==
    /\ pc[a] = "read"
    /\ local' = [local EXCEPT ![a].title = mem.title]
    /\ Goto(a, "sync")
    /\ UNCHANGED <<mem, row, calls, history, errors, crashes>>

Version(title) == 3 * title.attempts + (IF title.status = "pending" THEN 0 ELSE 1)
Synced(state, title) == [state EXCEPT !.synced = title]
Sync(a) ==
    /\ pc[a] = "sync"
    /\ mem' = [mem EXCEPT !.state = Synced(@, local[a].title)]
    /\ overtaken' = (overtaken \/ Version(local[a].title) < Version(mem.state.synced))
    /\ Goto(a, "clone")
    /\ UNCHANGED <<row, local, calls, started, cloned, acked, errors, crashes>>

(* The control state and the name are copied under two locks (persist.rs:50,*)
(* persist.rs:58), here at once: a name given between them is saved by the  *)
(* generation that gives it, after this copy.                               *)
Clone(a) ==
    /\ pc[a] = "clone"
    /\ cloned' = Append(cloned, a)
    /\ local' = [local EXCEPT ![a].snap = mem.state, ![a].name = mem.name]
    /\ Goto(a, "write")
    /\ UNCHANGED <<mem, row, calls, started, overtaken, acked, errors, crashes>>

(* save_session writes title and runtime_control,                           *)
(* update_session_runtime_control the latter alone.                         *)
Place(a) == CHOOSE i \in DOMAIN cloned : cloned[i] = a
Younger(a) == IF a \in ToSet(cloned) THEN SubSeq(cloned, Place(a) + 1, Len(cloned)) ELSE cloned
Without(a) == IF a \in ToSet(cloned) THEN RemoveAt(cloned, Place(a)) ELSE cloned
(* A mutant: the name is not saved.                                        *)
WrittenUnnamed(r, l) == [r EXCEPT !.state = l.snap]
Written(r, l) == [r EXCEPT !.state = l.snap, !.name = IF l.saves THEN l.name ELSE @]
Write(a) ==
    LET l == local[a]
        returns == l.next = "idle" /\ l.field # "none" IN
    /\ pc[a] = "write"
    /\ row' = Written(row, l)
    /\ overtaken' = (overtaken \/ a \notin ToSet(cloned))
    /\ cloned' = Younger(a)
    /\ acked' = IF returns THEN [acked EXCEPT ![l.field] = l.call] ELSE acked
    /\ IF l.next = "idle" THEN Return(a) ELSE Goto(a, l.next) /\ UNCHANGED local
    /\ UNCHANGED <<mem, calls, started, errors, crashes>>
-----------------------------------------------------------------------------
(* append_message of the user: push, save the message, save the control     *)
(* state, perhaps schedule a title.                                         *)
AppendMessage(t, n) ==
    /\ pc[t] = "idle" /\ calls < MaxCalls
    /\ calls' = calls + 1
    /\ local' = [local EXCEPT ![t].length = n]
    /\ Goto(t, "push")
    /\ UNCHANGED <<mem, row, history, errors, crashes>>

Longer(o, n) == [o EXCEPT !.texts = @ + 1, !.chars = @ + n]
Push(t) ==
    /\ pc[t] = "push"
    /\ mem' = Longer(mem, local[t].length)
    /\ Goto(t, "saveMessage")
    /\ UNCHANGED <<row, local, calls, history, errors, crashes>>

SaveMessage(t) ==
    /\ pc[t] = "saveMessage"
    /\ row' = Longer(row, local[t].length)
    /\ Persist(t, TRUE, "schedule")
    /\ UNCHANGED <<mem, calls, history, errors, crashes>>

(* maybe_schedule_title_generation, under the lock of the title state.      *)
(* Mutants: the attempts are not limited, the source is not looked at.      *)
MayGenerateForever(o) ==
    o.title.source = "default" /\ o.title.status # "pending" /\ o.chars >= MinChars
MayGenerateAgain(o) ==
    o.title.status # "pending" /\ o.title.attempts < MaxAttempts /\ o.chars >= MinChars
MayGenerate(o) ==
    /\ o.title.source = "default"
    /\ o.title.status # "pending"
    /\ o.title.attempts < MaxAttempts
    /\ o.texts >= MinTexts[IF o.title.attempts = 0 THEN 1 ELSE 2]
    /\ o.chars >= MinChars
SetPending(title) == [title EXCEPT !.status = "pending", !.attempts = @ + 1]

(* A mutant: the attempt is not saved before the generator starts.          *)
ScheduleUnsaved(t) ==
    /\ pc[t] = "schedule"
    /\ IF MayGenerate(mem)
       THEN /\ mem' = [mem EXCEPT !.title = SetPending(@)]
            /\ Goto(t, "spawn") /\ UNCHANGED local
       ELSE /\ Return(t)
            /\ UNCHANGED mem
    /\ UNCHANGED <<row, calls, history, errors, crashes>>

Schedule(t) ==
    /\ pc[t] = "schedule"
    /\ IF MayGenerate(mem)
       THEN /\ mem' = [mem EXCEPT !.title = SetPending(@)]
            /\ Persist(t, FALSE, "spawn")
       ELSE /\ Return(t)
            /\ UNCHANGED mem
    /\ UNCHANGED <<row, calls, history, errors, crashes>>

(* tokio::spawn of run_title_generation.                                    *)
Spawn(t) ==
    LET g == <<"gen", started + 1>> IN
    /\ pc[t] = "spawn"
    /\ started' = started + 1
    /\ pc' = [pc EXCEPT ![t] = "idle", ![g] = "generate"]
    /\ local' = [local EXCEPT ![t] = NoLocal]
    /\ UNCHANGED <<mem, row, calls, cloned, overtaken, acked, errors, crashes>>
-----------------------------------------------------------------------------
(* What becomes of the request to the provider: a title, nothing left after *)
(* normalisation, an error of one of two kinds, no answer in time.          *)
Outcome == {"title", "empty", "retryable", "non_retryable", "timeout"}
(* A mutant: the failure is not recorded.                                   *)
FailUnrecorded(title) == title
Succeed(title) == [title EXCEPT !.status = "succeeded", !.source = "ai"]
FailTitle(title) == [title EXCEPT !.status = "failed"]
Generate(g) ==
    /\ pc[g] = "generate"
    /\ \E o \in Outcome :
           IF o = "title"
           THEN /\ mem' = [mem EXCEPT !.title = Succeed(@)]
                /\ Goto(g, "name") /\ UNCHANGED local
           ELSE /\ mem' = [mem EXCEPT !.title = FailTitle(@)]
                /\ Persist(g, TRUE, "idle")
    /\ UNCHANGED <<row, calls, history, errors, crashes>>

SetName(g) ==
    /\ pc[g] = "name"
    /\ mem' = [mem EXCEPT !.name = g[2]]
    /\ Persist(g, TRUE, "idle")
    /\ UNCHANGED <<row, calls, history, errors, crashes>>
-----------------------------------------------------------------------------
(* A statement fails: the `?` ends the call where it stands.                *)
StatementFails(a) ==
    /\ pc[a] \in {"saveMessage", "write"} /\ errors < MaxErrors
    /\ errors' = errors + 1
    /\ cloned' = Without(a)
    /\ Return(a)
    /\ UNCHANGED <<mem, row, calls, started, overtaken, acked, crashes>>

(* The process ends; the next one builds the object from the rows.          *)
Crash ==
    /\ crashes < MaxCrashes
    /\ crashes' = crashes + 1
    /\ mem' = Load(row)
    /\ pc' = [a \in Actor |-> "idle"]
    /\ local' = [a \in Actor |-> NoLocal]
    /\ cloned' = <<>>
    /\ UNCHANGED <<row, calls, started, overtaken, acked, errors>>

Step(a) ==
    \/ Apply(a) \/ ReadTitle(a) \/ Sync(a) \/ Clone(a) \/ Write(a)
    \/ Push(a) \/ SaveMessage(a) \/ Schedule(a) \/ Spawn(a)
    \/ Generate(a) \/ SetName(a)

Next ==
    \/ \E t \in Task : \/ \E f \in Field : Update(t, f)
                       \/ \E n \in Length : AppendMessage(t, n)
    \/ \E a \in Actor : Step(a) \/ StatementFails(a)
    \/ Crash

Spec == Init /\ [][Next]_vars
FairSpec == Spec /\ \A a \in Actor : WF_vars(Step(a))
-----------------------------------------------------------------------------
TypeOK ==
    /\ mem \in Object
    /\ row \in Row
    /\ pc \in [Actor -> Label]
    /\ \A a \in Actor : /\ local[a].title \in Title /\ local[a].snap \in State
                        /\ local[a].name \in Name
    /\ calls \in 0 .. MaxCalls /\ started \in 0 .. Cardinality(Gen)
    /\ acked \in [Field -> {0} \cup Call]

Quiet == \A a \in Actor : pc[a] = "idle"

(* Saves lose nothing by any other way than being overtaken: when no call   *)
(* is under way and no older clone of the control state was written after a *)
(* younger one, the row holds control state, title state and name as the    *)
(* object does (persist.rs:47, persist.rs:71, title.rs:119).  The comment   *)
(* at control.rs:100 says that the title state is not stored; the code      *)
(* stores it (persist.rs:89) and loads it (queries.rs:27, 97, 272), and it  *)
(* is what bounds the attempts over restarts: see TitleInMemoryOnly.        *)
RowAgrees ==
    Quiet /\ ~overtaken /\ errors = 0 =>
        /\ row.state = Synced(mem.state, mem.title)
        /\ row.name = mem.name

(* However often the process restarts, a session asks for a title at most   *)
(* MaxAttempts times, as long as no save was overtaken: the attempt is in   *)
(* the row before the generator starts (title.rs:57).                       *)
AttemptsBounded == ~overtaken => started <= MaxAttempts

(* Every call that counts tokens or skills is in the memory of the object   *)
(* once it has been acknowledged, whatever was saved in between: the save   *)
(* of a stale title state leaves the other fields alone (persist.rs:86).    *)
CountsKept ==
    crashes = 0 =>
        \A f \in Added : acked[f] # 0 => acked[f] \in mem.state.control[f]

(* What is stored is what the object holds, and no acknowledged count is     *)
(* lost, whatever calls, saves and title requests interleave.               *)
RowKept == TypeOK /\ RowAgrees /\ CountsKept

(* A session that was named by a generation keeps that name: no second      *)
(* generation renames it as long as the process lives, nor after a restart  *)
(* if no save was overtaken (title.rs:22, title.rs:119).                    *)
NamedOnce ==
    [][crashes' = crashes /\ mem.name # 0 /\ (overtaken => crashes = 0) =>
           mem'.name = mem.name]_vars

(* A title that is pending becomes a title or a failure, unless a save      *)
(* fails or the process ends: the generation is bounded by a timeout        *)
(* (title.rs:80).                                                           *)
Pending == mem.title.status = "pending" /\ errors = 0 /\ crashes = 0
TitleSettles == Pending ~> ~Pending

(* What docs/2026-05-26-session-auto-title-llm says: a pending title becomes *)
(* succeeded or failed.  Somebody must be at work on it.                    *)
PendingInFlight ==
    mem.title.status = "pending" =>
        \E a \in Actor : pc[a] \in {"read", "sync", "clone", "write", "spawn", "generate"}

(* What control.rs:100 says: the title state is not persisted to SQLite, it *)
(* is a state in memory only.                                               *)
TitleInMemoryOnly == row.state.synced = NoTitle

(* What docs/old/2026-05-04-project-management-enhancement says of          *)
(* set_project_dir: the update is written back to the repository.           *)
UpdateReachesRow ==
    Quiet /\ errors = 0 =>
        \A f \in Assigned : row.state.control[f] = mem.state.control[f]
=============================================================================
