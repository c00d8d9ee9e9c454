---------------------------- MODULE ToolRegistry ----------------------------
(***************************************************************************)
(* The tools of the main agent: always-on ones, deferred ones that a        *)
(* session switches on for itself with ToolSearch, and the view of both     *)
(* that each request to the model is made with.  Tool calls of one answer   *)
(* run at once; the registry's lock covers one name at a time, and a        *)
(* session can be deleted while its turn runs.                              *)
(***************************************************************************)
EXTENDS Naturals, FiniteSets

CONSTANTS Root, Child,  \* sessions; Root is the parent of Child
          Tool,         \* names
          Core,         \* always on from the start
          Host,         \* registered by the host while sessions run
          Broken,       \* tools whose factory panics
          MaxIterations,\* bound: requests of a turn
          MaxTurns,     \* bound: [Session -> turns]
          MaxCalls      \* bound: tools an answer calls, and selects

ASSUME ToolRegistryAssumption ==
    /\ Root # Child /\ Core \cup Host \cup Broken \subseteq Tool
    /\ MaxTurns \in [{Root, Child} -> Nat] /\ MaxCalls \in Nat /\ MaxIterations \in Nat \ {0}
Session == {Root, Child}

VARIABLES
    tools,      \* always on
    deferred,   \* names with a factory; a name can be in both
    activated,  \* session_activations: [Session -> SUBSET Tool]
    rows,       \* sessions that exist
    clearing,   \* deleted sessions whose activations are about to be cleared
    turns,      \* [Session -> turns started]
    iteration,  \* [Session -> requests of this turn, 0: no turn]
    view,       \* [Session -> loaded tools the last request was made with]
    listed,     \* [Session -> deferred tools in the system prompt of the turn]
    selecting,  \* [Session -> names ToolSearch still has to resolve]
    running,    \* [Session -> calls of the answer that still have to run]
    told,       \* history: [Session -> names it was told are loaded]
    missing,    \* history: [Session -> offered tools that were not found]
    busy        \* history: sessions deleted during a turn, or with their root
registered == <<tools, deferred>>
turn == <<turns, iteration, view, listed, selecting, running>>
history == <<told, missing, busy>>
vars == <<registered, activated, rows, clearing, turn, history>>

Init ==
    LET none == [s \in Session |-> {}] IN
    /\ tools = Core
    /\ deferred = Tool \ (Core \cup Host)   \* register_builtin_tools, external tools
    /\ activated = none /\ rows = Session /\ clearing = {}
    /\ turns = [s \in Session |-> 0] /\ iteration = turns
    /\ view = none /\ listed = none /\ selecting = none /\ running = none
    /\ told = none /\ missing = none /\ busy = {}

(* The host registers a tool while sessions run: always on or deferred.     *)
Register(t) ==
    /\ \/ t \notin tools /\ tools' = tools \cup {t} /\ UNCHANGED deferred
       \/ t \notin deferred /\ deferred' = deferred \cup {t} /\ UNCHANGED tools
    /\ UNCHANGED <<activated, rows, clearing, turn, history>>

(* get_turn_view.                                                           *)
(* A mutant: what any session activated is loaded for all.                 *)
LoadedForAll(s) == tools \cup UNION {activated[o] : o \in Session}
Loaded(s) == tools \cup activated[s]
(* A mutant: only tools that are always on are taken from the list.        *)
UnloadedOfAll(s) == deferred \ tools
Unloaded(s) == deferred \ (tools \cup activated[s])

(* A turn begins: prepare_turn takes the view its first request is made     *)
(* with, and the prompt lists the deferred tools once for the whole turn.   *)
Prepare(s) ==
    /\ s \in rows /\ iteration[s] = 0 /\ turns[s] < MaxTurns[s]
    /\ turns' = [turns EXCEPT ![s] = @ + 1]
    /\ iteration' = [iteration EXCEPT ![s] = 1]
    /\ view' = [view EXCEPT ![s] = Loaded(s)]
    /\ listed' = [listed EXCEPT ![s] = Unloaded(s)]
    /\ UNCHANGED <<registered, activated, rows, clearing, selecting, running, history>>

Answered(s) == iteration[s] > 0 /\ selecting[s] = {} /\ running[s] = {}
(* The model answers with calls of tools it was offered and a ToolSearch,   *)
(* which is always on; select: takes any names, a category those that the   *)
(* registry then has of it.                                                 *)
Answer(s, calls, names) ==
    /\ Answered(s) /\ calls \cup names # {}
    /\ calls \subseteq view[s] /\ names \subseteq Tool
    /\ Cardinality(calls) <= MaxCalls /\ Cardinality(names) <= MaxCalls
    /\ running' = [running EXCEPT ![s] = calls]
    /\ selecting' = [selecting EXCEPT ![s] = names]
    /\ UNCHANGED <<registered, activated, rows, clearing, turns, iteration, view, listed, history>>

(* resolve_deferred_with_outcome, one name.                                 *)
(* A mutant: a panic of the factory is not noticed.                        *)
OutcomeUnsafe(s, t) ==
    IF t \in tools \cup activated[s] THEN "AlreadyLoaded"
    ELSE IF t \notin deferred THEN "NotFound" ELSE "Loaded"
Outcome(s, t) ==
    IF t \in tools \cup activated[s] THEN "AlreadyLoaded"
    ELSE IF t \notin deferred THEN "NotFound"
    ELSE IF t \in Broken THEN "FactoryFailed" ELSE "Loaded"
Resolve(s, t) ==
    /\ t \in selecting[s]
    /\ selecting' = [selecting EXCEPT ![s] = @ \ {t}]
    /\ activated' = [activated EXCEPT ![s] = @ \cup {n \in {t} : Outcome(s, t) = "Loaded"}]
    /\ told' = [told EXCEPT ![s] =
           @ \cup {n \in {t} : Outcome(s, t) \in {"Loaded", "AlreadyLoaded"}}]
    /\ UNCHANGED <<registered, rows, clearing, turns, iteration, view, listed, running, missing, busy>>

(* execute: always-on tools first, then those of the session.               *)
(* A mutant: tools of the session are not looked for.                      *)
FoundAlwaysOn(s, t) == t \in tools
Found(s, t) == t \in tools \/ t \in activated[s]
Execute(s, t) ==
    /\ t \in running[s]
    /\ running' = [running EXCEPT ![s] = @ \ {t}]
    /\ missing' = [missing EXCEPT ![s] = IF Found(s, t) THEN @ ELSE @ \cup {t}]
    /\ UNCHANGED <<registered, activated, rows, clearing, turns, iteration, view, listed, selecting, told, busy>>

(* tool_metadata, and ToolInfo, which is always on: the answer says whether *)
(* a tool that the request was made with is loaded for the session.         *)
Metadata(s, t) ==
    IF t \in tools \cup activated[s] THEN "Loaded"
    ELSE IF t \in deferred THEN "Deferred" ELSE "NotFound"
Info(s, t) == IF view[s] # {} /\ t \notin view[s] THEN "NotVisible" ELSE Metadata(s, t)
Inquire(s, t) ==
    /\ iteration[s] > 0
    /\ told' = [told EXCEPT ![s] = @ \cup {n \in {t} : Info(s, t) = "Loaded"}]
    /\ UNCHANGED <<registered, activated, rows, clearing, turn, missing, busy>>

(* The next request of the turn is made with a new view, or the turn ends.  *)
(* A mutant: the view of the turn's start is kept.                         *)
RefreshNot(s) ==
    /\ Answered(s) /\ iteration[s] < MaxIterations
    /\ iteration' = [iteration EXCEPT ![s] = @ + 1]
    /\ UNCHANGED <<registered, activated, rows, clearing, turns, view, listed, selecting, running, history>>
Refresh(s) ==
    /\ Answered(s) /\ iteration[s] < MaxIterations
    /\ iteration' = [iteration EXCEPT ![s] = @ + 1]
    /\ view' = [view EXCEPT ![s] = Loaded(s)]
    /\ UNCHANGED <<registered, activated, rows, clearing, turns, listed, selecting, running, history>>
Finish(s) ==
    /\ Answered(s)
    /\ iteration' = [iteration EXCEPT ![s] = 0]
    /\ view' = [view EXCEPT ![s] = {}] /\ listed' = [listed EXCEPT ![s] = {}]
    /\ UNCHANGED <<registered, activated, rows, clearing, turns, selecting, running, history>>

(* delete_session refuses a parent; delete_session_tree takes it with its   *)
(* child.  Turns go on with the objects they hold.  Activations of the      *)
(* session named in the call are cleared afterwards.                        *)
Delete(s) ==
    /\ s \in rows /\ (s = Root => Child \notin rows)
    /\ rows' = rows \ {s} /\ clearing' = clearing \cup {s}
    /\ busy' = busy \cup {o \in {s} : iteration[o] > 0}
    /\ UNCHANGED <<registered, activated, turn, told, missing>>
DeleteTree ==
    /\ Session \subseteq rows
    /\ rows' = {} /\ clearing' = clearing \cup {Root}
    /\ busy' = busy \cup {Child} \cup {o \in {Root} : iteration[o] > 0}
    /\ UNCHANGED <<registered, activated, turn, told, missing>>
(* A mutant: nothing is cleared.                                           *)
ClearNothing(s) ==
    /\ s \in clearing /\ clearing' = clearing \ {s}
    /\ UNCHANGED <<registered, activated, rows, turn, history>>
Clear(s) ==
    /\ s \in clearing /\ clearing' = clearing \ {s}
    /\ activated' = [activated EXCEPT ![s] = {}]
    /\ UNCHANGED <<registered, rows, turn, history>>

Next ==
    \/ \E t \in Host : Register(t)
    \/ DeleteTree
    \/ \E s \in Session :
        \/ Prepare(s) \/ Refresh(s) \/ Finish(s) \/ Delete(s) \/ Clear(s)
        \/ \E calls, names \in SUBSET Tool : Answer(s, calls, names)
        \/ \E t \in Tool : Resolve(s, t) \/ Execute(s, t) \/ Inquire(s, t)
Spec == Init /\ [][Next]_vars
-----------------------------------------------------------------------------
TypeOK ==
    /\ tools \subseteq Tool /\ deferred \subseteq Tool
    /\ rows \subseteq Session /\ clearing \subseteq Session \ rows
    /\ iteration \in [Session -> 0 .. MaxIterations]
    /\ \A s \in Session : activated[s] \subseteq deferred \ Broken

(* A session is offered no tool another session switched on: what is not    *)
(* always on its own ToolSearch or ToolInfo said is loaded                  *)
(* (registry.rs:447).                                                       *)
Isolated == \A s \in Session : view[s] \subseteq tools \cup told[s]

(* A tool the model was offered is found when it is called, whatever is     *)
(* registered or switched on meanwhile, unless the session was deleted in   *)
(* the turn (registry.rs:692).                                              *)
OfferedRuns == \A s \in Session : missing[s] # {} => s \in busy

(* A tool the model was told is loaded is in the next request and in every  *)
(* later one, of this turn and, with their first ones, of the turns that    *)
(* follow, while the session exists (tool_exec.rs:319, runtime.rs:238).     *)
LoadedIsOffered ==
    [][\A s \in rows : iteration'[s] > 0 /\ iteration'[s] # iteration[s]
           => told[s] \subseteq view'[s]]_vars

(* The prompt of a turn and its first request never disagree: a tool is     *)
(* offered or listed as one to be loaded, not both (registry.rs:482).       *)
NotBoth == \A s \in Session : iteration[s] = 1 => view[s] \cap listed[s] = {}

(* A session deleted between turns leaves no activations (application.rs:  *)
(* 433).                                                                    *)
QuietRelease == \A s \in Session \ (rows \cup clearing \cup busy) : activated[s] = {}

(* What docs/2026-05-17-session-scoped-tool-activation/                     *)
(* session-scoped-tool-activation-plan-3.md:33 says of delete_session:      *)
(* nothing of the session is left afterwards.                               *)
NoResidue ==
    Child \notin rows \cup clearing /\ Root \in rows => activated[Child] = {}
=============================================================================
