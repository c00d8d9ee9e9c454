------------------------------ MODULE TaskStore ------------------------------
(***************************************************************************)
(* The list of tasks an agent keeps for itself, with the relation "blocks". *)
(* Tool calls run at once; each changes the store under its write lock and  *)
(* sends an event when it has let go of it.  An update that would start a   *)
(* blocked task fails after it has changed the task, but not the others.    *)
(***************************************************************************)
EXTENDS Naturals, FiniteSets

CONSTANTS Caller,     \* tool calls that can run at once
          MaxTasks,   \* bound: tasks created
          MaxUpdates, \* bound: updates
          MaxAdded    \* bound: tasks an update adds to each side of the relation

TaskStoreAssumption == {MaxTasks, MaxUpdates, MaxAdded} \subseteq Nat

Task   == 1 .. MaxTasks    \* ids are counted
Status == {"pending", "in_progress", "completed", "deleted"}
NoTask == 0
Keep   == "keep"           \* status: None

VARIABLES
    created,           \* tasks created
    status,            \* [Task -> Status]
    blocks, blockedBy, \* [Task -> SUBSET Task]
    event,             \* [Caller -> the event it has to send, <<task, status>>]
    updates,
    told,              \* history: [Task -> statuses sent to the client]
    waits,             \* history: <<a, b>>: a successful update said that a waits
                       \* for b, and b was not completed since
    torn               \* history: an update failed half way
vars == <<created, status, blocks, blockedBy, event, updates, told, waits, torn>>

NoEvent == <<NoTask, "pending">>
Exists(t) == t \in 1 .. created

Init ==
    /\ created = 0
    /\ status = [t \in Task |-> "pending"]
    /\ blocks = [t \in Task |-> {}] /\ blockedBy = blocks
    /\ event = [c \in Caller |-> NoEvent]
    /\ updates = 0
    /\ told = [t \in Task |-> {}] /\ waits = {} /\ torn = FALSE

(* TaskCreate: a pending task that blocks nothing.                          *)
Create(c) ==
    /\ event[c] = NoEvent /\ created < MaxTasks
    /\ created' = created + 1
    /\ event' = [event EXCEPT ![c] = <<created + 1, "pending">>]
    /\ UNCHANGED <<status, blocks, blockedBy, updates, told, waits, torn>>

(* TaskUpdate.  An unknown task, or a task said to block itself, is refused *)
(* before anything is changed ...                                           *)
(* A mutant: the tasks it names are not looked up.                         *)
ValidUnchecked(t, adds, addedBy) == Exists(t) /\ t \notin adds \cup addedBy
Valid(t, adds, addedBy) == Exists(t) /\ \A d \in adds \cup addedBy : d # t /\ Exists(d)
Refuse(c, t, adds, addedBy) ==
    /\ event[c] = NoEvent /\ updates < MaxUpdates /\ ~Valid(t, adds, addedBy)
    /\ updates' = updates + 1
    /\ UNCHANGED <<created, status, blocks, blockedBy, event, told, waits, torn>>

(* ... otherwise the task's own sides are extended first ...                *)
Own(relation, t, more) == [relation EXCEPT ![t] = @ \cup more]
(* ... and the call ends there when the task is to be, or to stay, in       *)
(* progress and is blocked.                                                 *)
(* A mutant: what blocks it now is not looked at.                          *)
BlockedByMore(t, next, addedBy) == next = "in_progress" /\ addedBy # {}
Blocked(t, next, addedBy) == next = "in_progress" /\ Own(blockedBy, t, addedBy)[t] # {}
NextStatus(t, s) == IF s = Keep THEN status[t] ELSE s

(* A mutant: the status is set before the check.                           *)
FailStarted(c, t, s, adds, addedBy) ==
    /\ event[c] = NoEvent /\ updates < MaxUpdates /\ Valid(t, adds, addedBy)
    /\ Blocked(t, NextStatus(t, s), addedBy)
    /\ updates' = updates + 1
    /\ blocks' = Own(blocks, t, adds)
    /\ blockedBy' = Own(blockedBy, t, addedBy)
    /\ status' = [status EXCEPT ![t] = "in_progress"]
    /\ torn' = TRUE
    /\ UNCHANGED <<created, event, told, waits>>
Fail(c, t, s, adds, addedBy) ==
    /\ event[c] = NoEvent /\ updates < MaxUpdates /\ Valid(t, adds, addedBy)
    /\ Blocked(t, NextStatus(t, s), addedBy)
    /\ updates' = updates + 1
    /\ blocks' = Own(blocks, t, adds)
    /\ blockedBy' = Own(blockedBy, t, addedBy)
    /\ torn' = (torn \/ adds \cup addedBy # {})
    /\ UNCHANGED <<created, status, event, told, waits>>

(* Otherwise the other side of each pair follows, and a task that is        *)
(* completed is taken from the tasks it blocks.                             *)
(* A mutant: blockers are not told.                                        *)
OneSide(relation, t, others) == relation
OtherSide(relation, t, others) ==
    [u \in Task |-> IF u \in others THEN relation[u] \cup {t} ELSE relation[u]]
(* A mutant: every task forgets all of its blockers.                       *)
FreedOfAll(by, t, blocked) == [u \in Task |-> IF u \in blocked THEN {} ELSE by[u]]
Freed(by, t, blocked) == [u \in Task |-> IF u \in blocked THEN by[u] \ {t} ELSE by[u]]
Update(c, t, s, adds, addedBy) ==
    LET next == NextStatus(t, s)
        allBlocks == OtherSide(Own(blocks, t, adds), t, addedBy)
        by == OtherSide(Own(blockedBy, t, addedBy), t, adds) IN
    /\ event[c] = NoEvent /\ updates < MaxUpdates /\ Valid(t, adds, addedBy)
    /\ ~Blocked(t, next, addedBy)
    /\ updates' = updates + 1
    /\ status' = [status EXCEPT ![t] = next]
    /\ blocks' = allBlocks
    /\ blockedBy' = IF next = "completed" THEN Freed(by, t, allBlocks[t]) ELSE by
    /\ event' = [event EXCEPT ![c] = <<t, next>>]
    /\ waits' = {w \in waits \cup {<<u, t>> : u \in adds} \cup {<<t, u>> : u \in addedBy} :
                     next # "completed" \/ w[2] # t}
    /\ UNCHANGED <<created, told, torn>>

(* The event of a call, TaskCreated or TaskStatusChanged.                   *)
Tell(c) ==
    /\ event[c] # NoEvent
    /\ told' = [told EXCEPT ![event[c][1]] = @ \cup {event[c][2]}]
    /\ event' = [event EXCEPT ![c] = NoEvent]
    /\ UNCHANGED <<created, status, blocks, blockedBy, updates, waits, torn>>

Added == {d \in SUBSET (Task \cup {NoTask}) : Cardinality(d) <= MaxAdded}
Next ==
    \E c \in Caller :
        \/ Create(c) \/ Tell(c)
        \/ \E t \in Task, adds \in Added, addedBy \in Added :
               \/ Refuse(c, t, adds, addedBy)
               \/ \E s \in Status \cup {Keep} : \/ Fail(c, t, s, adds, addedBy)
                                                \/ Update(c, t, s, adds, addedBy)
Spec == Init /\ [][Next]_vars
-----------------------------------------------------------------------------
TypeOK ==
    /\ created \in 0 .. MaxTasks
    /\ status \in [Task -> Status]
    /\ blocks \in [Task -> SUBSET (1 .. created)]
    /\ blockedBy \in [Task -> SUBSET (1 .. created)]
    /\ event \in [Caller -> (Task \cup {NoTask}) \X Status]
    /\ updates \in 0 .. MaxUpdates

(* Whoever blocks a task knows that it does, unless an update failed half   *)
(* way: completing it then reaches all it blocks (task.rs:177).             *)
BlockersKnow ==
    ~torn => \A t \in Task : \A b \in blockedBy[t] : t \in blocks[b]

(* A task starts only when every task it was said to wait for has been      *)
(* completed since, by whichever side and in whatever order the updates     *)
(* came (task.rs:166; docs/old/tool-system-enhancement.md:388).             *)
StartsFree ==
    [][\A t \in Task : status'[t] = "in_progress" /\ status[t] # "in_progress" =>
           \A w \in waits : w[1] # t]_vars

(* The client is told every status a task has: a failed update changes none *)
(* (task.rs:173).                                                           *)
AllTold ==
    (\A c \in Caller : event[c] = NoEvent) => \A t \in 1 .. created : status[t] \in told[t]

(* What docs/old/tool-system-enhancement.md:390 says: completing a task     *)
(* removes it from blocked_by of the tasks that depend on it.               *)
CompletingFrees ==
    [][\A t \in Task : status'[t] = "completed" /\ status[t] # "completed" =>
           \A u \in Task : t \notin blockedBy'[u]]_vars
=============================================================================
