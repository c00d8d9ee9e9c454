----------------------------- MODULE SessionTree -----------------------------
(***************************************************************************)
(* The tree of sessions: a tool call of a turn may run a sub-agent, whose   *)
(* turn has a child session of its own and may run sub-agents in turn.  The *)
(* relation is kept by the child's row (parent, and the chain of ancestors, *)
(* both written once); the parent's object lists its children as well.      *)
(* Clients copy sessions, delete them alone or with their tree and read a   *)
(* tree, while sub-agents run.                                             *)
(*                                                                         *)
(* A session that has never been in use is a number not yet `made`, as its  *)
(* identifier is drawn at random.  Rows written by a version without the    *)
(* column for the ancestors have none; the relation is then walked.         *)
(*                                                                         *)
(* An object once cached stays until its session is deleted.  In the code a *)
(* load of the history (queries.rs:142-175, 267-271) reads the children and *)
(* installs an object over the cached one in two steps, and one that comes  *)
(* late replaces the list of children too, with any child pushed meanwhile; *)
(* that race is the subject of SessionStore and is left out here, as are    *)
(* title generations, whose upsert may bring back a row that was deleted.   *)
(***************************************************************************)
EXTENDS Naturals, Sequences, FiniteSets, SequencesExt

CONSTANTS Task,        \* sub-agent calls
          Client,      \* callers of the application
          Start,       \* sessions the first process finds: a chain of this length
          MaxSessions, \* bound: sessions ever made
          MaxDeletes,  \* bound: deletions
          MaxReads,    \* bound: other calls of clients
          MaxCrashes,  \* bound: restarts
          Depth        \* max_depth of a tree that is read

ASSUME SessionTreeAssumption ==
    /\ {Start, MaxSessions} \subseteq Nat \ {0} /\ Start <= MaxSessions
    /\ {MaxDeletes, MaxReads, MaxCrashes, Depth} \subseteq Nat
    /\ Task \cap Client = {}

Id      == 0 .. MaxSessions - 1
NoId    == MaxSessions
NoChain == <<NoId>>          \* the column is NULL
Turn    == "turn"            \* caller of a sub-agent: the turn of a user

VARIABLES
    made,      \* sessions made so far
    parent,    \* [Id -> parent or NoId], as row and object have it
    chain,     \* [Id -> ancestors, the root first, or NoChain]
    rows,      \* sessions with a row
    cached,    \* sessions in the cache
    kids,      \* [Id -> child_session_ids of the cached object]
    pc, local, \* [Task \cup Client -> label], [... -> local variables]
    deletes, reads, crashes,
    overlapped, \* history: a deletion ran while a session was being made or
                \* a turn of a sub-agent was being stored
    torn       \* history: a call was dropped between the row of its session
               \* and the parent's list, and no process has indexed since

tree  == <<made, parent, chain, rows>>
mem   == <<cached, kids>>
count == <<deletes, reads, crashes>>
vars  == <<tree, mem, pc, local, count, overlapped, torn>>

Actor == Task \cup Client
(* of a sub-agent: caller, its session, chain; of a client: the session     *)
(* asked for, the sessions collected and those yet to visit, and, when it   *)
(* began alone, the sessions then made and those with a row.                *)
NoLocal == [caller |-> Turn, session |-> NoId, child |-> NoId, chain |-> <<>>,
            found |-> <<>>, stack |-> <<>>, before |-> <<>>]

Init ==
    /\ made = Start
    /\ parent = [i \in Id |-> IF i \in 1 .. Start - 1 THEN i - 1 ELSE NoId]
    /\ \E k \in 0 .. Start :      \* the first k rows are old
           chain = [i \in Id |-> IF i < k \/ i >= Start THEN NoChain
                                 ELSE [n \in 1 .. i |-> n - 1]]
    /\ rows = 0 .. Start - 1
    /\ cached = rows
    /\ kids = [i \in Id |-> IF i + 1 < Start THEN <<i + 1>> ELSE <<>>]
    /\ pc = [a \in Actor |-> "idle"]
    /\ local = [a \in Actor |-> NoLocal]
    /\ deletes = 0 /\ reads = 0 /\ crashes = 0 /\ overlapped = FALSE /\ torn = FALSE

Others(c)  == \A a \in Actor \ {c} : pc[a] = "idle"
Goto(a, l) == pc' = [pc EXCEPT ![a] = l]
Return(a)  == Goto(a, "idle") /\ local' = [local EXCEPT ![a] = NoLocal]

(* list_child_session_ids, ordered as the sessions were made.               *)
Children(i) == {c \in rows : parent[c] = i}
ChildRows(i) ==
    CHOOSE s \in [1 .. Cardinality(Children(i)) -> Children(i)] :
        ToSet(s) = Children(i) /\ \A m, n \in DOMAIN s : m < n => s[m] < s[n]
(* A session enters the cache with the children its rows name, in one step, *)
(* unless it is there already, and then its object stays.                   *)
CacheFromRow(i) ==
    /\ cached' = cached \cup {i}
    /\ kids' = IF i \in cached THEN kids ELSE [kids EXCEPT ![i] = ChildRows(i)]
-----------------------------------------------------------------------------
(* run_subagent, called by the turn of a session or of another sub-agent.   *)
(* When the agent, the skill, the provider or the prompt cannot be found it *)
(* returns before it has done anything.                                     *)
Running(a) == pc[a] = "run"
Spawn(t, caller, s) ==
    /\ pc[t] = "idle" /\ made < MaxSessions
    /\ IF caller = Turn THEN s < Start /\ s \in cached
       ELSE Running(caller) /\ s = local[caller].child
    /\ Goto(t, "resolveRoot")
    /\ local' = [local EXCEPT ![t].caller = caller, ![t].session = s]
    /\ UNCHANGED <<tree, mem, count>>

(* Ancestors along parent_session_id.  The walk fails where a row is gone.  *)
Walk ==
    LET w[i \in Id \cup {NoId}] ==
            IF i = NoId THEN <<>> ELSE Append(w[parent[i]], i)
    IN w
(* create_with_parent resolves the root: the column or the walk ...         *)
Known(i) == i \in rows /\ (chain[i] = NoChain => ToSet(Walk[i]) \subseteq rows)
ResolveRoot(t) ==
    /\ pc[t] = "resolveRoot"
    /\ IF Known(local[t].session) THEN Goto(t, "resolveChain") /\ UNCHANGED local
       ELSE Return(t)
    /\ UNCHANGED <<tree, mem, count>>

(* ... and the ancestors, adds the parent, draws an id ...                  *)
(* A mutant: the parent is left out.                                       *)
ChainUnderParent(s) == IF chain[s] # NoChain THEN chain[s] ELSE Walk[parent[s]]
ChainUnder(s) == Append(IF chain[s] # NoChain THEN chain[s] ELSE Walk[parent[s]], s)
ResolveChain(t) ==
    /\ pc[t] = "resolveChain"
    /\ IF Known(local[t].session)
       THEN /\ Goto(t, "saveRow")
            /\ local' = [local EXCEPT ![t].chain = ChainUnder(local[t].session)]
       ELSE Return(t)
    /\ UNCHANGED <<tree, mem, count>>

(* ... writes the row ...                                                   *)
(* A mutant: two sessions share an id.                                     *)
SaveRowUnderLastId(t) ==
    /\ pc[t] = "saveRow" /\ made < MaxSessions
    /\ rows' = rows \cup {made}
    /\ local' = [local EXCEPT ![t].child = made]
    /\ Goto(t, "insert")
    /\ UNCHANGED <<made, parent, chain, mem, count>>
SaveRow(t) ==
    /\ pc[t] = "saveRow" /\ made < MaxSessions
    /\ made' = made + 1
    /\ parent' = [parent EXCEPT ![made] = local[t].session]
    /\ chain' = [chain EXCEPT ![made] = local[t].chain]
    /\ rows' = rows \cup {made}
    /\ local' = [local EXCEPT ![t].child = made]
    /\ Goto(t, "insert")
    /\ UNCHANGED <<mem, count>>

(* ... and caches the object, with no child yet.                            *)
Insert(t) ==
    /\ pc[t] = "insert"
    /\ cached' = cached \cup {local[t].child}
    /\ kids' = [kids EXCEPT ![local[t].child] = <<>>]
    /\ Goto(t, "pushChild")
    /\ UNCHANGED <<tree, local, count>>

(* create_child_session tells the parent's object, if it is in the cache.   *)
(* A mutant: the list is replaced.                                         *)
PushOnlyChild(t) ==
    LET p == local[t].session IN
    /\ pc[t] = "pushChild"
    /\ kids' = [kids EXCEPT ![p] = IF p \in cached THEN <<local[t].child>> ELSE @]
    /\ Goto(t, "run")
    /\ UNCHANGED <<tree, cached, local, count>>
PushChild(t) ==
    LET p == local[t].session
        c == local[t].child IN
    /\ pc[t] = "pushChild"
    /\ kids' = [kids EXCEPT ![p] = IF p \in cached /\ ~Contains(@, c)
                                   THEN Append(@, c) ELSE @]
    /\ Goto(t, "run")
    /\ UNCHANGED <<tree, cached, local, count>>

(* The turn of the child ends once the sub-agents it called have: in an     *)
(* error, which the `?` returns, or with messages to store.                 *)
Alone(t) == \A u \in Task : pc[u] = "idle" \/ local[u].caller # t
TurnFails(t) ==
    /\ Running(t) /\ Alone(t)
    /\ Return(t)
    /\ UNCHANGED <<tree, mem, count>>

(* persist_subagent_turn: append_message finds the session in the cache or  *)
(* loads it ...                                                             *)
FindChild(t) ==
    LET c == local[t].child IN
    /\ Running(t) /\ Alone(t)
    /\ IF c \in cached \cup rows
       THEN CacheFromRow(c) /\ Goto(t, "saveMessage") /\ UNCHANGED local
       ELSE Return(t) /\ UNCHANGED mem
    /\ UNCHANGED <<tree, count>>

(* ... inserts the message, which the foreign key refuses when there is no  *)
(* row, and writes the row again, an upsert.                                *)
SaveMessage(t) ==
    /\ pc[t] = "saveMessage"
    /\ IF local[t].child \in rows THEN Goto(t, "persist") /\ UNCHANGED local
       ELSE Return(t)
    /\ UNCHANGED <<tree, mem, count>>
Persist(t) ==
    /\ pc[t] = "persist"
    /\ rows' = rows \cup {local[t].child}
    /\ Return(t)
    /\ UNCHANGED <<made, parent, chain, mem, count>>

(* A tool call that takes too long is dropped with all it runs.             *)
Below(t) ==
    {u \in Task : pc[u] # "idle" /\ \A S \in SUBSET Task :
        t \in S /\ (\A v \in Task : local[v].caller \in S => v \in S) => u \in S}
Drop(t) ==
    /\ pc[t] # "idle" /\ local[t].caller = Turn
    /\ pc' = [a \in Actor |-> IF a \in Below(t) THEN "idle" ELSE pc[a]]
    /\ local' = [a \in Actor |-> IF a \in Below(t) THEN NoLocal ELSE local[a]]
    /\ UNCHANGED <<tree, mem, count>>
-----------------------------------------------------------------------------
(* delete_session of the application: a session with children is refused.   *)
Refused(i) == ChildRows(i) # <<>>
Delete(c, i) ==
    /\ pc[c] = "idle" /\ deletes < MaxDeletes /\ i < made
    /\ deletes' = deletes + 1
    /\ IF Refused(i) THEN UNCHANGED <<pc, local>>
       ELSE Goto(c, "deleteRows") /\ local' = [local EXCEPT ![c].found = <<i>>]
    /\ UNCHANGED <<tree, mem, reads, crashes>>

(* delete_session_tree: nothing happens when the root is not there.         *)
DeleteTree(c, i) ==
    /\ pc[c] = "idle" /\ deletes < MaxDeletes /\ i \in rows
    /\ deletes' = deletes + 1
    /\ Goto(c, "collect")
    /\ local' = [local EXCEPT ![c].found = <<i>>, ![c].stack = <<i>>]
    /\ UNCHANGED <<tree, mem, reads, crashes>>

(* One query for the children of each session found.                        *)
(* A mutant: the children found are not visited.                           *)
CollectChildren(c) ==
    LET s == local[c].stack
        found == ChildRows(Last(s)) IN
    /\ pc[c] = "collect" /\ s # <<>>
    /\ local' = [local EXCEPT ![c].found = @ \o found, ![c].stack = Front(s)]
    /\ UNCHANGED <<tree, mem, pc, count>>
Collect(c) ==
    LET s == local[c].stack
        found == ChildRows(Last(s)) IN
    /\ pc[c] = "collect" /\ s # <<>>
    /\ local' = [local EXCEPT ![c].found = @ \o found, ![c].stack = Front(s) \o found]
    /\ UNCHANGED <<tree, mem, pc, count>>
Collected(c) ==
    /\ pc[c] = "collect" /\ local[c].stack = <<>>
    /\ Goto(c, "deleteRows")
    /\ UNCHANGED <<tree, mem, local, count>>

(* delete_session and delete_sessions_bulk: one transaction.                *)
DeleteRows(c) ==
    /\ pc[c] = "deleteRows"
    /\ rows' = rows \ ToSet(local[c].found)
    /\ Goto(c, "evict")
    /\ UNCHANGED <<made, parent, chain, mem, local, count>>

Evict(c) ==
    LET found == local[c].found IN
    /\ pc[c] = "evict"
    /\ cached' = cached \ {Head(found)}
    /\ IF Len(found) = 1 THEN Return(c)
       ELSE local' = [local EXCEPT ![c].found = Tail(@)] /\ UNCHANGED pc
    /\ UNCHANGED <<tree, kids, count>>
-----------------------------------------------------------------------------
(* get_session_tree: each node is looked up in the cache, or loaded, and    *)
(* its children are visited, down to the depth asked for.                   *)
GetTree(c, i) ==
    /\ pc[c] = "idle" /\ reads < MaxReads /\ i < made
    /\ reads' = reads + 1
    /\ Goto(c, "visit")
    /\ local' = [local EXCEPT ![c].session = i, ![c].stack = <<<<i, Depth>>>>,
                   ![c].before = IF Others(c) THEN <<made, rows>> ELSE <<>>]
    /\ UNCHANGED <<tree, mem, deletes, crashes>>

(* A mutant: the bound is met one level late.                              *)
ExpandDeeper(node, list) == [n \in DOMAIN list |-> <<list[n], node[2] - 1>>]
Expand(node, list) ==
    IF node[2] = 0 THEN <<>> ELSE [n \in DOMAIN list |-> <<list[n], node[2] - 1>>]
Visit(c) ==
    LET node == Head(local[c].stack)
        i == node[1]
        list == IF i \in cached THEN kids[i] ELSE ChildRows(i) IN
    /\ pc[c] = "visit" /\ local[c].stack # <<>>
    /\ IF i \in cached \cup rows
       THEN /\ CacheFromRow(i)
            /\ local' = [local EXCEPT ![c].found = Append(@, i),
                                      ![c].stack = Expand(node, list) \o Tail(@)]
            /\ UNCHANGED pc
       ELSE /\ Goto(c, "failed")
            /\ UNCHANGED <<mem, local>>
    /\ UNCHANGED <<tree, count>>
Answered(c) ==
    /\ \/ pc[c] = "visit" /\ local[c].stack = <<>>
       \/ pc[c] = "failed"
    /\ Return(c)
    /\ UNCHANGED <<tree, mem, count>>

(* copy_session: the copy is a root; its row and its entry in the cache are *)
(* made before its id is known to anybody.                                  *)
Copy(c, i) ==
    /\ pc[c] = "idle" /\ reads < MaxReads /\ made < MaxSessions
    /\ i \in cached \cup rows
    /\ reads' = reads + 1
    /\ made' = made + 1
    /\ chain' = [chain EXCEPT ![made] = <<>>]
    /\ rows' = rows \cup {made}
    /\ cached' = cached \cup {made, i}
    /\ kids' = [kids EXCEPT ![i] = IF i \in cached THEN @ ELSE ChildRows(i)]
    /\ UNCHANGED <<parent, pc, local, deletes, crashes>>

(* The process ends; the next one indexes the rows.                         *)
Crash ==
    /\ crashes < MaxCrashes
    /\ crashes' = crashes + 1
    /\ cached' = rows
    /\ kids' = [i \in Id |-> ChildRows(i)]
    /\ pc' = [a \in Actor |-> "idle"]
    /\ local' = [a \in Actor |-> NoLocal]
    /\ UNCHANGED <<tree, deletes, reads>>

(* A tree is being deleted while a session is being made or stored.         *)
Making(t)   == pc[t] \in {"resolveChain", "saveRow", "insert", "saveMessage", "persist"}
Deleting(c) == pc[c] \in {"collect", "deleteRows", "evict"}
Overlap == (\E t \in Task : Making(t)) /\ (\E c \in Client : Deleting(c))

Torn == \E t \in Task : pc[t] \in {"insert", "pushChild"} /\ pc'[t] = "idle"

Step(t) ==
    \/ ResolveRoot(t) \/ ResolveChain(t) \/ SaveRow(t) \/ Insert(t) \/ PushChild(t)
    \/ TurnFails(t) \/ FindChild(t) \/ SaveMessage(t) \/ Persist(t) \/ Drop(t)
Request(c) ==
    \/ \E i \in Id : Delete(c, i) \/ DeleteTree(c, i) \/ GetTree(c, i) \/ Copy(c, i)
    \/ Collect(c) \/ Collected(c) \/ DeleteRows(c) \/ Evict(c) \/ Visit(c) \/ Answered(c)
Next ==
    /\ \/ \E t \in Task : \/ Step(t)
                          \/ \E u \in (Task \ {t}) \cup {Turn}, s \in Id : Spawn(t, u, s)
       \/ \E c \in Client : Request(c)
       \/ Crash
    /\ overlapped' = (overlapped \/ Overlap')
    /\ torn' = (crashes' = crashes /\ (torn \/ Torn))

Spec == Init /\ [][Next]_vars
-----------------------------------------------------------------------------
Quiet == \A a \in Actor : pc[a] = "idle"
Descendants(i) == {d \in 0 .. made - 1 : i \in ToSet(Walk[d])}

TypeOK ==
    /\ made \in 1 .. MaxSessions
    /\ parent \in [Id -> Id \cup {NoId}]
    /\ \A i \in Id : chain[i] = NoChain \/ chain[i] \in Seq(Id)
    /\ rows \subseteq Id /\ cached \subseteq 0 .. made - 1
    /\ \A i \in Id : kids[i] \in Seq(Id)
    /\ deletes \in 0 .. MaxDeletes /\ reads \in 0 .. MaxReads

(* What a child's row says of its ancestors is the chain of parents, under  *)
(* old and new rows alike, and stays so when an ancestor is deleted         *)
(* (write.rs:37, queries.rs:318).                                           *)
ChainTrue == \A i \in 0 .. made - 1 : chain[i] # NoChain => chain[i] = Walk[parent[i]]
                  \* parent[i] = NoId: the empty walk

(* Unless a session was made or stored during a deletion, every session has *)
(* its parent, and nothing is cached that has no row (write.rs:243).        *)
TreeWhole ==
    ~overlapped /\ Quiet => /\ \A i \in rows : parent[i] \in rows \cup {NoId}
                            /\ cached \subseteq rows

(* The object of a parent lists the children that have rows, once each,     *)
(* whatever sub-agents of it were made at once, unless one was dropped while *)
(* it was made (conversation_service.rs:713).                               *)
KidsListed ==
    Quiet /\ ~torn =>
        \A p \in cached : /\ ToSet(ChildRows(p)) \subseteq ToSet(kids[p])
                          /\ IsInjective(kids[p])

(* Sessions that sub-agents make at once and restarts forget stay one tree,  *)
(* in the rows and in the objects.                                          *)
TreeKept == TypeOK /\ ChainTrue /\ TreeWhole /\ KidsListed

Near(i, d) == Len(Walk[d]) - Len(Walk[i]) <= Depth

(* A tree that was read while nothing else ran is the tree of the sessions: *)
(* everything below the root, down to the depth asked for, and once         *)
(* (session_tree.rs:24).                                                    *)
ReadIsTree ==
    \A c \in Client :
        /\ pc[c] = "visit" /\ local[c].stack = <<>>
        /\ Others(c) /\ local[c].before = <<made, rows>> /\ ~torn /\ ~overlapped
        => /\ IsInjective(local[c].found)
           /\ ToSet(local[c].found) =
                  {d \in Descendants(local[c].session) \cap rows : Near(local[c].session, d)}

(* What the comment at application.rs:421 says: delete_session leaves no    *)
(* orphan, as it refuses a session with children.                           *)
NoOrphans == \A i \in rows : parent[i] \in rows \cup {NoId}

(* What docs/2026-05-20-session-parent-child-tree/                          *)
(* session-parent-child-tree-plan-3.md:275 says: a tree cannot be read when *)
(* its root does not exist.                                                 *)
FailsForMissingRoot ==
    \A c \in Client : pc[c] = "failed" => local[c].session \notin rows
===============================================================================
