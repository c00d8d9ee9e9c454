----------------------------- MODULE HostProofs ------------------------------
(***************************************************************************)
(* What the agent's tools and the process around the conversations keep,   *)
(* for every value of the constants: the theorems of Tools (the registry,  *)
(* the task list, the edited files and the output of commands) and of      *)
(* Hosting (the configuration, the migrations of a database, delegated     *)
(* work and the records of runs).  Each side of either module has an       *)
(* inductive invariant of its own; a step of one side leaves the           *)
(* variables of the others alone.                                          *)
(***************************************************************************)
EXTENDS Tools, Hosting, Recursion, FiniteSetTheorems

(***************************************************************************)
(* The registry.                                                           *)
(***************************************************************************)
RegistryTyped ==
    /\ TypeOK
    /\ activated \in [Session -> SUBSET Tool] /\ turns \in [Session -> Nat]
    /\ iteration \in [Session -> Nat]
    /\ view \in [Session -> SUBSET Tool] /\ listed \in [Session -> SUBSET Tool]
    /\ selecting \in [Session -> SUBSET Tool] /\ running \in [Session -> SUBSET Tool]
    /\ told \in [Session -> SUBSET Tool] /\ missing \in [Session -> SUBSET Tool]
    /\ busy \subseteq Session

(* What a session was offered it was told, or is always on; and as long as   *)
(* it exists, what it was told is on.                                       *)
OfferedTold(s) ==
    /\ view[s] \subseteq tools \cup told[s] /\ activated[s] \subseteq told[s]
    /\ s \in rows => told[s] \subseteq tools \cup activated[s]
(* A call that runs was offered, and is still there unless the session was   *)
(* deleted in its turn.                                                     *)
CallsOffered(s) ==
    /\ iteration[s] = 0 => running[s] = {} /\ selecting[s] = {} /\ view[s] = {}
    /\ running[s] \subseteq view[s]
    /\ s \notin busy => view[s] \subseteq tools \cup activated[s] /\ missing[s] = {}
(* A session that is gone has no turn, and nothing is on for it.             *)
Released(s) ==
    /\ s \notin rows \cup busy => iteration[s] = 0
    /\ s \notin rows \cup clearing \cup busy => activated[s] = {}
(* What the registry keeps: the calls a conversation makes were offered.  *)
RegistryInv ==
    /\ RegistryTyped /\ NotBoth
    /\ \A s \in Session : OfferedTold(s) /\ CallsOffered(s) /\ Released(s)

(* A registry begins with it.                                             *)
LEMMA RegistryInit == Init => RegistryInv
BY ToolRegistryAssumption
DEF Init, RegistryInv, RegistryTyped, TypeOK, NotBoth, OfferedTold, CallsOffered, Released, Session

(* Every call on the registry keeps it.                                   *)
LEMMA RegistryStepped ==
    ASSUME RegistryInv, Next PROVE RegistryInv'
<1> USE ToolRegistryAssumption DEF RegistryInv, RegistryTyped, TypeOK
<1>0. Root # Child /\ Session = {Root, Child} /\ MaxIterations \in Nat \ {0}
  BY DEF Session
<1>1. ASSUME NEW t \in Host, Register(t) PROVE RegistryInv'
  <2>1. t \in Tool /\ tools \subseteq tools' /\ deferred \subseteq deferred' /\ tools' \cup deferred' \subseteq Tool
    BY <1>1 DEF Register
  <2>2. RegistryTyped' /\ NotBoth'
    BY <1>1, <2>1 DEF Register, NotBoth, turn, history
  <2>3. \A s \in Session : OfferedTold(s)' /\ CallsOffered(s)' /\ Released(s)'
    BY <1>1, <2>1 DEF Register, turn, history, OfferedTold, CallsOffered, Released
  <2>4. QED
    BY <2>2, <2>3
<1>2. CASE DeleteTree
  <2>1. RegistryTyped' /\ NotBoth'
    BY <1>2, <1>0 DEF DeleteTree, registered, turn, NotBoth
  <2>2. \A s \in Session : OfferedTold(s)' /\ CallsOffered(s)' /\ Released(s)'
    BY <1>2, <1>0 DEF DeleteTree, registered, turn, OfferedTold, CallsOffered, Released
  <2>3. QED
    BY <2>1, <2>2
<1>3. ASSUME NEW s \in Session, Prepare(s) PROVE RegistryInv'
  <2>1. RegistryTyped' /\ NotBoth'
    BY <1>3, <1>0 DEF Prepare, Loaded, Unloaded, registered, history, NotBoth
  <2>2. \A o \in Session : OfferedTold(o)' /\ CallsOffered(o)' /\ Released(o)'
    BY <1>3, <1>0 DEF Prepare, Loaded, registered, history, OfferedTold, CallsOffered, Released
  <2>3. QED
    BY <2>1, <2>2
<1>4. ASSUME NEW s \in Session, Refresh(s) PROVE RegistryInv'
  <2>1. RegistryTyped' /\ NotBoth'
    BY <1>4, <1>0 DEF Refresh, Answered, Loaded, registered, history, NotBoth
  <2>2. \A o \in Session : OfferedTold(o)' /\ CallsOffered(o)' /\ Released(o)'
    BY <1>4, <1>0 DEF Refresh, Answered, Loaded, registered, history, OfferedTold, CallsOffered, Released
  <2>3. QED
    BY <2>1, <2>2
<1>5. ASSUME NEW s \in Session, Finish(s) PROVE RegistryInv'
  <2>1. RegistryTyped' /\ NotBoth'
    BY <1>5, <1>0 DEF Finish, registered, history, NotBoth
  <2>2. \A o \in Session : OfferedTold(o)' /\ CallsOffered(o)' /\ Released(o)'
    BY <1>5, <1>0 DEF Finish, Answered, registered, history, OfferedTold, CallsOffered, Released
  <2>3. QED
    BY <2>1, <2>2
<1>6. ASSUME NEW s \in Session, Delete(s) PROVE RegistryInv'
  <2>1. RegistryTyped' /\ NotBoth'
    BY <1>6, <1>0 DEF Delete, registered, turn, NotBoth
  <2>2. \A o \in Session : OfferedTold(o)' /\ CallsOffered(o)' /\ Released(o)'
    BY <1>6, <1>0 DEF Delete, registered, turn, OfferedTold, CallsOffered, Released
  <2>3. QED
    BY <2>1, <2>2
<1>7. ASSUME NEW s \in Session, Clear(s) PROVE RegistryInv'
  <2>1. RegistryTyped' /\ NotBoth'
    BY <1>7, <1>0 DEF Clear, registered, turn, history, NotBoth
  <2>2. \A o \in Session : OfferedTold(o)' /\ CallsOffered(o)' /\ Released(o)'
    BY <1>7, <1>0 DEF Clear, registered, turn, history, OfferedTold, CallsOffered, Released
  <2>3. QED
    BY <2>1, <2>2
<1>8. ASSUME NEW s \in Session, NEW calls \in SUBSET Tool, NEW names \in SUBSET Tool,
             Answer(s, calls, names)
      PROVE RegistryInv'
  <2>1. RegistryTyped' /\ NotBoth'
    BY <1>8, <1>0 DEF Answer, registered, history, NotBoth
  <2>2. \A o \in Session : OfferedTold(o)' /\ CallsOffered(o)' /\ Released(o)'
    BY <1>8, <1>0 DEF Answer, Answered, registered, history, OfferedTold, CallsOffered, Released
  <2>3. QED
    BY <2>1, <2>2
<1>9. ASSUME NEW s \in Session, NEW t \in Tool, Resolve(s, t) PROVE RegistryInv'
  <2> DEFINE N == {n \in {t} : Outcome(s, t) = "Loaded"}
             M == {n \in {t} : Outcome(s, t) \in {"Loaded", "AlreadyLoaded"}}
  <2>0. /\ N \subseteq deferred \ Broken /\ N \subseteq M /\ M \subseteq tools \cup activated[s] \cup N
        /\ N \subseteq Tool /\ M \subseteq Tool
    BY DEF Outcome
  <2>1. /\ selecting' = [selecting EXCEPT ![s] = @ \ {t}]
        /\ activated' = [activated EXCEPT ![s] = @ \cup N]
        /\ told' = [told EXCEPT ![s] = @ \cup M]
        /\ t \in selecting[s]
        /\ UNCHANGED <<registered, rows, clearing, turns, iteration, view, listed, running, missing, busy>>
    BY <1>9 DEF Resolve
  <2> HIDE DEF N, M
  <2>2. RegistryTyped' /\ NotBoth'
    BY <2>0, <2>1, <1>0 DEF registered, NotBoth
  <2>3. \A o \in Session : OfferedTold(o)' /\ CallsOffered(o)' /\ Released(o)'
    BY <2>0, <2>1, <1>0 DEF registered, OfferedTold, CallsOffered, Released
  <2>4. QED
    BY <2>2, <2>3
<1>10. ASSUME NEW s \in Session, NEW t \in Tool, Execute(s, t) PROVE RegistryInv'
  <2>1. RegistryTyped' /\ NotBoth'
    BY <1>10, <1>0 DEF Execute, registered, NotBoth
  <2>2. \A o \in Session : OfferedTold(o)' /\ CallsOffered(o)' /\ Released(o)'
    BY <1>10, <1>0 DEF Execute, Found, registered, OfferedTold, CallsOffered, Released
  <2>3. QED
    BY <2>1, <2>2
<1>11. ASSUME NEW s \in Session, NEW t \in Tool, Inquire(s, t) PROVE RegistryInv'
  <2> DEFINE M == {n \in {t} : Info(s, t) = "Loaded"}
  <2>0. M \subseteq tools \cup activated[s] /\ M \subseteq Tool
    BY DEF Info, Metadata
  <2>1. /\ iteration[s] > 0 /\ told' = [told EXCEPT ![s] = @ \cup M]
        /\ UNCHANGED <<registered, activated, rows, clearing, turn, missing, busy>>
    BY <1>11 DEF Inquire
  <2> HIDE DEF M
  <2>2. RegistryTyped' /\ NotBoth'
    BY <2>0, <2>1, <1>0 DEF registered, turn, NotBoth
  <2>3. \A o \in Session : OfferedTold(o)' /\ CallsOffered(o)' /\ Released(o)'
    BY <2>0, <2>1, <1>0 DEF registered, turn, OfferedTold, CallsOffered, Released
  <2>4. QED
    BY <2>2, <2>3
<1>12. QED
  BY <1>1, <1>2, <1>3, <1>4, <1>5, <1>6, <1>7, <1>8, <1>9, <1>10, <1>11 DEF Next

(* A step of another side keeps it.                                       *)
LEMMA RegistryStays ==
    ASSUME RegistryInv, UNCHANGED vars PROVE RegistryInv'
BY DEF RegistryInv, RegistryTyped, TypeOK, NotBoth, OfferedTold, CallsOffered, Released,
       vars, registered, turn, history
(* What a session was told is loaded is in the next request it makes.        *)
LEMMA RegistryOffers ==
    ASSUME RegistryInv, Next, NEW s \in rows, iteration'[s] > 0, iteration'[s] # iteration[s]
    PROVE  told[s] \subseteq view'[s]
<1> USE DEF RegistryInv, RegistryTyped, TypeOK
<1>1. s \in Session
  OBVIOUS
<1>2. CASE \E o \in Session : Refresh(o) \/ Prepare(o)
  BY <1>1, <1>2 DEF Refresh, Prepare, Loaded, OfferedTold
<1>3. CASE \E o \in Session : Finish(o)
  BY <1>1, <1>3 DEF Finish
<1>4. CASE UNCHANGED iteration
  BY <1>4
<1>5. QED
  BY <1>2, <1>3, <1>4
  DEF Next, Register, DeleteTree, Delete, Clear, Answer, Resolve, Execute, Inquire, turn

(***************************************************************************)
(* The list of tasks.                                                      *)
(***************************************************************************)
TasksTyped ==
    /\ Tasks!TypeOK
    /\ tTold \in [Tasks!Task -> SUBSET Tasks!Status]
    /\ tWaits \subseteq Tasks!Task \X Tasks!Task
    /\ tTorn \in BOOLEAN
    /\ \A t \in Tasks!Task : t > tCreated => tStatus[t] = "pending"

(* A status is told, or a call has still to tell it.                         *)
Telling(t) ==
    tStatus[t] \in tTold[t] \/ \E c \in TaskCaller : tEvent[c] = <<t, tStatus[t]>>
(* Who was said to wait for a task is blocked by it until it is completed.   *)
Waiting == \A w \in tWaits : w[2] \in tBlockedBy[w[1]]
(* What the task list keeps between its calls.                            *)
TasksInv ==
    /\ TasksTyped /\ Tasks!BlockersKnow /\ Waiting
    /\ \A t \in 1 .. tCreated : Telling(t)

(* A task list begins with it.                                            *)
LEMMA TasksInit == Tasks!Init => TasksInv
<1> SUFFICES ASSUME Tasks!Init PROVE TasksInv
  OBVIOUS
<1>1. {MaxTasks, MaxUpdates, MaxAdded} \subseteq Nat
  BY ToolsAssumption DEF Tasks!TaskStoreAssumption
<1>2. TasksTyped
  <2>1. /\ tCreated \in 0 .. MaxTasks /\ tUpdates \in 0 .. MaxUpdates
        /\ tStatus \in [Tasks!Task -> Tasks!Status]
        /\ tBlocks \in [Tasks!Task -> SUBSET (1 .. tCreated)]
        /\ tBlockedBy \in [Tasks!Task -> SUBSET (1 .. tCreated)]
    BY <1>1 DEF Tasks!Init, Tasks!Status
  <2>2. Tasks!NoEvent \in (Tasks!Task \cup {Tasks!NoTask}) \X Tasks!Status
    BY DEF Tasks!NoEvent, Tasks!Status
  <2>3. tEvent \in [TaskCaller -> (Tasks!Task \cup {Tasks!NoTask}) \X Tasks!Status]
    BY <2>2 DEF Tasks!Init
  <2>4. QED
    BY <2>1, <2>3 DEF Tasks!Init, TasksTyped, Tasks!TypeOK
<1>3. QED
  BY <1>2 DEF Tasks!Init, TasksInv, Tasks!BlockersKnow, Waiting

(* Every call on the task list keeps it.                                  *)
LEMMA TasksStepped ==
    ASSUME TasksInv, Tasks!Next PROVE TasksInv'
<1> USE DEF TasksInv, TasksTyped, Tasks!TypeOK
<1> DEFINE Task == Tasks!Task
<1>0. /\ {MaxTasks, MaxUpdates, MaxAdded} \subseteq Nat /\ Task = 1 .. MaxTasks
      /\ 1 .. tCreated \subseteq Task /\ Tasks!NoTask = 0
  BY ToolsAssumption DEF Tasks!TaskStoreAssumption, Tasks!Task, Tasks!NoTask
<1>1. ASSUME NEW c \in TaskCaller, Tasks!Create(c) PROVE TasksInv'
  <2>1. /\ tCreated' = tCreated + 1 /\ tCreated + 1 \in Task
        /\ tEvent' = [tEvent EXCEPT ![c] = <<tCreated + 1, "pending">>]
        /\ tEvent[c] = <<0, "pending">>
        /\ UNCHANGED <<tStatus, tBlocks, tBlockedBy, tUpdates, tTold, tWaits, tTorn>>
    BY <1>0, <1>1 DEF Tasks!Create, Tasks!NoEvent
  <2>2. TasksTyped'
    <3>1. tEvent' \in [TaskCaller -> (Task \cup {0}) \X Tasks!Status]
      BY <1>0, <2>1 DEF Tasks!Status
    <3>2. 1 .. tCreated \subseteq 1 .. tCreated' /\ tCreated' \in 0 .. MaxTasks /\ tCreated' > tCreated
      BY <1>0, <2>1
    <3>3. /\ tBlocks' \in [Task -> SUBSET (1 .. tCreated')]
          /\ tBlockedBy' \in [Task -> SUBSET (1 .. tCreated')]
      BY <2>1, <3>2
    <3>4. \A t \in Task : t > tCreated' => tStatus'[t] = "pending"
      BY <1>0, <2>1, <3>2
    <3>5. QED
      BY <1>0, <2>1, <3>1, <3>2, <3>3, <3>4
  <2>3. Tasks!BlockersKnow' /\ Waiting'
    BY <2>1 DEF Tasks!BlockersKnow, Waiting
  <2>4. ASSUME NEW t \in 1 .. tCreated PROVE Telling(t)'
    <3>1. \A d \in TaskCaller : tEvent[d] = <<t, tStatus[t]>> => tEvent'[d] = tEvent[d]
      BY <2>1
    <3>2. tStatus'[t] = tStatus[t] /\ tTold' = tTold
      BY <2>1
    <3>3. QED
      BY <3>1, <3>2 DEF Telling
  <2>5. ASSUME NEW t \in Task, t = tCreated + 1 PROVE Telling(t)'
    <3>1. tStatus'[t] = "pending"
      BY <1>0, <2>1, <2>5
    <3>2. tEvent'[c] = <<t, "pending">>
      BY <1>0, <2>1, <2>5
    <3>3. QED
      BY <3>1, <3>2, <2>1 DEF Telling
  <2>6. tCreated \in Nat /\ 1 .. tCreated' = 1 .. tCreated \cup {tCreated + 1}
    <3>1. tCreated \in Nat /\ tCreated' = tCreated + 1
      BY <1>0, <2>1
    <3>2. QED
      BY <3>1
  <2>7. \A t \in 1 .. tCreated' : Telling(t)'
    BY <1>0, <2>1, <2>4, <2>5, <2>6
  <2>8. QED
    BY <2>2, <2>3, <2>7
<1>2. ASSUME NEW c \in TaskCaller, Tasks!Tell(c) PROVE TasksInv'
  <2>1. /\ tEvent[c] # Tasks!NoEvent
        /\ tTold' = [tTold EXCEPT ![tEvent[c][1]] = @ \cup {tEvent[c][2]}]
        /\ tEvent' = [tEvent EXCEPT ![c] = Tasks!NoEvent]
        /\ UNCHANGED <<tCreated, tStatus, tBlocks, tBlockedBy, tUpdates, tWaits, tTorn>>
    BY <1>2 DEF Tasks!Tell
  <2>2. TasksTyped'
    BY <1>0, <2>1 DEF Tasks!Status, Tasks!NoEvent
  <2>3. Tasks!BlockersKnow' /\ Waiting'
    BY <2>1 DEF Tasks!BlockersKnow, Waiting
  <2>4. ASSUME NEW t \in 1 .. tCreated PROVE Telling(t)'
    <3>1. tStatus'[t] = tStatus[t] /\ t \in Task
      BY <1>0, <2>1
    <3>2. CASE tEvent[c] = <<t, tStatus[t]>>
      <4>1. tStatus[t] \in tTold'[t]
        BY <2>1, <3>1, <3>2
      <4>2. QED
        BY <3>1, <4>1 DEF Telling
    <3>3. CASE tEvent[c] # <<t, tStatus[t]>>
      <4>1. tTold[t] \subseteq tTold'[t]
        BY <2>1
      <4>2. \A d \in TaskCaller : tEvent[d] = <<t, tStatus[t]>> => tEvent'[d] = tEvent[d]
        BY <2>1, <3>3
      <4>3. QED
        BY <3>1, <4>1, <4>2 DEF Telling
    <3>4. QED
      BY <3>2, <3>3
  <2>5. QED
    BY <2>1, <2>2, <2>3, <2>4
<1>3. ASSUME NEW c \in TaskCaller, NEW t \in Task, NEW adds, NEW addedBy, Tasks!Refuse(c, t, adds, addedBy)
      PROVE TasksInv'
  <2>1. /\ tUpdates < MaxUpdates /\ tUpdates' = tUpdates + 1
        /\ UNCHANGED <<tCreated, tStatus, tBlocks, tBlockedBy, tEvent, tTold, tWaits, tTorn>>
    BY <1>3 DEF Tasks!Refuse
  <2>2. TasksTyped'
    BY <1>0, <2>1
  <2>3. QED
    BY <2>1, <2>2 DEF Tasks!BlockersKnow, Waiting, Telling
<1>4. ASSUME NEW c \in TaskCaller, NEW t \in Task, NEW adds \in Tasks!Added, NEW addedBy \in Tasks!Added,
             NEW s \in Tasks!Status \cup {Tasks!Keep}, Tasks!Fail(c, t, s, adds, addedBy)
      PROVE TasksInv'
  <2>1. /\ tUpdates < MaxUpdates /\ tUpdates' = tUpdates + 1
        /\ adds \cup addedBy \subseteq 1 .. tCreated /\ t \in 1 .. tCreated
        /\ tBlocks' = [tBlocks EXCEPT ![t] = @ \cup adds]
        /\ tBlockedBy' = [tBlockedBy EXCEPT ![t] = @ \cup addedBy]
        /\ tTorn' = (tTorn \/ adds \cup addedBy # {})
        /\ UNCHANGED <<tCreated, tStatus, tEvent, tTold, tWaits>>
    BY <1>4 DEF Tasks!Fail, Tasks!Valid, Tasks!Exists, Tasks!Own
  <2>2. TasksTyped'
    <3>1. tTorn' \in BOOLEAN
      BY <2>1
    <3>2. /\ tBlocks' \in [Task -> SUBSET (1 .. tCreated')]
          /\ tBlockedBy' \in [Task -> SUBSET (1 .. tCreated')]
      BY <1>0, <2>1
    <3>3. tUpdates' \in 0 .. MaxUpdates
      BY <1>0, <2>1
    <3>4. QED
      BY <1>0, <2>1, <3>1, <3>2, <3>3
  <2>3. Waiting'
    BY <2>1 DEF Waiting
  <2>4. Tasks!BlockersKnow'
    <3>1. ~tTorn' => ~tTorn /\ adds = {} /\ addedBy = {}
      BY <2>1
    <3>2. ~tTorn' => tBlocks' = tBlocks /\ tBlockedBy' = tBlockedBy
      BY <2>1, <3>1
    <3>3. QED
      BY <3>1, <3>2 DEF Tasks!BlockersKnow
  <2>5. QED
    BY <2>1, <2>2, <2>3, <2>4 DEF Telling
<1>5. ASSUME NEW c \in TaskCaller, NEW t \in Task, NEW adds \in Tasks!Added, NEW addedBy \in Tasks!Added,
             NEW s \in Tasks!Status \cup {Tasks!Keep}, Tasks!Update(c, t, s, adds, addedBy)
      PROVE TasksInv'
  <2> DEFINE next == Tasks!NextStatus(t, s)
             allBlocks == Tasks!OtherSide(Tasks!Own(tBlocks, t, adds), t, addedBy)
             by == Tasks!OtherSide(Tasks!Own(tBlockedBy, t, addedBy), t, adds)
  <2>0. next \in Tasks!Status
    BY DEF Tasks!NextStatus
  <2>1. /\ tEvent[c] = Tasks!NoEvent
        /\ tUpdates < MaxUpdates /\ tUpdates' = tUpdates + 1
        /\ adds \cup addedBy \subseteq 1 .. tCreated /\ t \in 1 .. tCreated
        /\ tStatus' = [tStatus EXCEPT ![t] = next]
        /\ tBlocks' = allBlocks
        /\ tBlockedBy' = IF next = "completed" THEN Tasks!Freed(by, t, allBlocks[t]) ELSE by
        /\ tEvent' = [tEvent EXCEPT ![c] = <<t, next>>]
        /\ tWaits' = {w \in tWaits \cup {<<u, t>> : u \in adds} \cup {<<t, u>> : u \in addedBy} :
                         next # "completed" \/ w[2] # t}
        /\ UNCHANGED <<tCreated, tTold, tTorn>>
    BY <1>5 DEF Tasks!Update, Tasks!Valid, Tasks!Exists
  <2>2. /\ allBlocks \in [Task -> SUBSET (1 .. tCreated)] /\ by \in [Task -> SUBSET (1 .. tCreated)]
        /\ \A u \in Task : allBlocks[u] = tBlocks[u] \cup {d \in adds : u = t} \cup {d \in {t} : u \in addedBy}
        /\ \A u \in Task : by[u] = tBlockedBy[u] \cup {d \in addedBy : u = t} \cup {d \in {t} : u \in adds}
    BY <1>0, <2>1 DEF Tasks!OtherSide, Tasks!Own
  <2> HIDE DEF next, allBlocks, by
  <2>3. /\ tBlockedBy' \in [Task -> SUBSET (1 .. tCreated)]
        /\ \A u \in Task : /\ tBlockedBy'[u] \subseteq by[u]
                           /\ by[u] \ tBlockedBy'[u] \subseteq {d \in {t} : next = "completed"}
    BY <2>1, <2>2 DEF Tasks!Freed
  <2>4. TasksTyped'
    <3>1. tWaits' \subseteq Task \X Task
      BY <1>0, <2>1
    <3>2. QED
      BY <1>0, <2>0, <2>1, <2>2, <2>3, <3>1
  <2>5. Waiting'
    <3> SUFFICES ASSUME NEW w \in tWaits' PROVE w[2] \in tBlockedBy'[w[1]]
      BY DEF Waiting
    <3>1. w[1] \in Task /\ (next # "completed" \/ w[2] # t)
      BY <2>1, <2>4
    <3>2. w[2] \in by[w[1]]
      BY <1>0, <2>1, <2>2 DEF Waiting
    <3>3. QED
      BY <2>3, <3>1, <3>2
  <2>6. Tasks!BlockersKnow'
    <3> SUFFICES ASSUME ~tTorn, NEW u \in Task, NEW b \in tBlockedBy'[u] PROVE u \in tBlocks'[b]
      BY <2>1 DEF Tasks!BlockersKnow
    <3>1. b \in by[u] /\ b \in Task
      BY <1>0, <2>2, <2>3
    <3>2. \A v \in Task : \A d \in tBlockedBy[v] : v \in tBlocks[d]
      BY DEF Tasks!BlockersKnow
    <3>3. u \in allBlocks[b]
      BY <2>2, <3>1, <3>2
    <3>4. QED
      BY <2>1, <3>3
  <2>7. ASSUME NEW u \in 1 .. tCreated PROVE Telling(u)'
    <3>1. CASE u = t
      BY <1>0, <2>1, <3>1 DEF Telling
    <3>2. CASE u # t
      <4>1. tStatus'[u] = tStatus[u] /\ tTold' = tTold
        BY <1>0, <2>1, <3>2
      <4>2. \A d \in TaskCaller : tEvent[d] = <<u, tStatus[u]>> => tEvent'[d] = tEvent[d]
        BY <1>0, <2>1 DEF Tasks!NoEvent
      <4>3. QED
        BY <4>1, <4>2 DEF Telling
    <3>3. QED
      BY <3>1, <3>2
  <2>8. QED
    BY <2>1, <2>4, <2>5, <2>6, <2>7
<1>6. QED
  BY <1>1, <1>2, <1>3, <1>4, <1>5 DEF Tasks!Next

(* A step of another side keeps it.                                       *)
LEMMA TasksStay ==
    ASSUME TasksInv, UNCHANGED tasksVars PROVE TasksInv'
BY DEF TasksInv, TasksTyped, Tasks!TypeOK, Tasks!BlockersKnow, Waiting, Telling, tasksVars

(* When all events are out, every status has been told.                      *)
LEMMA TasksTold ==
    ASSUME TasksInv PROVE Tasks!TypeOK /\ Tasks!BlockersKnow /\ Tasks!AllTold
<1>1. \A t \in 1 .. tCreated : t # 0
  BY DEF TasksInv, TasksTyped, Tasks!TypeOK
<1>2. QED
  BY <1>1 DEF TasksInv, TasksTyped, Telling, Tasks!AllTold, Tasks!NoEvent, Tasks!NoTask

(* A task that starts waits for none.                                        *)
LEMMA TasksStart ==
    ASSUME TasksInv, Tasks!Next, NEW t \in Tasks!Task,
           tStatus'[t] = "in_progress", tStatus[t] # "in_progress"
    PROVE  \A w \in tWaits : w[1] # t
<1> USE DEF TasksInv, TasksTyped, Tasks!TypeOK
<1>1. PICK c \in TaskCaller, u \in Tasks!Task, adds \in Tasks!Added, addedBy \in Tasks!Added,
           s \in Tasks!Status \cup {Tasks!Keep} : Tasks!Update(c, u, s, adds, addedBy)
  BY DEF Tasks!Next, Tasks!Create, Tasks!Tell, Tasks!Refuse, Tasks!Fail
<1>2. /\ tStatus' = [tStatus EXCEPT ![u] = Tasks!NextStatus(u, s)]
      /\ ~Tasks!Blocked(u, Tasks!NextStatus(u, s), addedBy)
  BY <1>1 DEF Tasks!Update
<1>3. u = t /\ Tasks!NextStatus(u, s) = "in_progress"
  BY <1>2
<1>4. tBlockedBy[t] = {}
  BY <1>2, <1>3 DEF Tasks!Blocked, Tasks!Own
<1>5. QED
  BY <1>4 DEF Waiting

(***************************************************************************)
(* The files of a turn.                                                    *)
(***************************************************************************)
Text == Seq(Token)
(* The steps of a call: Read loads a file and records the range it showed; *)
Loading   == [tool : {"Read"}, step : {"load"}, file : File, offset : Nat, limit : Nat]
Recording == [tool : {"Read"}, step : {"record"}, file : File, offset : Nat, end : Nat,
              shown : SUBSET (Nat \X Token), held : SUBSET (Nat \X Token), more : BOOLEAN]
Editing   == [tool : {"Edit"}, step : {"load"}, file : File, from : Token, to : Token, all : BOOLEAN]
Writing   == [tool : {"Write", "Edit"}, step : {"truncate", "fill"}, file : File, text : Text,
              base : Text \cup {Files!Absent}]
Calls == {Files!Idle} \cup Loading \cup Recording \cup Editing \cup Writing

(* The types of the files, of what was read and of the calls in progress. *)
FilesTyped ==
    /\ fDisk \in [File -> Text \cup {Files!Absent}]
    /\ fRead \subseteq File /\ fOld \subseteq File /\ fTouched \subseteq File
    /\ fRanges \in [File -> SUBSET (Nat \X Nat)]
    /\ fSeen \in [File -> SUBSET (Nat \X Token)] /\ fNext \in [File -> Nat \ {0}]
    /\ fFailed \subseteq File /\ fHidden \subseteq File
    /\ fCall \in [FileCaller -> Calls]

(* Whoever is about to write a file that the turn found has it noted as     *)
(* read, who reads or edits one works on a file that is there, and who      *)
(* fills one has emptied it.                                                *)
Reader(k) ==
    /\ k \in Editing \cup Writing /\ k.file \in fOld => k.file \in fRead
    /\ k \in Loading \cup Editing => fDisk[k.file] # Files!Absent
    /\ k \in Writing /\ k.step = "fill" => k.file \in fTouched
(* A file is noted as read because of a Read that has answered, has failed   *)
(* or is still at work.                                                     *)
Noted(f) ==
    \/ fRanges[f] # {} \/ f \in fFailed
    \/ \E c \in FileCaller : fCall[c].tool = "Read" /\ fCall[c].file = f
(* A line was shown, and as it stands if no call has written the file.       *)
SeenAt(f, i) ==
    /\ \E line \in Token : <<i, line>> \in fSeen[f]
    /\ f \notin fTouched => <<i, fDisk[f][i]>> \in fSeen[f]
(* The lines of a range the turn has had were shown.                         *)
RangesSeen == \A f \in File : \A r \in fRanges[f] : \A i \in Files!Before(r[1]) + 1 .. r[2] : SeenAt(f, i)
(* What a Read is about to record is the lines of its range, as they stand   *)
(* if no call has written the file; it withholds some of a range had before. *)
Shows(k) ==
    k \in Recording =>
        /\ \A i \in Files!Before(k.offset) + 1 .. k.end :
              \E line \in Token : <<i, line>> \in k.shown \cup k.held
        /\ \A u \in k.held : u[1] \in Files!Before(k.offset) + 1 .. k.end
        /\ k.file \notin fTouched => \A u \in k.shown \cup k.held : u = <<u[1], fDisk[k.file][u[1]]>>
        /\ k.held = {} \/ <<k.offset, k.end>> \in fRanges[k.file]
(* What a file call in progress and the notes of what was read keep.      *)
FilesInv ==
    /\ FilesTyped
    /\ \A f \in fOld : fDisk[f] # Files!Absent
    /\ fOld \cap fTouched \subseteq fRead /\ \A f \in fRead : Noted(f)
    /\ RangesSeen /\ Files!PagesTold
    /\ \A c \in FileCaller : Reader(fCall[c]) /\ Shows(fCall[c])

(* A call is of the kind its tool and its step name.                         *)
LEMMA Kinds ==
    ASSUME NEW k \in Calls
    PROVE  /\ k.tool = "Read" /\ k.step = "load" => k \in Loading
           /\ k.tool = "Read" /\ k.step = "record" => k \in Recording
           /\ k.tool = "Edit" /\ k.step = "load" => k \in Editing
           /\ k.tool \in {"Write", "Edit"} /\ k.step \in {"truncate", "fill"} => k \in Writing
           /\ k \in Loading => k \notin Recording \cup Editing \cup Writing
           /\ k \in Recording => k \notin Editing \cup Writing
           /\ k \in Editing => k \notin Writing
           /\ k = Files!Idle => k \notin Loading \cup Recording \cup Editing \cup Writing
BY DEF Calls, Loading, Recording, Editing, Writing, Files!Idle

(* The lines before an offset, which counts from one; 0 reads as 1.       *)
LEMMA BeforeType ==
    ASSUME NEW o \in Nat
    PROVE  Files!Before(o) \in Nat /\ (o # 0 => Files!Before(o) = o - 1)
BY DEF Files!Before

(* The files begin with it.                                               *)
LEMMA FilesInit == Files!Init => FilesInv
<1> SUFFICES ASSUME Files!Init PROVE FilesInv
  OBVIOUS
<1>1. Contents \subseteq Text
  BY ToolsAssumption DEF Files!FileToolsAssumption, Text
<1>2. FilesTyped
  BY <1>1 DEF Files!Init, FilesTyped, Calls
<1>3. \A c \in FileCaller : Reader(fCall[c]) /\ Shows(fCall[c])
  BY <1>2, Kinds DEF Files!Init, Reader, Shows, Calls
<1>4. QED
  BY <1>2, <1>3 DEF Files!Init, FilesInv, RangesSeen, Files!PagesTold

(* A file that is noted as read stays so, when a call becomes k.             *)
LEMMA NotedStays ==
    ASSUME FilesInv, NEW c \in FileCaller, NEW k, fCall' = [fCall EXCEPT ![c] = k],
           \A f \in File : fRanges[f] \subseteq fRanges'[f], fFailed \subseteq fFailed',
           fCall[c].tool = "Read" =>
               \/ k.tool = "Read" /\ k.file = fCall[c].file
               \/ fRanges'[fCall[c].file] # {} \/ fCall[c].file \in fFailed'
    PROVE  \A f \in fRead : Noted(f)'
<1> SUFFICES ASSUME NEW f \in fRead PROVE Noted(f)'
  OBVIOUS
<1>1. f \in File /\ Noted(f)
  BY DEF FilesInv, FilesTyped
<1>2. CASE fRanges[f] # {} \/ f \in fFailed
  BY <1>1, <1>2 DEF Noted
<1>3. CASE \E d \in FileCaller : fCall[d].tool = "Read" /\ fCall[d].file = f
  <2>1. PICK d \in FileCaller : fCall[d].tool = "Read" /\ fCall[d].file = f
    BY <1>3
  <2>2. CASE d # c
    <3>1. fCall'[d] = fCall[d]
      BY <2>2 DEF FilesInv, FilesTyped
    <3>2. QED
      BY <2>1, <3>1 DEF Noted
  <2>3. CASE d = c
    <3>1. fCall'[c] = k
      BY DEF FilesInv, FilesTyped
    <3>2. QED
      BY <2>1, <2>3, <3>1 DEF Noted
  <2>4. QED
    BY <2>2, <2>3
<1>4. QED
  BY <1>1, <1>2, <1>3 DEF Noted

(* A call that becomes k, when nothing it needs is lost.                     *)
LEMMA CallBecomes ==
    ASSUME FilesInv, FilesTyped', NEW c \in FileCaller, NEW k \in Calls,
           fCall' = [fCall EXCEPT ![c] = k],
           fOld' = fOld, fRead \subseteq fRead', fTouched \subseteq fTouched',
           \A f \in File : fRanges[f] \subseteq fRanges'[f],
           \A f \in File : fDisk[f] # Files!Absent => fDisk'[f] # Files!Absent,
           \A f \in File : f \notin fTouched' => fDisk'[f] = fDisk[f],
           Reader(k)', Shows(k)'
    PROVE  \A d \in FileCaller : Reader(fCall[d])' /\ Shows(fCall[d])'
<1> SUFFICES ASSUME NEW d \in FileCaller PROVE Reader(fCall[d])' /\ Shows(fCall[d])'
  OBVIOUS
<1> USE DEF FilesInv, FilesTyped
<1>1. CASE d = c
  <2>1. fCall'[d] = k
    BY <1>1
  <2>2. QED
    BY <2>1
<1>2. CASE d # c
  <2> PICK l : l = fCall[d]
    OBVIOUS
  <2>1. fCall'[d] = l /\ l \in Calls /\ Reader(l) /\ Shows(l)
    BY <1>2
  <2>2. l \in Loading \cup Editing \cup Writing => l.file \in File
    BY DEF Loading, Editing, Writing
  <2>3. l \in Recording => l.file \in File
    BY DEF Recording
  <2>4. Reader(l)'
    BY <2>1, <2>2 DEF Reader
  <2>5. Shows(l)'
    <3> SUFFICES ASSUME l \in Recording PROVE Shows(l)'
      BY DEF Shows
    <3>1. l.file \in File /\ Shows(l)
      BY <2>1, <2>3
    <3>2. l.file \notin fTouched' => fDisk'[l.file] = fDisk[l.file] /\ l.file \notin fTouched
      BY <3>1
    <3>3. fRanges[l.file] \subseteq fRanges'[l.file]
      BY <3>1
    <3>4. QED
      BY <3>1, <3>2, <3>3 DEF Shows
  <2>6. QED
    BY <2>1, <2>4, <2>5
<1>3. QED
  BY <1>1, <1>2

(* Every step of a file call keeps it.                                    *)
LEMMA FilesStepped ==
    ASSUME FilesInv, Files!Next PROVE FilesInv'
<1> USE DEF FilesInv, FilesTyped
<1>0. /\ Contents \subseteq Text /\ Files!Absent \notin Text /\ <<>> \in Text
      /\ {FileCalls, MaxSize, Trigger, Ends} \subseteq Nat
  BY ToolsAssumption DEF Files!FileToolsAssumption, Text
(* A call starts, and the disk stays as it is.                               *)
<1>1. ASSUME NEW c \in FileCaller, NEW k \in Calls,
             fCall' = [fCall EXCEPT ![c] = k], Reader(k)', Shows(k)',
             UNCHANGED <<fDisk, fOld, fTouched, fRanges, fSeen, fNext, fHidden>>,
             fRead \subseteq fRead', fRead' \subseteq File, fFailed' \subseteq File,
             \A f \in fRead' : Noted(f)'
      PROVE  FilesInv'
  <2>1. FilesTyped'
    BY <1>1
  <2>2. \A d \in FileCaller : Reader(fCall[d])' /\ Shows(fCall[d])'
    BY <1>1, <2>1, CallBecomes
  <2>3. QED
    BY <1>1, <2>1, <2>2 DEF RangesSeen, SeenAt, Files!PagesTold
(* A call that was no Read becomes k, and nothing else changes.              *)
<1>a. ASSUME NEW c \in FileCaller, NEW k \in Calls, fCall[c].tool # "Read",
             fCall' = [fCall EXCEPT ![c] = k], Reader(k)', Shows(k)',
             UNCHANGED <<fDisk, fRead, fRanges, Files!told>>
      PROVE  FilesInv'
  <2>1. UNCHANGED <<fOld, fTouched, fFailed, fSeen, fHidden, fNext>>
    BY <1>a DEF Files!told
  <2>2. \A f \in fRead : Noted(f)'
    BY <1>a, <2>1, NotedStays
  <2>3. QED
    BY <1>1, <1>a, <2>1, <2>2
<1>2. Files!Idle \in Calls /\ Reader(Files!Idle)' /\ Shows(Files!Idle)'
  <2>1. Files!Idle \in Calls
    BY DEF Calls
  <2>2. QED
    BY <2>1, Kinds DEF Reader, Shows
<1>b. Files!Idle.tool = "none"
  BY DEF Files!Idle
<1>3. ASSUME NEW c \in FileCaller, Files!Refuse(c) PROVE FilesInv'
  <2>1. /\ fCall[c] = Files!Idle /\ fCall' = [fCall EXCEPT ![c] = Files!Idle]
        /\ UNCHANGED <<fDisk, fRead, fRanges, Files!told>>
    BY <1>3 DEF Files!Refuse, Files!Start
  <2>2. QED
    BY <1>2, <1>a, <1>b, <2>1
<1>4. ASSUME NEW c \in FileCaller, Files!StartRead(c) PROVE FilesInv'
  <2>1. PICK f \in File, offset \in 0 .. MaxSize + 1, limit \in 0 .. MaxSize :
            /\ Files!Passes("Read", f) /\ fCall[c] = Files!Idle
            /\ fCall' = [fCall EXCEPT ![c] = [tool |-> "Read", step |-> "load", file |-> f,
                                              offset |-> offset, limit |-> limit]]
            /\ fRead' = fRead \cup {f}
            /\ UNCHANGED <<fDisk, fRanges, fPanicked, Files!told>>
    BY <1>4 DEF Files!StartRead, Files!Start
  <2>a. fDisk[f] # Files!Absent
    BY <2>1 DEF Files!Passes, Files!Refused, Files!Resolves, Files!Exists
  <2>2. PICK k : k = [tool |-> "Read", step |-> "load", file |-> f, offset |-> offset, limit |-> limit]
    OBVIOUS
  <2>3. k \in Loading
    BY <1>0, <2>2 DEF Loading
  <2>4. k \in Calls /\ Reader(k)' /\ Shows(k)'
    <3>1. k \in Calls
      BY <2>3 DEF Calls
    <3>2. Shows(k)'
      BY <2>3, <3>1, Kinds DEF Shows
    <3>3. Reader(k)'
      <4>1. k.file = f /\ fDisk'[f] # Files!Absent
        BY <2>1, <2>2, <2>a
      <4>2. QED
        BY <2>3, <3>1, <4>1, Kinds DEF Reader
    <3>4. QED
      BY <3>1, <3>2, <3>3
  <2>5. UNCHANGED <<fDisk, fOld, fTouched, fRanges, fSeen, fNext, fHidden, fFailed>>
    BY <2>1 DEF Files!told
  <2>6. \A g \in fRead' : Noted(g)'
    <3>1. \A g \in fRead : Noted(g)'
      BY <1>b, <2>1, <2>2, <2>5, NotedStays
    <3>2. Noted(f)'
      <4>1. fCall'[c].tool = "Read" /\ fCall'[c].file = f
        BY <2>1
      <4>2. QED
        BY <4>1 DEF Noted
    <3>3. QED
      BY <2>1, <3>1, <3>2
  <2>7. QED
    BY <1>1, <2>1, <2>2, <2>4, <2>5, <2>6
(* A Read ends with an error.                                                *)
<1>d. ASSUME NEW c \in FileCaller, fCall[c].tool = "Read" => fCall[c].file \in fFailed',
             fCall' = [fCall EXCEPT ![c] = Files!Idle],
             fFailed \subseteq fFailed', fFailed' \subseteq File,
             UNCHANGED <<fDisk, fRead, fRanges, fOld, fTouched, fSeen, fHidden, fNext>>
      PROVE  FilesInv'
  <2>1. \A f \in fRead : Noted(f)'
    BY <1>d, NotedStays
  <2>2. QED
    BY <1>1, <1>2, <1>d, <2>1
<1>5. ASSUME NEW c \in FileCaller, Files!Load(c) PROVE FilesInv'
  <2> PICK k : k = fCall[c]
    OBVIOUS
  <2> PICK s : s = fDisk[k.file]
    OBVIOUS
  <2> PICK n : n = Len(s)
    OBVIOUS
  <2>1. /\ k \in Loading /\ Reader(k)
        /\ UNCHANGED <<fDisk, fRead, fRanges, fCalls, fOld, fTouched, fSeen, fHidden, fNext>>
    BY <1>5, Kinds DEF Files!Load, Files!At
  <2>2. k.file \in File /\ k.offset \in Nat /\ k.limit \in Nat
    BY <2>1 DEF Loading
  <2>3. s \in Text /\ n \in Nat /\ \A i \in 1 .. n : s[i] \in Token
    <3>1. s \in Text
      BY <2>1, <2>2 DEF Reader
    <3>2. QED
      BY <3>1 DEF Text
  <2>4. CASE fCall' = [fCall EXCEPT ![c] = Files!Idle] /\ fFailed' = fFailed \cup {k.file}
    BY <1>d, <2>1, <2>2, <2>4
  <2>5. CASE UNCHANGED <<fCall, fFailed>>
    <3>1. FilesTyped'
      BY <2>1, <2>5
    <3>2. \A d \in FileCaller : Reader(fCall[d])' /\ Shows(fCall[d])'
      BY <2>1, <2>5 DEF Reader, Shows
    <3>3. \A f \in fRead : Noted(f)'
      BY <2>1, <2>5 DEF Noted
    <3>4. QED
      BY <2>1, <2>5, <3>1, <3>2, <3>3 DEF RangesSeen, SeenAt, Files!PagesTold
  <2> DEFINE range == Files!Before(k.offset) + 1 .. Files!LastLine(k, n)
             shown == Files!Lines(s, Files!Shown(k, n))
             held == Files!Lines(s, range \ Files!Shown(k, n))
             new == [tool |-> "Read", step |-> "record", file |-> k.file, offset |-> k.offset,
                     end |-> Files!LastLine(k, n), shown |-> shown, held |-> held,
                     more |-> Files!LastLine(k, n) < n]
  <2>6. CASE fCall' = [fCall EXCEPT ![c] = new] /\ UNCHANGED fFailed
    <3>1. Files!Before(k.offset) \in Nat
      BY <2>2, BeforeType
    <3>2. Files!LastLine(k, n) \in Nat /\ Files!LastLine(k, n) =< n
      BY <2>2, <2>3, <3>1 DEF Files!LastLine, Files!Least
    <3>3. range \subseteq 1 .. n
      BY <2>3, <3>1, <3>2
    <3>4. Files!Shown(k, n) \subseteq range
      BY DEF Files!Shown
    <3>5. Files!Shown(k, n) = range \/ <<k.offset, Files!LastLine(k, n)>> \in fRanges[k.file]
      BY DEF Files!Shown
    <3>6. PICK m : m = new
      OBVIOUS
    <3>7. shown \in SUBSET (Nat \X Token) /\ held \in SUBSET (Nat \X Token)
      <4>1. \A numbers \in SUBSET (1 .. n) : Files!Lines(s, numbers) \in SUBSET (Nat \X Token)
        BY <2>3 DEF Files!Lines
      <4>2. QED
        BY <3>3, <3>4, <4>1
    <3>8. m \in Recording
      <4> HIDE DEF range, shown, held
      <4>1. QED
        BY <2>2, <3>2, <3>6, <3>7 DEF Recording
    <3>9. m \in Calls
      BY <3>8 DEF Calls
    <3>10. Reader(m)'
      BY <3>8, <3>9, Kinds DEF Reader
    <3>11. /\ \A i \in range : <<i, s[i]>> \in shown \cup held /\ s[i] \in Token
           /\ \A u \in held : u[1] \in range
           /\ \A u \in shown \cup held : u = <<u[1], s[u[1]]>>
           /\ held = {} \/ <<k.offset, Files!LastLine(k, n)>> \in fRanges[k.file]
      <4> HIDE DEF range
      <4>1. QED
        BY <2>3, <3>3, <3>4, <3>5 DEF Files!Lines
    <3>12. Shows(m)'
      <4>1. m.file = k.file /\ m.offset = k.offset /\ m.end = Files!LastLine(k, n)
            /\ m.shown = shown /\ m.held = held
        BY <3>6
      <4>2. fDisk'[m.file] = s /\ fRanges'[m.file] = fRanges[k.file]
        BY <2>1, <4>1
      <4>a. range = Files!Before(m.offset) + 1 .. m.end
        BY <4>1
      <4> HIDE DEF range, shown, held
      <4>3. \A i \in Files!Before(m.offset) + 1 .. m.end :
               \E line \in Token : <<i, line>> \in m.shown \cup m.held
        BY <3>11, <4>1, <4>a
      <4>4. /\ \A u \in m.held : u[1] \in Files!Before(m.offset) + 1 .. m.end
            /\ \A u \in m.shown \cup m.held : u = <<u[1], fDisk'[m.file][u[1]]>>
            /\ m.held = {} \/ <<m.offset, m.end>> \in fRanges'[m.file]
        BY <3>11, <4>1, <4>2, <4>a
      <4>5. QED
        BY <4>3, <4>4 DEF Shows
    <3>13. \A f \in fRead : Noted(f)'
      <4>1. m.tool = "Read" /\ m.file = k.file
        BY <3>6
      <4>2. fCall' = [fCall EXCEPT ![c] = m]
        BY <2>6, <3>6
      <4> HIDE DEF range, shown, held, new
      <4>3. QED
        BY <2>1, <2>6, <4>1, <4>2, NotedStays
    <3>14. fCall' = [fCall EXCEPT ![c] = m]
      BY <2>6, <3>6
    <3>15. UNCHANGED <<fDisk, fOld, fTouched, fRanges, fSeen, fNext, fHidden, fRead, fFailed>>
      BY <2>1, <2>6
    <3> HIDE DEF range, shown, held, new
    <3>16. QED
      BY <1>1, <3>9, <3>10, <3>12, <3>13, <3>14, <3>15
  <2>7. QED
    BY <1>5, <2>4, <2>5, <2>6 DEF Files!Load
<1>6. ASSUME NEW c \in FileCaller, Files!Record(c) PROVE FilesInv'
  <2> PICK k : k = fCall[c]
    OBVIOUS
  <2>1. /\ k \in Recording /\ Shows(k)
        /\ fRanges' = [fRanges EXCEPT ![k.file] = @ \cup {<<k.offset, k.end>>}]
        /\ fSeen' = [fSeen EXCEPT ![k.file] = @ \cup k.shown]
        /\ fHidden' = IF k.held \subseteq fSeen[k.file] THEN fHidden ELSE fHidden \cup {k.file}
        /\ fNext' = IF k.offset = fNext[k.file] THEN [fNext EXCEPT ![k.file] = Files!NextOffset(k)] ELSE fNext
        /\ fCall' = [fCall EXCEPT ![c] = Files!Idle]
        /\ UNCHANGED <<fDisk, fRead, fOld, fTouched, fFailed>>
    BY <1>6, Kinds DEF Files!Record, Files!Recorded, Files!At
  <2>2. /\ k.file \in File /\ k.offset \in Nat /\ k.end \in Nat
        /\ k.shown \in SUBSET (Nat \X Token) /\ k.held \in SUBSET (Nat \X Token)
    BY <2>1 DEF Recording
  <2>3. Files!NextOffset(k) \in 1 .. k.end + 1
    BY <2>2 DEF Files!NextOffset
  <2>4. FilesTyped'
    BY <1>2, <2>1, <2>2, <2>3
  <2>5. \A f \in File : fSeen[f] \subseteq fSeen'[f]
    BY <2>1
  <2>6. \A f \in File : \A i : SeenAt(f, i) => SeenAt(f, i)'
    BY <2>1, <2>5 DEF SeenAt
  <2>7. \A i \in Files!Before(k.offset) + 1 .. k.end : SeenAt(k.file, i)'
    <3> SUFFICES ASSUME NEW i \in Files!Before(k.offset) + 1 .. k.end PROVE SeenAt(k.file, i)'
      OBVIOUS
    <3>1. CASE <<k.offset, k.end>> \in fRanges[k.file]
      <4>1. SeenAt(k.file, i)
        BY <2>2, <3>1 DEF RangesSeen
      <4>2. QED
        BY <2>2, <2>6, <4>1
    <3>2. CASE k.held = {}
      <4>1. PICK line \in Token : <<i, line>> \in k.shown
        BY <2>1, <3>2 DEF Shows
      <4>2. k.file \notin fTouched => line = fDisk[k.file][i]
        BY <2>1, <4>1 DEF Shows
      <4>3. <<i, line>> \in fSeen'[k.file]
        BY <2>1, <2>2, <4>1
      <4>4. QED
        BY <2>1, <4>2, <4>3 DEF SeenAt
    <3>3. QED
      BY <2>1, <3>1, <3>2 DEF Shows
  <2>8. RangesSeen'
    <3> SUFFICES ASSUME NEW f \in File, NEW r \in fRanges'[f], NEW i \in Files!Before(r[1]) + 1 .. r[2]
                 PROVE  SeenAt(f, i)'
      BY DEF RangesSeen
    <3>1. CASE r \in fRanges[f]
      BY <2>6, <3>1 DEF RangesSeen
    <3>2. CASE r \notin fRanges[f]
      <4>1. f = k.file /\ r = <<k.offset, k.end>>
        BY <2>1, <3>2
      <4>2. QED
        BY <2>7, <4>1
    <3>3. QED
      BY <3>1, <3>2
  <2>9. fHidden' \subseteq fTouched'
    <3>1. CASE k.held \subseteq fSeen[k.file]
      BY <2>1, <3>1 DEF Files!PagesTold
    <3>2. CASE ~(k.held \subseteq fSeen[k.file])
      <4>1. PICK u \in k.held : u \notin fSeen[k.file]
        BY <3>2
      <4>2. <<k.offset, k.end>> \in fRanges[k.file] /\ u[1] \in Files!Before(k.offset) + 1 .. k.end
        BY <2>1, <4>1 DEF Shows
      <4>3. SeenAt(k.file, u[1])
        BY <2>2, <4>2 DEF RangesSeen
      <4>4. k.file \notin fTouched => u = <<u[1], fDisk[k.file][u[1]]>>
        BY <2>1, <4>1 DEF Shows
      <4>5. k.file \in fTouched
        BY <4>1, <4>3, <4>4 DEF SeenAt
      <4>6. QED
        BY <2>1, <3>2, <4>5 DEF Files!PagesTold
    <3>3. QED
      BY <3>1, <3>2
  <2>10. Files!PagesTold'
    <3>1. ASSUME NEW f \in File, NEW i \in 1 .. fNext'[f] - 1 PROVE SeenAt(f, i)'
      <4>1. CASE i \in 1 .. fNext[f] - 1
        <5>1. SeenAt(f, i)
          BY <4>1 DEF Files!PagesTold, SeenAt
        <5>2. QED
          BY <2>6, <5>1
      <4>2. CASE i \notin 1 .. fNext[f] - 1
        <5>1. f = k.file /\ k.offset = fNext[f] /\ fNext'[f] = Files!NextOffset(k)
          BY <2>1, <4>2
        <5>2. Files!Before(k.offset) = k.offset - 1 /\ k.offset \in Nat \ {0}
          BY <2>2, <5>1, BeforeType
        <5>3. i \in Nat /\ i >= k.offset /\ i =< k.end
          BY <2>2, <2>3, <4>2, <5>1, <5>2
        <5>4. i \in Files!Before(k.offset) + 1 .. k.end
          BY <2>2, <5>2, <5>3
        <5>5. QED
          BY <2>7, <5>1, <5>4
      <4>3. QED
        BY <4>1, <4>2
    <3>2. QED
      BY <2>9, <3>1 DEF Files!PagesTold, SeenAt
  <2>11. \A d \in FileCaller : Reader(fCall[d])' /\ Shows(fCall[d])'
    BY <1>2, <2>1, <2>4, CallBecomes
  <2>12. \A f \in fRead : Noted(f)'
    <3>1. fRanges'[k.file] # {}
      BY <2>1, <2>2
    <3>2. \A f \in File : fRanges[f] \subseteq fRanges'[f]
      BY <2>1
    <3>3. QED
      BY <2>1, <3>1, <3>2, NotedStays
  <2>13. QED
    BY <2>1, <2>4, <2>8, <2>10, <2>11, <2>12
<1>7. ASSUME NEW c \in FileCaller, Files!StartWrite(c) PROVE FilesInv'
  <2>1. PICK f \in File, text \in Contents :
            /\ Files!Passes("Write", f) /\ fCall[c] = Files!Idle
            /\ fCall' = [fCall EXCEPT ![c] = [tool |-> "Write", step |-> "truncate", file |-> f,
                                              text |-> text, base |-> Files!Absent]]
            /\ UNCHANGED <<fDisk, fRead, fRanges, fPanicked, Files!told>>
    BY <1>7 DEF Files!StartWrite, Files!Start
  <2>2. f \in fOld => f \in fRead
    BY <2>1 DEF Files!Passes, Files!Refused, Files!MayChange, Files!Exists
  <2>3. PICK k : k = [tool |-> "Write", step |-> "truncate", file |-> f, text |-> text, base |-> Files!Absent]
    OBVIOUS
  <2>4. k \in Writing
    BY <1>0, <2>3 DEF Writing
  <2>5. k \in Calls /\ Reader(k)' /\ Shows(k)'
    <3>1. k \in Calls
      BY <2>4 DEF Calls
    <3>2. Reader(k)'
      <4>1. k.step # "fill" /\ k.file = f
        BY <2>3
      <4>2. QED
        BY <2>1, <2>2, <2>4, <3>1, <4>1, Kinds DEF Reader, Files!told
    <3>3. QED
      BY <2>4, <3>1, <3>2, Kinds DEF Shows
  <2>6. QED
    BY <1>a, <1>b, <2>1, <2>3, <2>5
<1>8. ASSUME NEW c \in FileCaller, Files!StartEdit(c) PROVE FilesInv'
  <2>1. PICK f \in File, from \in Token, to \in Token, all \in BOOLEAN :
            /\ Files!Passes("Edit", f) /\ fCall[c] = Files!Idle
            /\ fCall' = [fCall EXCEPT ![c] = [tool |-> "Edit", step |-> "load", file |-> f,
                                              from |-> from, to |-> to, all |-> all]]
            /\ UNCHANGED <<fDisk, fRead, fRanges, fPanicked, Files!told>>
    BY <1>8 DEF Files!StartEdit, Files!Start
  <2>2. fDisk[f] # Files!Absent /\ f \in fRead
    BY <2>1 DEF Files!Passes, Files!Refused, Files!MayChange, Files!Exists, Files!Resolves
  <2>3. PICK k : k = [tool |-> "Edit", step |-> "load", file |-> f, from |-> from, to |-> to, all |-> all]
    OBVIOUS
  <2>4. k \in Editing
    BY <2>3 DEF Editing
  <2>5. k \in Calls /\ Reader(k)' /\ Shows(k)'
    <3>1. k \in Calls
      BY <2>4 DEF Calls
    <3>2. Reader(k)'
      <4>1. k.file = f
        BY <2>3
      <4>2. QED
        BY <2>1, <2>2, <2>4, <3>1, <4>1, Kinds DEF Reader, Files!told
    <3>3. QED
      BY <2>4, <3>1, <3>2, Kinds DEF Shows
  <2>6. QED
    BY <1>a, <1>b, <2>1, <2>3, <2>5
<1>9. ASSUME NEW c \in FileCaller, Files!Replace(c) PROVE FilesInv'
  <2> PICK k : k = fCall[c]
    OBVIOUS
  <2>1. /\ k \in Editing /\ Reader(k) /\ k.tool = "Edit"
        /\ UNCHANGED <<fDisk, fRead, fRanges, fPanicked, Files!told>>
    BY <1>9, Kinds DEF Files!Replace, Files!At
  <2>2. k.file \in File /\ k.from \in Token /\ k.to \in Token
    BY <2>1 DEF Editing
  <2>3. PICK s : s = fDisk[k.file]
    OBVIOUS
  <2>4. s \in Text /\ (k.file \in fOld => k.file \in fRead)
    BY <2>1, <2>2, <2>3 DEF Reader
  <2>5. Files!Replaced(s, k.from, k.to) \in Text
    <3>1. DOMAIN s = 1 .. Len(s) /\ Len(s) \in Nat /\ \A i \in 1 .. Len(s) : s[i] \in Token
      BY <2>4 DEF Text
    <3>2. \A i \in 1 .. Len(s) : (IF s[i] = k.from THEN k.to ELSE s[i]) \in Token
      BY <2>2, <3>1
    <3>3. [i \in 1 .. Len(s) |-> IF s[i] = k.from THEN k.to ELSE s[i]] \in Seq(Token)
      BY <3>1, <3>2
    <3>4. QED
      BY <3>1, <3>3 DEF Text, Files!Replaced
  <2>6. CASE fCall' = [fCall EXCEPT ![c] = Files!Idle]
    BY <1>2, <1>a, <2>1, <2>6
  <2> DEFINE new == [tool |-> "Edit", step |-> "truncate", file |-> k.file,
                     text |-> Files!Replaced(s, k.from, k.to), base |-> s]
  <2>7. CASE fCall' = [fCall EXCEPT ![c] = new]
    <3>1. PICK m : m = new
      OBVIOUS
    <3>2. m \in Writing
      BY <2>2, <2>4, <2>5, <3>1 DEF Writing
    <3>3. m \in Calls
      BY <3>2 DEF Calls
    <3>4. Reader(m)'
      <4>1. m.file = k.file /\ m.step # "fill"
        BY <3>1
      <4>2. QED
        BY <2>1, <2>4, <3>2, <3>3, <4>1, Kinds DEF Reader, Files!told
    <3>5. Shows(m)'
      BY <3>2, <3>3, Kinds DEF Shows
    <3>6. QED
      BY <1>a, <2>1, <2>7, <3>1, <3>3, <3>4, <3>5
  <2>8. QED
    BY <1>9, <2>3, <2>6, <2>7 DEF Files!Replace
<1>10. ASSUME NEW c \in FileCaller, Files!Truncate(c) PROVE FilesInv'
  <2> PICK k : k = fCall[c]
    OBVIOUS
  <2>1. /\ k \in Writing /\ Reader(k) /\ k.file \in File
        /\ fDisk' = [fDisk EXCEPT ![k.file] = <<>>]
        /\ fTouched' = fTouched \cup {k.file}
        /\ fCall' = [fCall EXCEPT ![c].step = "fill"]
        /\ UNCHANGED <<fRead, fRanges, fOld, fFailed, fSeen, fHidden, fNext>>
    BY <1>10, Kinds DEF Files!Truncate, Writing
  <2>2. PICK m : m = [k EXCEPT !.step = "fill"]
    OBVIOUS
  <2>3. fCall' = [fCall EXCEPT ![c] = m]
    BY <2>1, <2>2
  <2>4. m \in Writing /\ m.file = k.file /\ m.tool = k.tool /\ k.tool # "Read"
    BY <2>1, <2>2 DEF Writing
  <2>5. m \in Calls
    BY <2>4 DEF Calls
  <2>6. FilesTyped'
    BY <1>0, <2>1, <2>3, <2>5
  <2>7. k.file \in fOld => k.file \in fRead
    BY <2>1 DEF Reader
  <2>8. Reader(m)' /\ Shows(m)'
    BY <2>1, <2>4, <2>5, <2>7, Kinds DEF Reader, Shows
  <2>9. \A f \in File : fDisk[f] # Files!Absent => fDisk'[f] # Files!Absent
    BY <1>0, <2>1
  <2>a. \A f \in File : f \notin fTouched' => fDisk'[f] = fDisk[f] /\ f \notin fTouched
    BY <2>1
  <2>10. \A d \in FileCaller : Reader(fCall[d])' /\ Shows(fCall[d])'
    BY <2>1, <2>3, <2>5, <2>6, <2>8, <2>9, <2>a, CallBecomes
  <2>b. \A f \in fRead : Noted(f)'
    BY <2>1, <2>3, <2>4, NotedStays
  <2>c. \A f \in File : \A i : SeenAt(f, i) => SeenAt(f, i)'
    BY <2>1, <2>a DEF SeenAt
  <2>d. RangesSeen' /\ Files!PagesTold'
    <3>1. RangesSeen'
      BY <2>1, <2>c DEF RangesSeen
    <3>2. \A f \in File : \A i \in 1 .. fNext'[f] - 1 : SeenAt(f, i)'
      <4>1. \A f \in File : \A i \in 1 .. fNext[f] - 1 : SeenAt(f, i)
        BY DEF Files!PagesTold, SeenAt
      <4>2. QED
        BY <2>1, <2>c, <4>1
    <3>3. QED
      BY <2>1, <3>1, <3>2 DEF Files!PagesTold, SeenAt
  <2>11. QED
    BY <2>1, <2>6, <2>7, <2>9, <2>10, <2>b, <2>d
<1>11. ASSUME NEW c \in FileCaller, Files!Fill(c) PROVE FilesInv'
  <2> PICK k : k = fCall[c]
    OBVIOUS
  <2>1. /\ k \in Writing /\ k.step = "fill" /\ Reader(k) /\ k.tool # "Read"
        /\ fDisk' = [fDisk EXCEPT ![k.file] = k.text]
        /\ fCall' = [fCall EXCEPT ![c] = Files!Idle]
        /\ UNCHANGED <<fRead, fRanges, fOld, fTouched, fFailed, fSeen, fHidden, fNext>>
    BY <1>11, Kinds DEF Files!Fill, Files!told
  <2>2. k.file \in File /\ k.text \in Text /\ k.file \in fTouched
    BY <2>1 DEF Writing, Reader
  <2>3. FilesTyped'
    BY <1>2, <2>1, <2>2
  <2>4. \A f \in File : fDisk[f] # Files!Absent => fDisk'[f] # Files!Absent
    BY <1>0, <2>1, <2>2
  <2>a. \A f \in File : f \notin fTouched' => fDisk'[f] = fDisk[f] /\ f \notin fTouched
    BY <2>1, <2>2
  <2>5. \A d \in FileCaller : Reader(fCall[d])' /\ Shows(fCall[d])'
    BY <1>2, <2>1, <2>3, <2>4, <2>a, CallBecomes
  <2>b. \A f \in fRead : Noted(f)'
    BY <2>1, NotedStays
  <2>c. \A f \in File : \A i : SeenAt(f, i) => SeenAt(f, i)'
    BY <2>1, <2>a DEF SeenAt
  <2>d. RangesSeen' /\ Files!PagesTold'
    <3>1. RangesSeen'
      BY <2>1, <2>c DEF RangesSeen
    <3>2. \A f \in File : \A i \in 1 .. fNext'[f] - 1 : SeenAt(f, i)'
      <4>1. \A f \in File : \A i \in 1 .. fNext[f] - 1 : SeenAt(f, i)
        BY DEF Files!PagesTold, SeenAt
      <4>2. QED
        BY <2>1, <2>c, <4>1
    <3>3. QED
      BY <2>1, <3>1, <3>2 DEF Files!PagesTold, SeenAt
  <2>6. QED
    BY <2>1, <2>3, <2>4, <2>5, <2>b, <2>d
<1>12. ASSUME NEW c \in FileCaller, Files!DiskFails(c) PROVE FilesInv'
  <2>1. fCall[c] \in Calls /\ fCall[c] # Files!Idle
    BY <1>12 DEF Files!DiskFails
  <2>2. fCall[c].file \in File
    BY <2>1 DEF Calls, Loading, Recording, Editing, Writing
  <2>3. QED
    BY <1>12, <1>d, <2>2 DEF Files!DiskFails
<1>13. QED
  BY <1>3, <1>4, <1>5, <1>6, <1>7, <1>8, <1>9, <1>10, <1>11, <1>12 DEF Files!Next

(* A step of another side keeps it.                                       *)
LEMMA FilesStay ==
    ASSUME FilesInv, UNCHANGED filesVars PROVE FilesInv'
BY DEF FilesInv, FilesTyped, Noted, RangesSeen, SeenAt, Files!PagesTold, Reader, Shows, filesVars

(***************************************************************************)
(* The output of a command.                                                *)
(***************************************************************************)
Stream == Command!Stream
(* A unit of output: where it stands in the stream and if it ends a line. *)
Unit   == Nat \X BOOLEAN

(* The types of the streams and of what was taken of them.                *)
CommandTyped ==
    /\ oWritten \in Nat
    /\ oWrote \in [Stream -> Seq(Unit)] /\ oPipe \in [Stream -> Seq(Unit)]
    /\ oPartial \in [Stream -> Seq(Unit)] /\ oCollected \in [Stream -> Seq(Unit)]
    /\ oPending \in [Stream -> Seq(Unit)] /\ oLogs \in [Stream -> Seq(Unit)]

(* Positions rise along q, all of p stands before q, q holds units of W only. *)
Rising(q)   == \A i, j \in 1 .. Len(q) : i < j => q[i][1] < q[j][1]
Ahead(p, q) == \A i \in 1 .. Len(p), j \in 1 .. Len(q) : p[i][1] < q[j][1]
Within(q, W) == \A i \in 1 .. Len(q) : q[i] \in W

(* What was read of a stream: it was logged, or is pending.                  *)
ReadOf(s) == oLogs[s] \o oPending[s]
(* What was read of a stream, the buffer of a read and the pipe hold what    *)
(* was written, in its order, and each comes before the next.               *)
InTurn(s) ==
    /\ Rising(ReadOf(s)) /\ Rising(oPartial[s]) /\ Rising(oPipe[s])
    /\ Ahead(ReadOf(s), oPartial[s]) /\ Ahead(ReadOf(s), oPipe[s])
    /\ Ahead(oPartial[s], oPipe[s])
(* What is read and what waits is of the stream.                            *)
Written(s) ==
    /\ \A u \in ToSet(oWrote[s]) : u[1] <= oWritten /\ u[1] # 0
    /\ Within(ReadOf(s), ToSet(oWrote[s])) /\ Within(oPartial[s], ToSet(oWrote[s]))
    /\ Within(oPipe[s], ToSet(oWrote[s]))
(* What of p was read is in q; what was read rises along q; what is collected *)
(* is what was read, but for the lines of read errors.                       *)
Holds(q, p) == \A i \in 1 .. Len(p) : p[i][1] # 0 => \E j \in 1 .. Len(q) : q[j] = p[i]
ReadRises(q) == \A i, j \in 1 .. Len(q) : i < j /\ q[i][1] # 0 /\ q[j][1] # 0 => q[i][1] < q[j][1]
Matches(c, r) == Holds(r, c) /\ Holds(c, r) /\ ReadRises(c)
Collects(s) == Matches(oCollected[s], ReadOf(s))
(* An answer shows what was collected of each stream, up to its limit.       *)
ShownIs == oShown = IF oAnswer \in {"exited", "timeout"} THEN [s \in Stream |-> Command!Truncated(s)]
                    ELSE Command!Nothing
(* What the two streams of a command keep while they are read.            *)
CommandInv ==
    /\ CommandTyped
    /\ \A s \in Stream : InTurn(s) /\ Written(s) /\ Collects(s)
    /\ oAnswer = "exited" => oPending = Command!No
    /\ ShownIs

(* Two parts in order make one in order.                                  *)
LEMMA Concats ==
    ASSUME NEW p \in Seq(Unit), NEW q \in Seq(Unit), NEW r \in Seq(Unit), NEW W
    PROVE  /\ p \o q \in Seq(Unit)
           /\ Rising(p) /\ Rising(q) /\ Ahead(p, q) => Rising(p \o q)
           /\ Ahead(p, r) /\ Ahead(q, r) => Ahead(p \o q, r)
           /\ Ahead(r, p) /\ Ahead(r, q) => Ahead(r, p \o q)
           /\ Within(p, W) /\ Within(q, W) => Within(p \o q, W)
<1>1. /\ p \o q \in Seq(Unit) /\ Len(p \o q) = Len(p) + Len(q)
      /\ \A i \in 1 .. Len(p) + Len(q) : (p \o q)[i] = IF i <= Len(p) THEN p[i] ELSE q[i - Len(p)]
  BY ConcatProperties
<1>2. Len(p) \in Nat /\ Len(q) \in Nat /\ Len(r) \in Nat
  OBVIOUS
<1>3. \A i \in 1 .. Len(p) + Len(q) :
          \/ i \in 1 .. Len(p) /\ (p \o q)[i] = p[i]
          \/ i - Len(p) \in 1 .. Len(q) /\ i > Len(p) /\ (p \o q)[i] = q[i - Len(p)]
  BY <1>1, <1>2
<1> DEFINE pq == p \o q
<1> HIDE DEF pq
<1>4. ASSUME Rising(p), Rising(q), Ahead(p, q) PROVE Rising(pq)
  <2> SUFFICES ASSUME NEW i \in 1 .. Len(pq), NEW j \in 1 .. Len(pq), i < j PROVE pq[i][1] < pq[j][1]
    BY DEF Rising
  <2>1. i \in 1 .. Len(p) + Len(q) /\ j \in 1 .. Len(p) + Len(q)
    BY <1>1 DEF pq
  <2>2. CASE j \in 1 .. Len(p) /\ pq[j] = p[j]
    <3>1. i \in 1 .. Len(p) /\ pq[i] = p[i]
      BY <1>2, <1>3, <2>1, <2>2 DEF pq
    <3>2. QED
      BY <1>4, <2>2, <3>1 DEF Rising
  <2>3. CASE j - Len(p) \in 1 .. Len(q) /\ j > Len(p) /\ pq[j] = q[j - Len(p)]
    <3>1. CASE i \in 1 .. Len(p) /\ pq[i] = p[i]
      BY <1>4, <2>3, <3>1 DEF Ahead
    <3>2. CASE i - Len(p) \in 1 .. Len(q) /\ i > Len(p) /\ pq[i] = q[i - Len(p)]
      <4>1. i - Len(p) < j - Len(p)
        BY <1>2, <2>1
      <4>2. QED
        BY <1>4, <2>3, <3>2, <4>1 DEF Rising
    <3>3. QED
      BY <1>3, <2>1, <3>1, <3>2 DEF pq
  <2>4. QED
    BY <1>3, <2>1, <2>2, <2>3 DEF pq
<1>5. /\ Ahead(p, r) /\ Ahead(q, r) => Ahead(pq, r)
      /\ Ahead(r, p) /\ Ahead(r, q) => Ahead(r, pq)
      /\ Within(p, W) /\ Within(q, W) => Within(pq, W)
  BY <1>1, <1>2, <1>3 DEF Ahead, Within, pq
<1>6. QED
  BY <1>1, <1>4, <1>5 DEF pq

(* The first n units of a sequence and the others.                           *)
LEMMA Splits ==
    ASSUME NEW q \in Seq(Unit), NEW n \in 0 .. Len(q), NEW r \in Seq(Unit), NEW W
    PROVE  LET a == SubSeq(q, 1, n)
               b == SubSeq(q, n + 1, Len(q))
           IN /\ a \in Seq(Unit) /\ b \in Seq(Unit)
              /\ Rising(q) => Rising(a) /\ Rising(b) /\ Ahead(a, b)
              /\ Ahead(r, q) => Ahead(r, a) /\ Ahead(r, b)
              /\ Within(q, W) => Within(a, W) /\ Within(b, W)
<1> DEFINE a == SubSeq(q, 1, n)
           b == SubSeq(q, n + 1, Len(q))
<1>1. Len(q) \in Nat /\ Len(r) \in Nat /\ \A i \in 1 .. Len(q) : q[i] \in Unit
  OBVIOUS
<1>2. a \in Seq(Unit) /\ Len(a) = n /\ \A i \in 1 .. n : a[i] = q[i]
  BY <1>1
<1>3. b \in Seq(Unit) /\ Len(b) = Len(q) - n /\ \A i \in 1 .. Len(q) - n : b[i] = q[n + i]
  BY <1>1
<1> HIDE DEF a, b
<1>4. /\ \A i \in 1 .. Len(a) : i \in 1 .. Len(q) /\ i <= n
      /\ \A i \in 1 .. Len(b) : n + i \in 1 .. Len(q) /\ n + i > n
  BY <1>1, <1>2, <1>3
<1>5. /\ Rising(q) => Rising(a) /\ Rising(b) /\ Ahead(a, b)
      /\ Ahead(r, q) => Ahead(r, a) /\ Ahead(r, b)
      /\ Within(q, W) => Within(a, W) /\ Within(b, W)
  <2>1. ASSUME Rising(q) PROVE Rising(a) /\ Ahead(a, b)
    <3>1. Rising(a)
      BY <1>2, <1>4, <2>1 DEF Rising
    <3>2. ASSUME NEW i \in 1 .. Len(a), NEW j \in 1 .. Len(b) PROVE a[i][1] < b[j][1]
      <4>1. i \in 1 .. Len(q) /\ n + j \in 1 .. Len(q) /\ i < n + j
        BY <1>1, <1>4
      <4>2. q[i][1] < q[n + j][1]
        BY <2>1, <4>1 DEF Rising
      <4>3. a[i] = q[i] /\ b[j] = q[n + j]
        BY <1>2, <1>3
      <4>4. QED
        BY <4>2, <4>3
    <3>3. QED
      BY <3>1, <3>2 DEF Ahead
  <2>2. ASSUME Rising(q) PROVE Rising(b)
    <3> SUFFICES ASSUME NEW i \in 1 .. Len(b), NEW j \in 1 .. Len(b), i < j PROVE b[i][1] < b[j][1]
      BY DEF Rising
    <3>1. n + i \in 1 .. Len(q) /\ n + j \in 1 .. Len(q) /\ n + i < n + j
      BY <1>1, <1>4
    <3>2. q[n + i][1] < q[n + j][1]
      BY <2>2, <3>1 DEF Rising
    <3>3. b[i] = q[n + i] /\ b[j] = q[n + j]
      BY <1>3
    <3>4. QED
      BY <3>2, <3>3
  <2>3. Ahead(r, q) => Ahead(r, a) /\ Ahead(r, b)
    BY <1>1, <1>2, <1>3, <1>4 DEF Ahead
  <2>4. Within(q, W) => Within(a, W) /\ Within(b, W)
    BY <1>1, <1>2, <1>3, <1>4 DEF Within
  <2>5. QED
    BY <2>1, <2>2, <2>3, <2>4
<1>6. QED
  BY <1>2, <1>3, <1>5 DEF a, b

(* What is read next goes to the log and to what is collected.              *)
LEMMA MatchesMore ==
    ASSUME NEW c \in Seq(Unit), NEW r \in Seq(Unit), NEW k \in Seq(Unit),
           Matches(c, r), Rising(k), Ahead(r, k)
    PROVE  Matches(c \o k, r \o k)
<1> DEFINE ck == c \o k
           rk == r \o k
<1>1. /\ Len(ck) = Len(c) + Len(k) /\ Len(rk) = Len(r) + Len(k)
      /\ \A i \in 1 .. Len(c) + Len(k) : ck[i] = IF i <= Len(c) THEN c[i] ELSE k[i - Len(c)]
      /\ \A i \in 1 .. Len(r) + Len(k) : rk[i] = IF i <= Len(r) THEN r[i] ELSE k[i - Len(r)]
  BY ConcatProperties
<1>2. Len(c) \in Nat /\ Len(r) \in Nat /\ Len(k) \in Nat
  OBVIOUS
<1> HIDE DEF ck, rk
<1>3. \A i \in 1 .. Len(ck) : \/ i \in 1 .. Len(c) /\ ck[i] = c[i]
                              \/ i - Len(c) \in 1 .. Len(k) /\ i > Len(c) /\ ck[i] = k[i - Len(c)]
  BY <1>1, <1>2
<1>4. \A i \in 1 .. Len(rk) : \/ i \in 1 .. Len(r) /\ rk[i] = r[i]
                              \/ i - Len(r) \in 1 .. Len(k) /\ i > Len(r) /\ rk[i] = k[i - Len(r)]
  BY <1>1, <1>2
<1>5. /\ \A i \in 1 .. Len(c) : i \in 1 .. Len(ck) /\ ck[i] = c[i]
      /\ \A i \in 1 .. Len(k) : Len(c) + i \in 1 .. Len(ck) /\ ck[Len(c) + i] = k[i]
      /\ \A i \in 1 .. Len(r) : i \in 1 .. Len(rk) /\ rk[i] = r[i]
      /\ \A i \in 1 .. Len(k) : Len(r) + i \in 1 .. Len(rk) /\ rk[Len(r) + i] = k[i]
  <2>1. /\ \A i \in 1 .. Len(k) : /\ Len(c) + i \in 1 .. Len(c) + Len(k) /\ ~(Len(c) + i <= Len(c))
                                  /\ (Len(c) + i) - Len(c) = i
        /\ \A i \in 1 .. Len(k) : /\ Len(r) + i \in 1 .. Len(r) + Len(k) /\ ~(Len(r) + i <= Len(r))
                                  /\ (Len(r) + i) - Len(r) = i
    BY <1>2
  <2>2. ASSUME NEW i \in 1 .. Len(k) PROVE ck[Len(c) + i] = k[i] /\ rk[Len(r) + i] = k[i]
    BY <1>1, <2>1
  <2>3. QED
    BY <1>1, <1>2, <2>1, <2>2
<1>6. Holds(rk, ck)
  <2> SUFFICES ASSUME NEW i \in 1 .. Len(ck), ck[i][1] # 0 PROVE \E j \in 1 .. Len(rk) : rk[j] = ck[i]
    BY DEF Holds
  <2>1. CASE i \in 1 .. Len(c) /\ ck[i] = c[i]
    <3>1. PICK j \in 1 .. Len(r) : r[j] = c[i]
      BY <2>1 DEF Matches, Holds
    <3>2. QED
      BY <1>5, <2>1, <3>1
  <2>2. CASE i - Len(c) \in 1 .. Len(k) /\ ck[i] = k[i - Len(c)]
    <3> DEFINE at == i - Len(c)
    <3>1. at \in 1 .. Len(k) /\ ck[i] = k[at]
      BY <2>2
    <3> HIDE DEF at
    <3>2. Len(r) + at \in 1 .. Len(rk) /\ rk[Len(r) + at] = ck[i]
      BY <1>5, <3>1
    <3>3. QED
      BY <3>2
  <2>3. QED
    BY <1>3, <2>1, <2>2
<1>7. Holds(ck, rk)
  <2> SUFFICES ASSUME NEW i \in 1 .. Len(rk), rk[i][1] # 0 PROVE \E j \in 1 .. Len(ck) : ck[j] = rk[i]
    BY DEF Holds
  <2>1. CASE i \in 1 .. Len(r) /\ rk[i] = r[i]
    <3>1. PICK j \in 1 .. Len(c) : c[j] = r[i]
      BY <2>1 DEF Matches, Holds
    <3>2. QED
      BY <1>5, <2>1, <3>1
  <2>2. CASE i - Len(r) \in 1 .. Len(k) /\ rk[i] = k[i - Len(r)]
    <3> DEFINE at == i - Len(r)
    <3>1. at \in 1 .. Len(k) /\ rk[i] = k[at]
      BY <2>2
    <3> HIDE DEF at
    <3>2. Len(c) + at \in 1 .. Len(ck) /\ ck[Len(c) + at] = rk[i]
      BY <1>5, <3>1
    <3>3. QED
      BY <3>2
  <2>3. QED
    BY <1>4, <2>1, <2>2
<1>8. ReadRises(ck)
  <2> SUFFICES ASSUME NEW i \in 1 .. Len(ck), NEW j \in 1 .. Len(ck), i < j, ck[i][1] # 0, ck[j][1] # 0
               PROVE  ck[i][1] < ck[j][1]
    BY DEF ReadRises
  <2>1. CASE j \in 1 .. Len(c) /\ ck[j] = c[j]
    <3>1. i \in 1 .. Len(c) /\ ck[i] = c[i]
      BY <1>2, <1>3, <2>1
    <3>2. QED
      BY <2>1, <3>1 DEF Matches, ReadRises
  <2>2. CASE j - Len(c) \in 1 .. Len(k) /\ j > Len(c) /\ ck[j] = k[j - Len(c)]
    <3>1. CASE i \in 1 .. Len(c) /\ ck[i] = c[i]
      <4>1. PICK m \in 1 .. Len(r) : r[m] = ck[i]
        BY <3>1 DEF Matches, Holds
      <4>2. QED
        BY <2>2, <4>1 DEF Ahead
    <3>2. CASE i - Len(c) \in 1 .. Len(k) /\ i > Len(c) /\ ck[i] = k[i - Len(c)]
      <4>1. i - Len(c) < j - Len(c)
        BY <1>1, <1>2
      <4>2. QED
        BY <2>2, <3>2, <4>1 DEF Rising
    <3>3. QED
      BY <1>3, <3>1, <3>2
  <2>3. QED
    BY <1>3, <2>1, <2>2
<1>9. QED
  BY <1>6, <1>7, <1>8 DEF Matches, ck, rk

(* The line of a read error is collected and not logged.                    *)
LEMMA MatchesError ==
    ASSUME NEW c \in Seq(Unit), NEW r \in Seq(Unit), NEW u \in Unit, u[1] = 0, Matches(c, r)
    PROVE  Matches(Append(c, u), r)
<1> DEFINE cu == Append(c, u)
<1>1. Len(cu) = Len(c) + 1 /\ Len(c) \in Nat /\ cu[Len(c) + 1] = u /\ \A i \in 1 .. Len(c) : cu[i] = c[i]
  OBVIOUS
<1> HIDE DEF cu
<1>2. \A i \in 1 .. Len(cu) : cu[i][1] # 0 => i \in 1 .. Len(c) /\ cu[i] = c[i]
  <2>1. \A i \in 1 .. Len(cu) : i \in 1 .. Len(c) \/ i = Len(c) + 1
    BY <1>1
  <2>2. QED
    BY <1>1, <2>1
<1>3. \A i \in 1 .. Len(c) : i \in 1 .. Len(cu)
  BY <1>1
<1>4. Holds(r, cu)
  BY <1>2 DEF Matches, Holds
<1>5. Holds(cu, r)
  <2> SUFFICES ASSUME NEW i \in 1 .. Len(r), r[i][1] # 0 PROVE \E j \in 1 .. Len(cu) : cu[j] = r[i]
    BY DEF Holds
  <2>1. PICK j \in 1 .. Len(c) : c[j] = r[i]
    BY DEF Matches, Holds
  <2>2. QED
    BY <1>1, <1>3, <2>1
<1>6. ReadRises(cu)
  BY <1>2 DEF Matches, ReadRises
<1>7. QED
  BY <1>4, <1>5, <1>6 DEF Matches, cu

(* A command begins with it.                                              *)
LEMMA CommandInit == Command!Init => CommandInv
<1> SUFFICES ASSUME Command!Init PROVE CommandInv
  OBVIOUS
<1>1. <<>> \in Seq(Unit) /\ Len(<<>>) = 0 /\ <<>> \o <<>> = <<>> /\ ToSet(<<>>) = {}
  BY DEF ToSet
<1>2. Command!No \in [Stream -> Seq(Unit)] /\ \A s \in Stream : Command!No[s] = <<>>
  BY <1>1 DEF Command!No, Stream
<1>3. CommandTyped
  BY <1>2 DEF Command!Init, CommandTyped
<1>4. \A s \in Stream : ReadOf(s) = <<>>
  BY <1>1, <1>2 DEF Command!Init, ReadOf
<1>5. \A s \in Stream : InTurn(s) /\ Written(s) /\ Collects(s)
  BY <1>1, <1>2, <1>4 DEF Command!Init, InTurn, Written, Collects, Matches, Holds, ReadRises, Rising, Ahead, Within
<1>6. QED
  BY <1>3, <1>5 DEF Command!Init, CommandInv, ShownIs

(* What is taken of a stream is a part of it.                             *)
LEMMA TakenIsPart ==
    ASSUME CommandTyped, NEW s \in Stream
    PROVE  \E n \in 0 .. Len(oPipe[s]) :
              Command!Taken(s) = SubSeq(oPipe[s], 1, n) /\ Len(Command!Taken(s)) = n
<1> DEFINE q == oPipe[s]
           E == Command!LineEnds(s)
<1>1. q \in Seq(Unit) /\ Len(q) \in Nat /\ DOMAIN q = 1 .. Len(q) /\ E \subseteq 1 .. Len(q)
  BY DEF CommandTyped, Command!LineEnds
<1>2. CASE E = {}
  <2>1. SubSeq(q, 1, Len(q)) = q
    BY <1>1
  <2>2. QED
    BY <1>1, <1>2, <2>1 DEF Command!Taken
<1>3. CASE E # {}
  <2>1. E \in SUBSET Nat
    BY <1>1
  <2> HIDE DEF E
  <2>2. \E i \in E : \A j \in E : i <= j
    BY <1>3, <2>1, Least
  <2> DEFINE n == CHOOSE i \in E : \A j \in E : i <= j
  <2>3. n \in E
    BY <2>2
  <2>4. n \in 1 .. Len(q)
    BY <1>1, <2>3
  <2>5. Command!Taken(s) = SubSeq(q, 1, n)
    BY <1>3 DEF Command!Taken, Command!Line, E
  <2> HIDE DEF n
  <2>6. Len(SubSeq(q, 1, n)) = n
    BY <1>1, <2>4
  <2>7. QED
    BY <1>1, <2>4, <2>5, <2>6
<1>4. QED
  BY <1>2, <1>3

(* A unit after the others makes a stream of them, with that unit.        *)
LEMMA Appends ==
    ASSUME NEW s \in Seq(Unit), NEW u \in Unit
    PROVE  /\ Append(s, u) \in Seq(Unit) /\ <<u>> \in Seq(Unit) /\ Append(s, u) = s \o <<u>>
           /\ ToSet(Append(s, u)) = ToSet(s) \cup {u} /\ ToSet(s) \subseteq Unit
<1>1. Append(s, u) \in Seq(Unit) /\ <<u>> \in Seq(Unit)
  OBVIOUS
<1>2. Append(s, u) = s \o <<u>>
  <2>1. Len(Append(s, u)) = Len(s) + 1 /\ Len(s \o <<u>>) = Len(s) + 1 /\ s \o <<u>> \in Seq(Unit)
    BY <1>1
  <2>2. \A i \in 1 .. Len(s) + 1 : Append(s, u)[i] = (s \o <<u>>)[i]
    BY <1>1
  <2>3. QED
    BY <1>1, <2>1, <2>2, SeqEqual
<1>3. ToSet(Append(s, u)) = ToSet(s) \cup {u}
  BY SetOfAppend
<1>4. ToSet(s) \subseteq Unit
  BY SetOf
<1>5. QED
  BY <1>1, <1>2, <1>3, <1>4

(* Concatenation is associative.                                          *)
LEMMA Associates ==
    ASSUME NEW p \in Seq(Unit), NEW q \in Seq(Unit), NEW r \in Seq(Unit)
    PROVE  (p \o q) \o r = p \o (q \o r)
BY ConcatAssociative

(* Nothing is out of order in an empty buffer.                               *)
LEMMA Empties ==
    ASSUME NEW r, NEW W
    PROVE  Rising(<<>>) /\ Ahead(<<>>, r) /\ Ahead(r, <<>>) /\ Within(<<>>, W)
BY DEF Rising, Ahead, Within

(* A stream of which nothing changes, but that a buffer may be dropped.      *)
LEMMA StreamRests ==
    ASSUME CommandInv, NEW s \in Stream,
           oPipe'[s] = oPipe[s], ReadOf(s)' = ReadOf(s),
           oPartial'[s] = oPartial[s] \/ oPartial'[s] = <<>>,
           oWrote'[s] = oWrote[s], oWritten' >= oWritten, oWritten' \in Nat
    PROVE  InTurn(s)' /\ Written(s)'
<1>1. InTurn(s)'
  BY Empties DEF CommandInv, InTurn
<1>2. \A u \in ToSet(oWrote[s]) : u \in Unit /\ u[1] <= oWritten /\ u[1] # 0
  <2>1. oWrote[s] \in Seq(Unit)
    BY DEF CommandInv, CommandTyped
  <2>2. ToSet(oWrote[s]) \subseteq Unit
    BY <2>1, SetOf
  <2>3. QED
    BY <2>2 DEF CommandInv, Written
<1>3. \A u \in ToSet(oWrote[s]) : u[1] <= oWritten' /\ u[1] # 0
  BY <1>2 DEF CommandInv, CommandTyped, Unit
<1>4. QED
  BY <1>1, <1>3, Empties DEF CommandInv, Written

(* Every step of a command keeps it.                                      *)
LEMMA CommandStepped ==
    ASSUME CommandInv, Command!Next PROVE CommandInv'
<1> USE DEF CommandInv, CommandTyped
<1>0. /\ Command!No \in [Stream -> Seq(Unit)] /\ \A s \in Stream : Command!No[s] = <<>>
      /\ <<>> \in Seq(Unit) /\ Stream = Command!Stream
  BY DEF Command!No, Stream
<1>1. ASSUME NEW s \in Stream, NEW e \in BOOLEAN, Command!Write(s, e) PROVE CommandInv'
  <2> PICK u : u = <<oWritten + 1, e>>
    OBVIOUS
  <2> DEFINE p == oPipe[s]
             w == oWrote[s]
  <2>1. /\ oWritten' = oWritten + 1 /\ u \in Unit /\ u[1] = oWritten + 1
        /\ oWrote' = [oWrote EXCEPT ![s] = Append(w, u)]
        /\ oPipe' = [oPipe EXCEPT ![s] = Append(p, u)]
        /\ UNCHANGED <<oProcess, oPartial, oCollected, oPending, oLogs, oDone, oAnswer, oShown>>
    BY <1>1 DEF Command!Write, Unit
  <2>2. p \in Seq(Unit) /\ w \in Seq(Unit) /\ ReadOf(s) \in Seq(Unit) /\ oPartial[s] \in Seq(Unit)
    BY ConcatProperties DEF ReadOf
  <2>r. \A d \in Stream : ReadOf(d)' = ReadOf(d)
    BY <2>1 DEF ReadOf
  <2>3. ToSet(Append(w, u)) = ToSet(w) \cup {u} /\ ToSet(w) \subseteq Unit
    BY <2>1, <2>2, Appends
  <2>4. \A v \in ToSet(w) : v[1] \in Nat /\ v[1] <= oWritten
    BY <2>3 DEF Written, Unit
  <2>5. <<u>> \in Seq(Unit) /\ Append(p, u) = p \o <<u>> /\ Append(p, u) \in Seq(Unit) /\ Append(w, u) \in Seq(Unit)
    BY <2>1, <2>2, Appends
  <2>6. Rising(<<u>>) /\ Within(<<u>>, ToSet(w) \cup {u})
    BY DEF Rising, Within
  <2>7. ASSUME NEW q, Within(q, ToSet(w)) PROVE Ahead(q, <<u>>)
    BY <2>1, <2>4, <2>7 DEF Within, Ahead
  <2> HIDE DEF p, w
  <2>8. CommandTyped'
    BY <2>1, <2>5
  <2>9. InTurn(s)'
    <3>1. /\ Rising(ReadOf(s)) /\ Rising(oPartial[s]) /\ Rising(p)
          /\ Ahead(ReadOf(s), oPartial[s]) /\ Ahead(ReadOf(s), p) /\ Ahead(oPartial[s], p)
      BY DEF InTurn, p
    <3>2. Ahead(ReadOf(s), <<u>>) /\ Ahead(oPartial[s], <<u>>) /\ Ahead(p, <<u>>)
      BY <2>7 DEF Written, w, p
    <3>3. Rising(p \o <<u>>)
      BY <2>2, <2>5, <2>6, <3>1, <3>2, Concats
    <3>4. Ahead(ReadOf(s), p \o <<u>>)
      BY <2>2, <2>5, <3>1, <3>2, Concats
    <3>5. Ahead(oPartial[s], p \o <<u>>)
      BY <2>2, <2>5, <3>1, <3>2, Concats
    <3>6. oPipe'[s] = p \o <<u>>
      BY <2>1, <2>5
    <3>7. QED
      BY <2>1, <2>r, <3>1, <3>3, <3>4, <3>5, <3>6 DEF InTurn
  <2>10. Written(s)'
    <3>1. oWrote'[s] = Append(w, u) /\ oPipe'[s] = p \o <<u>>
      BY <2>1, <2>5
    <3>2. ASSUME NEW v \in ToSet(oWrote'[s]) PROVE v[1] <= oWritten' /\ v[1] # 0
      <4>1. v \in ToSet(w) \/ v = u
        BY <2>3, <3>1, <3>2
      <4>2. oWritten \in Nat /\ oWritten' = oWritten + 1
        BY <2>1
      <4>3. QED
        BY <2>1, <2>4, <4>1, <4>2 DEF Written, w
    <3>3. \A q : Within(q, ToSet(w)) => Within(q, ToSet(w) \cup {u})
      BY DEF Within
    <3>4. Within(p, ToSet(w) \cup {u}) /\ Within(ReadOf(s), ToSet(w) \cup {u})
          /\ Within(oPartial[s], ToSet(w) \cup {u})
      BY <3>3 DEF Written, p, w
    <3>5. Within(p \o <<u>>, ToSet(w) \cup {u})
      BY <2>2, <2>5, <2>6, <3>4, Concats
    <3>6. QED
      BY <2>1, <2>3, <2>r, <3>1, <3>2, <3>4, <3>5 DEF Written
  <2>11. ASSUME NEW d \in Stream, d # s PROVE InTurn(d)' /\ Written(d)'
    <3>1. /\ oPipe'[d] = oPipe[d] /\ oPartial'[d] = oPartial[d] /\ oWrote'[d] = oWrote[d]
          /\ oWritten' >= oWritten /\ oWritten' \in Nat
      BY <2>1, <2>11
    <3>2. QED
      BY <2>r, <3>1, StreamRests
  <2>12. \A d \in Stream : Collects(d)'
    BY <2>1, <2>r DEF Collects
  <2>s. ShownIs'
    BY <2>1 DEF ShownIs, Command!Truncated
  <2>13. QED
    BY <2>1, <2>8, <2>9, <2>10, <2>11, <2>12, <2>s
<1>2. ASSUME NEW s \in Stream, Command!Poll(s) PROVE CommandInv'
  <2> DEFINE p == oPipe[s]
             b == oPartial[s]
  <2>1. /\ oPartial' = [oPartial EXCEPT ![s] = b \o p] /\ oPipe' = [oPipe EXCEPT ![s] = <<>>]
        /\ UNCHANGED <<oWritten, oProcess, oWrote, oCollected, oPending, oLogs, oDone, oAnswer, oShown>>
    BY <1>2 DEF Command!Poll
  <2>2. p \in Seq(Unit) /\ b \in Seq(Unit) /\ ReadOf(s) \in Seq(Unit)
    BY ConcatProperties DEF ReadOf
  <2>r. \A d \in Stream : ReadOf(d)' = ReadOf(d)
    BY <2>1 DEF ReadOf
  <2>3. /\ Rising(ReadOf(s)) /\ Rising(b) /\ Rising(p)
        /\ Ahead(ReadOf(s), b) /\ Ahead(ReadOf(s), p) /\ Ahead(b, p)
        /\ Within(b, ToSet(oWrote[s])) /\ Within(p, ToSet(oWrote[s]))
    BY DEF InTurn, Written
  <2> HIDE DEF p, b
  <2>4. /\ b \o p \in Seq(Unit) /\ Rising(b \o p) /\ Ahead(ReadOf(s), b \o p)
        /\ Within(b \o p, ToSet(oWrote[s]))
    BY <2>2, <2>3, Concats
  <2>5. CommandTyped'
    BY <1>0, <2>1, <2>4
  <2>6. oPartial'[s] = b \o p /\ oPipe'[s] = <<>>
    BY <2>1
  <2>7. InTurn(s)' /\ Written(s)'
    BY <2>1, <2>3, <2>4, <2>6, <2>r, Empties DEF InTurn, Written
  <2>8. ASSUME NEW d \in Stream, d # s PROVE InTurn(d)' /\ Written(d)'
    <3>1. /\ oPipe'[d] = oPipe[d] /\ oPartial'[d] = oPartial[d] /\ oWrote'[d] = oWrote[d]
          /\ oWritten' >= oWritten /\ oWritten' \in Nat
      BY <2>1, <2>8
    <3>2. QED
      BY <2>r, <3>1, StreamRests
  <2>9. \A d \in Stream : Collects(d)'
    BY <2>1, <2>r DEF Collects
  <2>s. ShownIs'
    BY <2>1 DEF ShownIs, Command!Truncated
  <2>10. QED
    BY <2>1, <2>5, <2>7, <2>8, <2>9, <2>s
<1>3. ASSUME NEW s \in Stream, Command!Chunk(s) PROVE CommandInv'
  <2> PICK n \in 0 .. Len(oPipe[s]) :
         Command!Taken(s) = SubSeq(oPipe[s], 1, n) /\ Len(Command!Taken(s)) = n
    BY TakenIsPart
  <2> DEFINE p == oPipe[s]
             b == oPartial[s]
             t == SubSeq(p, 1, n)
             rest == SubSeq(p, n + 1, Len(p))
             chunk == b \o t
             col == ReadOf(s)
             W == ToSet(oWrote[s])
  <2>1. /\ oPipe' = [oPipe EXCEPT ![s] = rest]
        /\ oCollected' = [oCollected EXCEPT ![s] = @ \o chunk]
        /\ Command!Log(s, chunk)
        /\ oPartial' = Command!No
        /\ UNCHANGED <<oWritten, oProcess, oWrote, oDone, oAnswer, oShown>> /\ oAnswer = "none"
    BY <1>3 DEF Command!Chunk, Command!Reading
  <2>2. p \in Seq(Unit) /\ b \in Seq(Unit) /\ col \in Seq(Unit) /\ n \in 0 .. Len(p)
    BY ConcatProperties DEF ReadOf
  <2>3. /\ Rising(col) /\ Rising(b) /\ Rising(p)
        /\ Ahead(col, b) /\ Ahead(col, p) /\ Ahead(b, p)
        /\ Within(col, W) /\ Within(b, W) /\ Within(p, W)
    BY DEF InTurn, Written
  <2> HIDE DEF p, b, col, W
  <2>4. /\ t \in Seq(Unit) /\ rest \in Seq(Unit) /\ Rising(t) /\ Rising(rest) /\ Ahead(t, rest)
        /\ Within(t, W) /\ Within(rest, W)
    BY <2>2, <2>3, Splits
  <2>5. Ahead(col, t) /\ Ahead(col, rest)
    BY <2>2, <2>3, Splits
  <2>6. Ahead(b, t) /\ Ahead(b, rest)
    BY <2>2, <2>3, Splits
  <2> HIDE DEF t, rest
  <2>7. /\ chunk \in Seq(Unit) /\ Rising(chunk) /\ Within(chunk, W)
        /\ Ahead(col, chunk) /\ Ahead(chunk, rest)
    <3>1. chunk \in Seq(Unit) /\ Rising(chunk) /\ Within(chunk, W)
      BY <2>2, <2>3, <2>4, <2>6, Concats
    <3>2. Ahead(col, chunk)
      BY <2>2, <2>3, <2>4, <2>5, Concats
    <3>3. Ahead(chunk, rest)
      BY <2>2, <2>4, <2>6, Concats
    <3>4. QED
      BY <3>1, <3>2, <3>3
  <2> HIDE DEF chunk
  <2>8. /\ col \o chunk \in Seq(Unit) /\ Rising(col \o chunk) /\ Within(col \o chunk, W)
        /\ Ahead(col \o chunk, rest)
    <3>1. col \o chunk \in Seq(Unit) /\ Rising(col \o chunk) /\ Within(col \o chunk, W)
      BY <2>2, <2>3, <2>7, Concats
    <3>2. Ahead(col \o chunk, rest)
      BY <2>2, <2>4, <2>5, <2>7, Concats
    <3>3. QED
      BY <3>1, <3>2
  <2>9. /\ oPipe'[s] = rest /\ oCollected'[s] = oCollected[s] \o chunk
        /\ oPartial'[s] = <<>> /\ oWrote'[s] = oWrote[s]
    BY <1>0, <2>1
  <2>11. /\ oPending[s] \in Seq(Unit) /\ oLogs[s] \in Seq(Unit) /\ oPending[s] \o chunk \in Seq(Unit)
         /\ oLogs[s] \o oPending[s] = col
    BY <2>7 DEF ReadOf, col
  <2>12. (oLogs[s] \o oPending[s]) \o chunk = oLogs[s] \o (oPending[s] \o chunk)
    BY <2>7, <2>11, Associates
  <2>13. (oLogs[s] \o oPending[s]) \o chunk \in Seq(Unit)
    BY <2>8, <2>11
  <2>14. /\ oLogs' \in [Stream -> Seq(Unit)] /\ oPending' \in [Stream -> Seq(Unit)]
         /\ oLogs'[s] \o oPending'[s] = col \o chunk
         /\ \A d \in Stream : d # s => oLogs'[d] = oLogs[d] /\ oPending'[d] = oPending[d]
    <3>1. CASE /\ oLogs' = [oLogs EXCEPT ![s] = (@ \o oPending[s]) \o chunk]
               /\ oPending' = [oPending EXCEPT ![s] = <<>>]
      <4>1. oLogs'[s] = col \o chunk /\ oPending'[s] = <<>>
        BY <2>11, <3>1
      <4>2. (col \o chunk) \o <<>> = col \o chunk
        BY <2>8, ConcatEmptySeq
      <4>3. QED
        BY <1>0, <2>13, <3>1, <4>1, <4>2
    <3>2. CASE oPending' = [oPending EXCEPT ![s] = @ \o chunk] /\ UNCHANGED oLogs
      <4>1. oPending'[s] = oPending[s] \o chunk /\ oLogs'[s] = oLogs[s]
        BY <3>2
      <4>2. oLogs'[s] \o oPending'[s] = col \o chunk
        BY <2>11, <2>12, <4>1
      <4>3. QED
        BY <2>11, <3>2, <4>2
    <3>3. QED
      BY <2>1, <3>1, <3>2 DEF Command!Log
  <2>r. ReadOf(s)' = col \o chunk /\ \A d \in Stream : d # s => ReadOf(d)' = ReadOf(d)
    BY <2>14 DEF ReadOf
  <2>10. InTurn(s)' /\ Written(s)'
    <3>1. InTurn(s)'
      BY <2>4, <2>8, <2>9, <2>r, Empties DEF InTurn
    <3>2. Written(s)'
      BY <2>1, <2>4, <2>8, <2>9, <2>r, Empties DEF Written, W
    <3>3. QED
      BY <3>1, <3>2
  <2>c. oCollected[s] \o chunk \in Seq(Unit) /\ Matches(oCollected[s] \o chunk, col \o chunk)
    <3>1. oCollected[s] \in Seq(Unit) /\ Matches(oCollected[s], col)
      BY DEF Collects, col
    <3>2. QED
      BY <2>2, <2>7, <3>1, MatchesMore, ConcatProperties
  <2>15. CommandTyped'
    BY <1>0, <2>1, <2>4, <2>14, <2>c
  <2>16. ASSUME NEW d \in Stream, d # s PROVE InTurn(d)' /\ Written(d)'
    <3>1. /\ oPipe'[d] = oPipe[d] /\ ReadOf(d)' = ReadOf(d) /\ oPartial'[d] = <<>>
          /\ oWrote'[d] = oWrote[d] /\ oWritten' \in Nat /\ oWritten' = oWritten
      BY <1>0, <2>1, <2>16, <2>r
    <3>2. oWritten' >= oWritten
      BY <3>1
    <3>3. QED
      BY <3>1, <3>2, StreamRests
  <2>17. ASSUME NEW d \in Stream PROVE Collects(d)'
    <3>1. CASE d = s
      BY <2>9, <2>c, <2>r, <3>1 DEF Collects
    <3>2. CASE d # s
      BY <2>1, <2>r, <3>2 DEF Collects
    <3>3. QED
      BY <3>1, <3>2
  <2>s. ShownIs'
    BY <2>1 DEF ShownIs
  <2>18. QED
    BY <2>1, <2>10, <2>15, <2>16, <2>17, <2>s
(* What was read stays; a buffer is dropped, and the log may take what is    *)
(* pending.                                                                  *)
<1>4. ASSUME UNCHANGED <<oWritten, oWrote, oPipe>>, \A d \in Stream : ReadOf(d)' = ReadOf(d),
             oLogs' \in [Stream -> Seq(Unit)], oPending' \in [Stream -> Seq(Unit)],
             oCollected' \in [Stream -> Seq(Unit)], \A d \in Stream : Matches(oCollected'[d], ReadOf(d)),
             oPartial' = oPartial \/ oPartial' = Command!No,
             oAnswer' = "exited" => oPending' = Command!No, ShownIs'
      PROVE  CommandInv'
  <2>1. CommandTyped'
    BY <1>0, <1>4
  <2>2. ASSUME NEW d \in Stream PROVE InTurn(d)' /\ Written(d)'
    <3>1. oPipe'[d] = oPipe[d] /\ ReadOf(d)' = ReadOf(d) /\ oWrote'[d] = oWrote[d]
      BY <1>4
    <3>2. oPartial'[d] = oPartial[d] \/ oPartial'[d] = <<>>
      BY <1>0, <1>4
    <3>3. oWritten' >= oWritten /\ oWritten' \in Nat
      BY <1>4
    <3>4. QED
      BY <3>1, <3>2, <3>3, StreamRests
  <2>3. \A d \in Stream : Collects(d)'
    BY <1>4 DEF Collects
  <2>4. QED
    BY <1>4, <2>1, <2>2, <2>3
<1>a. ASSUME UNCHANGED <<oWritten, oWrote, oPipe, oCollected, oPending, oLogs>>,
             oPartial' = oPartial \/ oPartial' = Command!No,
             oAnswer' = "exited" => oPending = Command!No, ShownIs'
      PROVE  CommandInv'
  BY <1>4, <1>a DEF ReadOf, Collects
<1>5. ASSUME NEW s \in Stream, Command!ReadFails(s) PROVE CommandInv'
  <2> DEFINE u == Command!ReadError(s)
             c == oCollected["stderr"]
  <2>1. /\ UNCHANGED <<oWritten, oWrote, oPipe, oPending, oLogs, oAnswer, oShown>> /\ oAnswer = "none"
        /\ oCollected' = [oCollected EXCEPT !["stderr"] = Append(c, u)]
        /\ oPartial' = Command!No
    BY <1>5 DEF Command!ReadFails, Command!Reading
  <2>2. "stderr" \in Stream /\ u \in Unit /\ u[1] = 0
    BY DEF Stream, Command!Stream, Command!ReadError, Unit
  <2>3. c \in Seq(Unit) /\ ReadOf("stderr") \in Seq(Unit) /\ Matches(c, ReadOf("stderr"))
    BY <2>2, ConcatProperties DEF ReadOf, Collects
  <2> HIDE DEF u, c
  <2>4. Append(c, u) \in Seq(Unit) /\ Matches(Append(c, u), ReadOf("stderr"))
    BY <2>2, <2>3, MatchesError, Appends
  <2>5. oCollected' \in [Stream -> Seq(Unit)]
    BY <2>1, <2>4
  <2>6. ASSUME NEW d \in Stream PROVE Matches(oCollected'[d], ReadOf(d))
    <3>1. CASE d = "stderr"
      BY <2>1, <2>4, <3>1
    <3>2. CASE d # "stderr"
      BY <2>1, <3>2 DEF Collects
    <3>3. QED
      BY <3>1, <3>2
  <2>7. ShownIs'
    BY <2>1 DEF ShownIs
  <2>8. QED
    BY <1>4, <2>1, <2>5, <2>6, <2>7 DEF ReadOf
<1>6. ASSUME NEW s \in Stream, Command!Flush(s) PROVE CommandInv'
  <2>1. /\ oLogs' = [oLogs EXCEPT ![s] = oLogs[s] \o oPending[s]]
        /\ oPending' = [oPending EXCEPT ![s] = <<>>]
        /\ UNCHANGED <<oWritten, oWrote, oPipe, oPartial, oCollected, oAnswer, oShown>> /\ oAnswer = "none"
    BY <1>6 DEF Command!Flush, Command!Ended
  <2>2. oLogs[s] \o oPending[s] \in Seq(Unit) /\ (oLogs[s] \o oPending[s]) \o <<>> = oLogs[s] \o oPending[s]
    BY ConcatProperties, ConcatEmptySeq
  <2>3. ASSUME NEW d \in Stream PROVE ReadOf(d)' = ReadOf(d)
    <3>1. CASE d = s
      BY <2>1, <2>2, <3>1 DEF ReadOf
    <3>2. CASE d # s
      BY <2>1, <3>2 DEF ReadOf
    <3>3. QED
      BY <3>1, <3>2
  <2>4. oLogs' \in [Stream -> Seq(Unit)] /\ oPending' \in [Stream -> Seq(Unit)]
    BY <1>0, <2>1, <2>2
  <2>5. ShownIs'
    BY <2>1 DEF ShownIs
  <2>6. \A d \in Stream : Matches(oCollected'[d], ReadOf(d))
    BY <2>1 DEF Collects
  <2>7. QED
    BY <1>4, <2>1, <2>3, <2>4, <2>5, <2>6
<1>7. CASE Command!Answer
  <2>1. /\ UNCHANGED <<oWritten, oWrote, oPipe, oPartial, oCollected, oPending, oLogs>>
        /\ oPending = Command!No /\ oAnswer = "none"
        /\ \/ oAnswer' = "exited" /\ oShown' = [s \in Stream |-> Command!Truncated(s)]
           \/ oAnswer' = "failed" /\ oShown' = oShown
    BY <1>7 DEF Command!Answer, Command!Ended, Stream
  <2>2. ShownIs'
    BY <2>1 DEF ShownIs, Command!Truncated
  <2>3. QED
    BY <1>a, <2>1, <2>2
<1>8. CASE Command!TimeOut
  <2>1. /\ UNCHANGED <<oWritten, oWrote, oPipe, oCollected, oPending, oLogs>> /\ oPartial' = Command!No
        /\ oAnswer' = "timeout" /\ oShown' = [s \in Stream |-> Command!Truncated(s)]
    BY <1>8 DEF Command!TimeOut, Stream
  <2>2. ShownIs'
    BY <2>1 DEF ShownIs, Command!Truncated
  <2>3. QED
    BY <1>a, <2>1, <2>2
<1>9. ASSUME Command!Exit \/ \E s \in Stream : Command!EndOfStream(s) PROVE CommandInv'
  <2>1. /\ UNCHANGED <<oWritten, oWrote, oPipe, oCollected, oPending, oLogs, oAnswer, oShown>>
        /\ oPartial' = oPartial \/ oPartial' = Command!No
    BY <1>9 DEF Command!Exit, Command!EndOfStream
  <2>2. ShownIs'
    BY <2>1 DEF ShownIs, Command!Truncated
  <2>3. QED
    BY <1>a, <2>1, <2>2
<1>10. QED
  BY <1>0, <1>1, <1>2, <1>3, <1>5, <1>6, <1>7, <1>8, <1>9 DEF Command!Next

(* A step of another side keeps it.                                       *)
LEMMA CommandStays ==
    ASSUME CommandInv, UNCHANGED commandVars PROVE CommandInv'
BY DEF CommandInv, CommandTyped, InTurn, Written, Collects, ReadOf, ShownIs, Command!Truncated, commandVars

(* What an answer has of a stream, and if that is cut.                      *)
LEMMA Fields ==
    ASSUME NEW k, NEW q, NEW b, k = [text |-> q, cut |-> b]
    PROVE  k.text = q /\ k.cut = b
OBVIOUS

(* What an answer has of a stream is what was collected first.              *)
LEMMA ShownIsFirst ==
    ASSUME CommandInv, oAnswer \in {"exited", "timeout"}, NEW s \in Stream
    PROVE  /\ oShown[s].text \in Seq(Unit) /\ Len(oShown[s].text) <= Len(oCollected[s])
           /\ \A i \in 1 .. Len(oShown[s].text) : oShown[s].text[i] = oCollected[s][i]
           /\ ~oShown[s].cut => Len(oShown[s].text) = Len(oCollected[s])
           /\ oShown[s].cut => Len(oShown[s].text) = MaxShown[s]
<1> DEFINE c == oCollected[s]
           m == MaxShown[s]
<1>1. c \in Seq(Unit) /\ Len(c) \in Nat /\ m \in Nat
  BY ToolsAssumption DEF CommandInv, CommandTyped, Command!CommandOutputAssumption, Stream
<1>2. /\ Len(c) > m => oShown[s] = [text |-> SubSeq(c, 1, m), cut |-> TRUE]
      /\ ~(Len(c) > m) => oShown[s] = [text |-> c, cut |-> FALSE]
  <2>1. oShown[s] = Command!Truncated(s)
    BY DEF CommandInv, ShownIs
  <2>2. QED
    BY <2>1, Zenon DEF Command!Truncated
<1> HIDE DEF c, m
<1>3. CASE Len(c) > m
  <2>a. PICK q : q = SubSeq(c, 1, m)
    OBVIOUS
  <2>b. oShown[s] = [text |-> q, cut |-> TRUE]
    BY <1>2, <1>3, <2>a
  <2>1. oShown[s].text = SubSeq(c, 1, m) /\ oShown[s].cut = TRUE
    BY <2>a, <2>b, Fields
  <2>2. /\ SubSeq(c, 1, m) \in Seq(Unit) /\ Len(SubSeq(c, 1, m)) = m
        /\ \A i \in 1 .. m : SubSeq(c, 1, m)[i] = c[i]
    BY <1>1, <1>3
  <2>3. QED
    BY <1>1, <1>3, <2>1, <2>2 DEF c, m
<1>4. CASE ~(Len(c) > m)
  <2>1. oShown[s].text = c /\ oShown[s].cut = FALSE
    BY <1>2, <1>4
  <2>2. QED
    BY <1>1, <2>1 DEF c
<1>5. QED
  BY <1>3, <1>4

(* What was read of a stream before its answer is what is logged.            *)
LEMMA CommandTold ==
    ASSUME CommandInv PROVE Command!LogsAreTheAnswer /\ Command!InOrder
<1> USE DEF CommandInv, CommandTyped
<1>1. ASSUME NEW q \in Seq(Unit) PROVE Command!ToSet(q) = {q[i] : i \in 1 .. Len(q)} /\ DOMAIN q = 1 .. Len(q)
  BY DEF Command!ToSet
<1>2. Stream = Command!Stream
  BY DEF Stream
<1>3. ASSUME oAnswer = "exited", NEW s \in Stream
      PROVE  LET text == oShown[s].text
             IN /\ Command!Read(text) \subseteq Command!ToSet(oLogs[s])
                /\ \A u \in Command!Read(text) : \A v \in Command!ToSet(oLogs[s]) :
                      v[1] < u[1] => v \in Command!Read(text)
                /\ ~oShown[s].cut => Command!ToSet(oLogs[s]) \subseteq Command!Read(text)
                /\ oShown[s].cut => Len(text) = MaxShown[s]
  <2> DEFINE text == oShown[s].text
             c == oCollected[s]
             r == oLogs[s]
  <2>1. /\ text \in Seq(Unit) /\ Len(text) <= Len(c) /\ \A i \in 1 .. Len(text) : text[i] = c[i]
        /\ (~oShown[s].cut => Len(text) = Len(c)) /\ (oShown[s].cut => Len(text) = MaxShown[s])
    BY <1>3, ShownIsFirst
  <2>2. c \in Seq(Unit) /\ r \in Seq(Unit) /\ Len(c) \in Nat /\ Len(text) \in Nat
    BY <2>1
  <2>3. ReadOf(s) = r
    <3>1. oPending[s] = <<>>
      BY <1>3 DEF Command!No, Stream
    <3>2. QED
      BY <2>2, <3>1, ConcatEmptySeq DEF ReadOf
  <2>4. Matches(c, r) /\ Written(s)
    BY <2>3 DEF Collects
  <2>5. \A i \in 1 .. Len(r) : r[i][1] # 0 /\ r[i][1] \in Nat
    BY <2>2, <2>3, <2>4 DEF Written, Within, Unit
  <2> HIDE DEF text, c, r
  <2>6. /\ Command!Read(text) = {u \in {text[i] : i \in 1 .. Len(text)} : u[1] # 0}
        /\ Command!ToSet(r) = {r[i] : i \in 1 .. Len(r)}
    BY <1>1, <2>1, <2>2 DEF Command!Read
  <2>7. Command!Read(text) \subseteq Command!ToSet(r)
    <3> SUFFICES ASSUME NEW i \in 1 .. Len(text), text[i][1] # 0 PROVE text[i] \in Command!ToSet(r)
      BY <2>6
    <3>1. i \in 1 .. Len(c) /\ text[i] = c[i]
      BY <2>1, <2>2
    <3>2. QED
      BY <2>4, <2>6, <3>1 DEF Matches, Holds
  <2>8. ASSUME NEW i \in 1 .. Len(text), text[i][1] # 0, NEW k \in 1 .. Len(r), r[k][1] < text[i][1]
        PROVE  r[k] \in Command!Read(text)
    <3>1. PICK j \in 1 .. Len(c) : c[j] = r[k]
      BY <2>4, <2>5 DEF Matches, Holds
    <3>2. i \in 1 .. Len(c) /\ text[i] = c[i]
      BY <2>1, <2>2
    <3>3. c[i][1] \in Nat /\ c[j][1] \in Nat
      <4>1. c[i] \in Unit /\ c[j] \in Unit
        BY <2>2, <3>2
      <4>2. QED
        BY <4>1 DEF Unit
    <3>4. ~(i < j)
      <4>1. i < j => c[i][1] < c[j][1]
        BY <2>4, <2>5, <2>8, <3>1, <3>2 DEF Matches, ReadRises
      <4>2. QED
        BY <2>8, <3>1, <3>2, <3>3, <4>1
    <3>5. j \in 1 .. Len(text)
      BY <2>2, <3>4
    <3>6. QED
      BY <2>1, <2>5, <2>6, <3>1, <3>5
  <2>9. ~oShown[s].cut => Command!ToSet(r) \subseteq Command!Read(text)
    <3> SUFFICES ASSUME ~oShown[s].cut, NEW k \in 1 .. Len(r) PROVE r[k] \in Command!Read(text)
      BY <2>6
    <3>1. PICK j \in 1 .. Len(c) : c[j] = r[k]
      BY <2>4, <2>5 DEF Matches, Holds
    <3>2. QED
      BY <2>1, <2>5, <2>6, <3>1
  <2>10. \A u \in Command!Read(text) : \A v \in Command!ToSet(r) : v[1] < u[1] => v \in Command!Read(text)
    BY <2>6, <2>8
  <2>11. QED
    BY <2>1, <2>7, <2>9, <2>10 DEF text, r
<1>4. ASSUME NEW s \in Stream, NEW q \in {oLogs[s], oShown[s].text}
      PROVE  \A i, j \in DOMAIN q : /\ i < j /\ q[i][1] # 0 /\ q[j][1] # 0 => q[i][1] < q[j][1]
                                    /\ q[i][1] # 0 => q[i] \in Command!ToSet(oWrote[s])
  <2>1. Command!ToSet(oWrote[s]) = ToSet(oWrote[s])
    BY DEF Command!ToSet, ToSet
  <2>2. CASE q = oLogs[s]
    <3> DEFINE r == ReadOf(s)
    <3>1. q \in Seq(Unit) /\ oPending[s] \in Seq(Unit)
      BY <2>2
    <3>2. Len(q) \in Nat /\ Len(oPending[s]) \in Nat /\ Len(r) = Len(q) + Len(oPending[s])
      BY <2>2, <3>1, ConcatProperties DEF ReadOf
    <3>3. \A i \in 1 .. Len(q) + Len(oPending[s]) : r[i] = IF i <= Len(q) THEN q[i] ELSE oPending[s][i - Len(q)]
      BY <2>2, <3>1, ConcatProperties DEF ReadOf
    <3>4. Rising(r) /\ Within(r, ToSet(oWrote[s]))
      BY DEF InTurn, Written
    <3> HIDE DEF r
    <3>5. \A i \in 1 .. Len(q) : i \in 1 .. Len(r) /\ r[i] = q[i]
      BY <3>2, <3>3
    <3>6. DOMAIN q = 1 .. Len(q)
      BY <3>1
    <3>7. QED
      BY <2>1, <3>4, <3>5, <3>6 DEF Rising, Within
  <2>3. CASE q = oShown[s].text /\ oAnswer \in {"exited", "timeout"}
    <3> DEFINE c == oCollected[s]
               r == ReadOf(s)
    <3>1. q \in Seq(Unit) /\ Len(q) <= Len(c) /\ \A i \in 1 .. Len(q) : q[i] = c[i]
      BY <2>3, ShownIsFirst
    <3>2. Matches(c, r) /\ Within(r, ToSet(oWrote[s])) /\ Len(c) \in Nat
      BY DEF Collects, Written
    <3> HIDE DEF c, r
    <3>3. DOMAIN q = 1 .. Len(q) /\ Len(q) \in Nat
      BY <3>1
    <3>4. \A i \in 1 .. Len(q) : i \in 1 .. Len(c) /\ q[i] = c[i]
      BY <3>1, <3>2, <3>3
    <3>5. ASSUME NEW i \in 1 .. Len(q), q[i][1] # 0 PROVE q[i] \in ToSet(oWrote[s])
      <4>1. PICK j \in 1 .. Len(r) : r[j] = c[i]
        BY <3>2, <3>4, <3>5 DEF Matches, Holds
      <4>2. QED
        BY <3>2, <3>4, <4>1 DEF Within
    <3>6. ASSUME NEW i \in 1 .. Len(q), NEW j \in 1 .. Len(q), i < j, q[i][1] # 0, q[j][1] # 0
          PROVE  q[i][1] < q[j][1]
      BY <3>2, <3>4, <3>6 DEF Matches, ReadRises
    <3>7. QED
      BY <2>1, <3>3, <3>5, <3>6
  <2>4. CASE q = oShown[s].text /\ oAnswer \notin {"exited", "timeout"}
    <3>1. q = <<>>
      BY <2>4 DEF ShownIs, Command!Nothing, Stream
    <3>2. QED
      BY <3>1
  <2>5. QED
    BY <2>2, <2>3, <2>4
<1>5. QED
  BY <1>2, <1>3, <1>4 DEF Command!LogsAreTheAnswer, Command!InOrder

(***************************************************************************)
(* All parts.  A behaviour is about one of them, of which its invariant     *)
(* holds; the registry rests in its initial state.                          *)
(***************************************************************************)
ToolsInv ==
    /\ RegistryInv
    /\ part = "tasks" => TasksInv
    /\ part = "files" => FilesInv
    /\ part = "command" => CommandInv

(* Each part of the tools keeps its invariant in every behaviour.         *)
LEMMA ToolsKeep ==
    /\ ToolsInit => ToolsInv
    /\ ToolsInv /\ [ToolsNext]_toolsVars => ToolsInv'
<1>1. ASSUME ToolsInit PROVE ToolsInv
  <2>1. /\ Init /\ (part = "tasks" => Tasks!Init)
        /\ (part = "files" => Files!Init) /\ (part = "command" => Command!Init)
    BY <1>1 DEF ToolsInit, registryRests
  <2>2. QED
    BY <2>1, RegistryInit, TasksInit, FilesInit, CommandInit DEF ToolsInv
<1>2. ASSUME ToolsInv, [ToolsNext]_toolsVars PROVE ToolsInv'
  <2>1. /\ part' = part /\ (Next \/ UNCHANGED vars)
        /\ part = "tasks" => Tasks!Next \/ UNCHANGED tasksVars
        /\ part = "files" => Files!Next \/ UNCHANGED filesVars
        /\ part = "command" => Command!Next \/ UNCHANGED commandVars
    BY <1>2 DEF ToolsNext, RegistryStep, TasksStep, FilesStep, CommandStep, toolsVars, registryVars
  <2>2. RegistryInv'
    BY <1>2, <2>1, RegistryStepped, RegistryStays DEF ToolsInv
  <2>3. part = "tasks" => TasksInv'
    BY <1>2, <2>1, TasksStepped, TasksStay DEF ToolsInv
  <2>4. part = "files" => FilesInv'
    BY <1>2, <2>1, FilesStepped, FilesStay DEF ToolsInv
  <2>5. part = "command" => CommandInv'
    BY <1>2, <2>1, CommandStepped, CommandStays DEF ToolsInv
  <2>6. QED
    BY <2>1, <2>2, <2>3, <2>4, <2>5 DEF ToolsInv
<1>3. QED
  BY <1>1, <1>2

(* Each session has its own tools: it is offered none that another switched  *)
(* on, those it was offered run until it is deleted, and a deleted session   *)
(* leaves none (tool/registry.rs, application.rs).                          *)
THEOREM OwnToolsHold == ToolsSpec => []OwnTools
<1>1. RegistryInv => OwnTools
  BY DEF RegistryInv, RegistryTyped, OwnTools, Isolated, OfferedRuns, QuietRelease,
         OfferedTold, CallsOffered, Released
<1>2. ToolsInv => OwnTools
  BY <1>1 DEF ToolsInv
<1>3. QED
  BY <1>2, ToolsKeep, PTL DEF ToolsSpec

(* A tool a session was told is loaded is in its next request, and in each   *)
(* after it, of later turns too (tool_exec.rs, runtime.rs, registry.rs).     *)
THEOREM LoadedAreOffered == ToolsSpec => LoadedIsOffered
<1>1. ToolsInv /\ [ToolsNext]_toolsVars
         => [\A s \in rows : iteration'[s] > 0 /\ iteration'[s] # iteration[s]
                 => told[s] \subseteq view'[s]]_vars
  <2>1. [ToolsNext]_toolsVars => [Next]_vars
    BY DEF ToolsNext, RegistryStep, TasksStep, FilesStep, CommandStep, toolsVars, registryVars
  <2>2. QED
    BY <2>1, RegistryOffers DEF ToolsInv
<1>2. QED
  BY <1>1, ToolsKeep, PTL DEF ToolsSpec, LoadedIsOffered

(* Whoever blocks a task knows that it does, unless an update failed half    *)
(* way, and the client is told every status, in whatever order the calls     *)
(* send their events (tool/builtin/task.rs).                                *)
THEOREM TasksAlwaysAgree == ToolsSpec => []TasksAgree
<1>1. ToolsInv => TasksAgree
  BY TasksTold DEF ToolsInv, TasksAgree
<1>2. QED
  BY <1>1, ToolsKeep, PTL DEF ToolsSpec

(* No task starts that was said to wait for one which is not completed,      *)
(* whatever updates failed before (task.rs).                                *)
THEOREM TasksStartFree == ToolsSpec /\ [](part = "tasks") => Tasks!StartsFree
<1>1. ToolsInv /\ [ToolsNext]_toolsVars /\ part = "tasks"
         => [\A t \in Tasks!Task : tStatus'[t] = "in_progress" /\ tStatus[t] # "in_progress" =>
                \A w \in tWaits : w[1] # t]_(Tasks!vars)
  <2>1. [ToolsNext]_toolsVars => Tasks!Next \/ UNCHANGED Tasks!vars
    BY DEF ToolsNext, RegistryStep, TasksStep, FilesStep, CommandStep, toolsVars, tasksVars, Tasks!vars
  <2>2. QED
    BY <2>1, TasksStart DEF ToolsInv
<1>2. QED
  BY <1>1, ToolsKeep, PTL DEF ToolsSpec, Tasks!StartsFree

(* A file the turn found on the disk is written only when a Read of it has   *)
(* answered, has failed or is still at work, whatever calls run side by      *)
(* side; who reads a file page by page is shown every line in some state it  *)
(* had in the turn, and as it stands while no call has written the file; and *)
(* until then a repeat withholds only what was shown (read.rs, write.rs,     *)
(* edit.rs).                                                                *)
THEOREM FilesAreRead == ToolsSpec => []FilesRead
<1>1. ToolsInv => FilesRead
  <2>1. FilesInv => Files!UnreadUntouched
    BY DEF FilesInv, FilesTyped, Noted, Files!UnreadUntouched
  <2>2. QED
    BY <2>1 DEF ToolsInv, FilesRead, FilesInv
<1>2. QED
  BY <1>1, ToolsKeep, PTL DEF ToolsSpec

(* When a command has ended by itself, its answer has of each stream what    *)
(* was logged of it, from the first and up to its limit, and besides it only *)
(* the lines of read errors; log and answer hold what was written, in order  *)
(* and once, however the reads of the two pipes alternate or fail            *)
(* (bash/mod.rs).                                                           *)
THEOREM OutputIsTold == ToolsSpec => []OutputTold
<1>1. ToolsInv => OutputTold
  BY CommandTold DEF ToolsInv, OutputTold
<1>2. QED
  BY <1>1, ToolsKeep, PTL DEF ToolsSpec

(***************************************************************************)
(* The configuration.                                                      *)
(***************************************************************************)
Llm == [provider : Provider, model : LlmName, thinks : {"no", "budget", "both"}]
(* A configuration as the file holds it.                                  *)
RawConfig == Conf!RawAppConfig

(* None is not the name of a model.                                       *)
LEMMA NoneIsNoModel == Conf!None \notin LlmName
BY HostAssumption DEF Conf!ConfigurationAssumption

(* What a file lists as llms is a table of some models.                   *)
LEMMA LlmsShape ==
    /\ \A ls \in Conf!RawLlms : DOMAIN ls \subseteq LlmName /\ ls \in [DOMAIN ls -> Llm]
    /\ \A d \in SUBSET LlmName : \A ls \in [d -> Llm] : ls \in Conf!RawLlms
BY DEF Conf!RawLlms, Llm

(* The fields of a file, and a file with a field replaced by one of its kind. *)
LEMMA ConfigShape ==
    ASSUME NEW c \in RawConfig
    PROVE  /\ c.llms \in Conf!RawLlms /\ c.agents \in Seq(Conf!RawAgent) /\ c.trimmer \in Conf!RawTrimmer
           /\ c.providers \in SUBSET Provider
           /\ {c.defaults, c.knobs, c.tavily, c.key, c.elsewhere} \subseteq BOOLEAN
           /\ \A ls \in Conf!RawLlms, list \in Seq(Conf!RawAgent), t \in Conf!RawTrimmer, k \in BOOLEAN :
                [c EXCEPT !.llms = ls] \in RawConfig /\ [c EXCEPT !.agents = list] \in RawConfig
                /\ [c EXCEPT !.llms = ls, !.agents = list, !.trimmer = t] \in RawConfig
                /\ [c EXCEPT !.key = k] \in RawConfig /\ [c EXCEPT !.knobs = k] \in RawConfig
BY DEF RawConfig, Conf!RawAppConfig

(* The migrated trimmer is one section without the old history, and is settled. *)
LEMMA TrimmerMigrates ==
    ASSUME NEW t \in Conf!RawTrimmer
    PROVE  /\ Conf!MigrateTrimmer(t) \in Conf!RawTrimmer
           /\ Conf!MigrateTrimmer(t).section /\ Conf!MigrateTrimmer(t).history = 0
           /\ t.section /\ t.history = 0 => Conf!MigrateTrimmer(t) = t
<1> DEFINE Full == [section : {TRUE}, enabled : BOOLEAN, window : Nat, reserve : Nat, history : Nat]
<1>0. \A u \in Full : u \in Conf!RawTrimmer
  BY DEF Conf!RawTrimmer
<1>1. t.section \in BOOLEAN
  BY DEF Conf!RawTrimmer
<1>2. CASE ~t.section
  <2> DEFINE zero == [section |-> TRUE, enabled |-> FALSE, window |-> 0, reserve |-> 0, history |-> 0]
  <2>1. zero \in Full /\ zero.section /\ zero.history = 0
    OBVIOUS
  <2>2. Conf!MigrateTrimmer(t) = zero
    BY <1>2 DEF Conf!MigrateTrimmer
  <2>3. QED
    BY <1>0, <1>2, <2>1, <2>2
<1>3. CASE t.section
  <2>1. t \in Full
    BY <1>3 DEF Conf!RawTrimmer
  <2>2. CASE t.history # 0
    <3>1. Conf!MigrateTrimmer(t)
             = [t EXCEPT !.enabled = TRUE, !.window = t.history + t.reserve, !.history = 0]
      BY <1>3, <2>2 DEF Conf!MigrateTrimmer
    <3> DEFINE u == [t EXCEPT !.enabled = TRUE, !.window = t.history + t.reserve, !.history = 0]
    <3>2. t.history + t.reserve \in Nat
      BY <2>1
    <3>3. u \in Full
      BY <2>1, <3>2
    <3>4. u.section /\ u.history = 0
      BY <2>1, <1>3
    <3>5. QED
      BY <1>0, <2>2, <3>1, <3>3, <3>4
  <2>3. CASE t.history = 0
    <3>1. Conf!MigrateTrimmer(t) = t
      BY <1>3, <2>3 DEF Conf!MigrateTrimmer
    <3>2. QED
      BY <1>3, <2>3, <3>1
  <2>4. QED
    BY <2>2, <2>3
<1>4. QED
  BY <1>1, <1>2, <1>3

(* A migrated agent names a model and no template, and is settled.        *)
LEMMA AgentMigrates ==
    ASSUME NEW a \in Conf!RawAgent, NEW ls \in Conf!RawLlms
    PROVE  /\ Conf!MigrateAgent(a, ls) \in Conf!RawAgent
           /\ Conf!MigrateAgent(a, ls).template = Conf!None /\ Conf!MigrateAgent(a, ls).model # Conf!None
           /\ a.template = Conf!None /\ a.model # Conf!None => Conf!MigrateAgent(a, ls) = a
<1> DEFINE p == IF a.prompt = Conf!None THEN a.template ELSE a.prompt
           m == CASE a.model # Conf!None -> a.model
                  [] a.model = Conf!None /\ a.llm \in DOMAIN ls -> ls[a.llm].model
                  [] OTHER -> "default"
           Named == {Conf!None, "default"} \cup LlmName
<1>1. /\ a.id \in Conf!AgentId /\ a.provider \in Provider /\ a.llm \in LlmName
      /\ a.prompt \in Conf!Prompt /\ a.template \in Conf!Prompt /\ a.model \in Named
      /\ a = [id |-> a.id, provider |-> a.provider, llm |-> a.llm, prompt |-> a.prompt,
              template |-> a.template, model |-> a.model]
  BY DEF Conf!RawAgent
<1>2. p \in Conf!Prompt
  BY <1>1
<1>3. m \in Named /\ m # Conf!None /\ (a.model # Conf!None => m = a.model)
  <2>1. CASE a.model # Conf!None
    <3>1. m = a.model
      BY <2>1
    <3>2. QED
      BY <1>1, <2>1, <3>1
  <2>2. CASE a.model = Conf!None /\ a.llm \in DOMAIN ls
    <3>1. m = ls[a.llm].model
      BY <2>2
    <3>2. ls[a.llm].model \in LlmName
      BY <2>2, LlmsShape DEF Llm
    <3>3. QED
      BY <2>2, <3>1, <3>2, NoneIsNoModel DEF Conf!None
  <2>3. CASE a.model = Conf!None /\ a.llm \notin DOMAIN ls
    <3>1. m = "default"
      BY <2>3
    <3>2. QED
      BY <2>3, <3>1 DEF Conf!None
  <2>4. QED
    BY <2>1, <2>2, <2>3
<1>4. Conf!MigrateAgent(a, ls) = [a EXCEPT !.prompt = p, !.template = Conf!None, !.model = m]
  BY DEF Conf!MigrateAgent
<1>5. Conf!None \in Conf!Prompt \ {"both"}
  BY DEF Conf!None, Conf!Prompt
<1> HIDE DEF p, m
<1>6. [a EXCEPT !.prompt = p, !.template = Conf!None, !.model = m] \in Conf!RawAgent
  BY <1>1, <1>2, <1>3, <1>5 DEF Conf!RawAgent
<1>7. /\ Conf!MigrateAgent(a, ls).template = Conf!None /\ Conf!MigrateAgent(a, ls).model # Conf!None
  BY <1>3, <1>4, <1>1
<1>8. ASSUME a.template = Conf!None, a.model # Conf!None PROVE Conf!MigrateAgent(a, ls) = a
  <2>1. p = a.prompt
    BY <1>8 DEF p
  <2>2. m = a.model
    BY <1>3, <1>8
  <2>3. QED
    BY <1>1, <1>4, <1>8, <2>1, <2>2
<1>9. QED
  BY <1>4, <1>6, <1>7, <1>8


(* An AppConfig that serves: it has agents.                                *)
Fine == {c \in Conf!AppConfig : c.agents # <<>>}

(* A migrated model thinks in one way, and is settled.                    *)
LEMMA ModelMigrates ==
    ASSUME NEW l \in Llm
    PROVE  /\ Conf!Model(l) \in Llm /\ Conf!Model(l).thinks # "both"
           /\ l.thinks # "both" => Conf!Model(l) = l
<1>1. CASE l.thinks = "both"
  <2>1. Conf!Model(l) = [l EXCEPT !.thinks = "budget"]
    BY <1>1 DEF Conf!Model
  <2>2. QED
    BY <1>1, <2>1 DEF Llm
<1>2. CASE l.thinks # "both"
  BY <1>2 DEF Conf!Model, Llm
<1>3. QED
  BY <1>1, <1>2

(* A configuration that is migrated has nothing of an old form left; one    *)
(* that has nothing of it is not changed.                                   *)
LEMMA Migrates ==
    ASSUME NEW c \in RawConfig
    PROVE  /\ Conf!Migrate(c) \in RawConfig
           /\ Conf!Migrate(c).defaults = c.defaults
           /\ ~c.defaults => Conf!Migrate(c) \in Conf!AppConfig
           /\ c \in Conf!AppConfig => Conf!Migrate(c) = c
<1> DEFINE ls == [l \in DOMAIN c.llms |-> Conf!Model(c.llms[l])]
           list == [i \in DOMAIN c.agents |-> Conf!MigrateAgent(c.agents[i], ls)]
           t  == Conf!MigrateTrimmer(c.trimmer)
           m  == [c EXCEPT !.llms = ls, !.agents = list, !.trimmer = t]
<1>1. /\ c.llms \in Conf!RawLlms /\ c.agents \in Seq(Conf!RawAgent) /\ c.trimmer \in Conf!RawTrimmer
      /\ DOMAIN c.llms \subseteq LlmName /\ c.llms \in [DOMAIN c.llms -> Llm]
  BY ConfigShape, LlmsShape
<1>2. Conf!Migrate(c) = m
  BY DEF Conf!Migrate
<1>3. /\ ls \in [DOMAIN c.llms -> Llm]
      /\ \A l \in DOMAIN ls : ls[l].thinks # "both"
      /\ (\A l \in DOMAIN c.llms : c.llms[l].thinks # "both") => ls = c.llms
  <2>1. \A l \in DOMAIN c.llms : /\ Conf!Model(c.llms[l]) \in Llm /\ Conf!Model(c.llms[l]).thinks # "both"
                                 /\ c.llms[l].thinks # "both" => Conf!Model(c.llms[l]) = c.llms[l]
    BY <1>1, ModelMigrates
  <2>2. QED
    BY <1>1, <2>1
<1>4. ls \in Conf!RawLlms
  BY <1>1, <1>3, LlmsShape
<1>5. /\ list \in Seq(Conf!RawAgent) /\ DOMAIN list = DOMAIN c.agents /\ Len(list) = Len(c.agents)
      /\ \A i \in DOMAIN list : list[i].template = Conf!None /\ list[i].model # Conf!None
      /\ (\A i \in DOMAIN c.agents : c.agents[i].template = Conf!None /\ c.agents[i].model # Conf!None)
         => list = c.agents
  <2> HIDE DEF ls
  <2>1. \A i \in DOMAIN c.agents :
           /\ Conf!MigrateAgent(c.agents[i], ls) \in Conf!RawAgent
           /\ Conf!MigrateAgent(c.agents[i], ls).template = Conf!None
           /\ Conf!MigrateAgent(c.agents[i], ls).model # Conf!None
           /\ c.agents[i].template = Conf!None /\ c.agents[i].model # Conf!None
              => Conf!MigrateAgent(c.agents[i], ls) = c.agents[i]
    <3>1. \A i \in DOMAIN c.agents : c.agents[i] \in Conf!RawAgent
      BY <1>1
    <3>2. QED
      BY <3>1, <1>4, AgentMigrates
  <2>2. DOMAIN c.agents = 1..Len(c.agents) /\ Len(c.agents) \in Nat
    BY <1>1
  <2>3. list \in [1..Len(c.agents) -> Conf!RawAgent]
    BY <2>1, <2>2
  <2>4. list \in Seq(Conf!RawAgent) /\ Len(list) = Len(c.agents)
    BY <2>2, <2>3
  <2>5. c.agents = [i \in DOMAIN c.agents |-> c.agents[i]]
    BY <1>1
  <2>6. QED
    BY <2>1, <2>2, <2>4, <2>5
<1>6. t \in Conf!RawTrimmer /\ t.section /\ t.history = 0
      /\ (c.trimmer.section /\ c.trimmer.history = 0 => t = c.trimmer)
  BY <1>1, TrimmerMigrates
<1> HIDE DEF ls, list, t
<1>7. m \in RawConfig /\ m.llms = ls /\ m.agents = list /\ m.trimmer = t /\ m.defaults = c.defaults
  <2>1. m \in RawConfig
    BY <1>4, <1>5, <1>6, ConfigShape
  <2>2. QED
    BY <2>1 DEF RawConfig, Conf!RawAppConfig
<1>8. ASSUME ~c.defaults PROVE m \in Conf!AppConfig
  <2>1. \A a \in Conf!ToSet(list) : a.template = Conf!None /\ a.model # Conf!None
    BY <1>5 DEF Conf!ToSet
  <2>2. QED
    BY <1>3, <1>6, <1>7, <1>8, <2>1 DEF Conf!AppConfig, RawConfig, Conf!ToSet
<1>9. ASSUME c \in Conf!AppConfig PROVE m = c
  <2>1. \A i \in DOMAIN c.agents : c.agents[i] \in Conf!ToSet(c.agents)
    BY DEF Conf!ToSet
  <2>2. list = c.agents
    BY <1>5, <1>9, <2>1 DEF Conf!AppConfig
  <2>3. ls = c.llms /\ t = c.trimmer
    BY <1>3, <1>6, <1>9 DEF Conf!AppConfig
  <2>4. QED
    BY <2>2, <2>3 DEF RawConfig, Conf!RawAppConfig
<1>10. QED
  BY <1>2, <1>7, <1>8, <1>9


(* The key of the environment changes nothing else.                         *)
LEMMA Enriched ==
    ASSUME NEW c \in RawConfig, cEnv \in BOOLEAN
    PROVE  /\ Conf!WithEnv(c) \in RawConfig
           /\ c \in Conf!AppConfig => Conf!WithEnv(c) \in Conf!AppConfig
           /\ Conf!WithEnv(c).agents = c.agents /\ Conf!WithEnv(c).defaults = c.defaults
           /\ cEnv => Conf!WithEnv(c).key
           /\ (cEnv => c.key) => Conf!WithEnv(c) = c
<1> DEFINE k == c.key \/ cEnv
           e == [c EXCEPT !.key = k]
<1>1. Conf!WithEnv(c) = e
  BY DEF Conf!WithEnv
<1>2. c.key \in BOOLEAN /\ k \in BOOLEAN
  BY ConfigShape
<1>3. (cEnv => k) /\ ((cEnv => c.key) => k = c.key)
  BY <1>2
<1> HIDE DEF k
<1>4. e \in RawConfig
  BY <1>2, ConfigShape
<1>5. /\ e.agents = c.agents /\ e.defaults = c.defaults /\ e.llms = c.llms /\ e.trimmer = c.trimmer
      /\ e.key = k
  BY DEF RawConfig, Conf!RawAppConfig
<1>6. c \in Conf!AppConfig => e \in Conf!AppConfig
  BY <1>4, <1>5 DEF Conf!AppConfig, RawConfig
<1>7. k = c.key => e = c
  BY DEF RawConfig, Conf!RawAppConfig
<1>8. QED
  BY <1>1, <1>3, <1>4, <1>5, <1>6, <1>7

(* What is loaded is a file that needs no defaults.                       *)
LEMMA AppIsRaw == \A c \in Conf!AppConfig : c \in RawConfig /\ ~c.defaults
BY DEF Conf!AppConfig, RawConfig

(* A file that can be read is neither the torn one nor none.              *)
LEMMA NotTorn == \A c \in RawConfig : c # Conf!Torn /\ c # Conf!NoConfig
<1>1. \A c \in RawConfig : DOMAIN c # {"torn"} /\ DOMAIN c # {"none"}
  BY DEF RawConfig, Conf!RawAppConfig
<1>2. DOMAIN Conf!Torn = {"torn"} /\ DOMAIN Conf!NoConfig = {"none"}
  BY DEF Conf!Torn, Conf!NoConfig
<1>3. QED
  BY <1>1, <1>2

(* What a file loads as has agents and can be started.                      *)
LEMMA LoadedBoots ==
    ASSUME NEW raw \in RawConfig \cup {Conf!Torn}, Conf!Loads(raw), cEnv \in BOOLEAN
    PROVE  /\ Conf!Loaded(raw) \in Fine /\ Conf!Builds(Conf!Loaded(raw)) /\ Conf!Valid(Conf!Loaded(raw))
           /\ cEnv => Conf!Loaded(raw).key
<1> DEFINE c == Conf!Loaded(raw)
<1>1. raw \in RawConfig /\ ~raw.defaults /\ Conf!Valid(c)
  BY DEF Conf!Loads
<1>2. c \in Conf!AppConfig /\ (cEnv => c.key)
  <2>1. Conf!Migrate(raw) \in Conf!AppConfig /\ Conf!Migrate(raw) \in RawConfig
    BY <1>1, Migrates
  <2>2. QED
    BY <2>1, Enriched DEF Conf!Loaded
<1> HIDE DEF c
<1>3. c.agents # <<>>
  BY <1>1 DEF Conf!Valid, Conf!AgentsValid
<1>4. ASSUME NEW a \in Conf!ToSet(c.agents) PROVE Conf!Named(c, a.provider, a.llm) # Conf!Failed
  <2>1. a.provider \in c.providers /\ a.llm \in DOMAIN c.llms /\ c.llms[a.llm].provider = a.provider
    BY <1>1 DEF Conf!Valid, Conf!AgentsValid
  <2>2. Conf!Named(c, a.provider, a.llm)
          = [llm |-> a.llm, provider |-> a.provider, model |-> c.llms[a.llm].model,
             thinks |-> c.llms[a.llm].thinks]
    BY <2>1 DEF Conf!Named
  <2>3. a.llm \in LlmName
    BY <1>2, <2>1, AppIsRaw, ConfigShape, LlmsShape
  <2>4. Conf!Named(c, a.provider, a.llm).llm # Conf!Failed.llm
    BY <2>2, <2>3, NoneIsNoModel DEF Conf!Failed
  <2>5. QED
    BY <2>4
<1>5. QED
  BY <1>1, <1>2, <1>3, <1>4 DEF Fine, Conf!Builds, c

(* A valid configuration without old forms, and with the key, is read back  *)
(* as it is.                                                                *)
LEMMA ReadsBack ==
    ASSUME NEW c \in Fine, Conf!Valid(c), cEnv \in BOOLEAN, cEnv => c.key
    PROVE  Conf!Loads(Conf!Written(c)) /\ Conf!Loaded(Conf!Written(c)) = c
<1>1. c \in Conf!AppConfig /\ c \in RawConfig /\ ~c.defaults /\ c # Conf!Torn
  BY AppIsRaw, NotTorn DEF Fine
<1>2. Conf!Loaded(c) = c
  BY <1>1, Migrates, Enriched DEF Conf!Loaded
<1>3. QED
  BY <1>1, <1>2 DEF Conf!Loads, Conf!Written

(* A client changes a configuration within its form.                        *)
LEMMA EditsFine ==
    ASSUME NEW c \in Fine, NEW e \in Conf!Edits(c)
    PROVE  e \in Fine
<1>1. c \in Conf!AppConfig /\ c.agents # <<>> /\ c \in RawConfig
  BY AppIsRaw DEF Fine
<1>2. /\ c.agents \in Seq(Conf!RawAgent) /\ 1 \in DOMAIN c.agents /\ c.llms \in Conf!RawLlms
      /\ DOMAIN c.llms \subseteq LlmName /\ c.llms \in [DOMAIN c.llms -> Llm]
  <2>1. c.agents \in Seq(Conf!RawAgent) /\ c.llms \in Conf!RawLlms
    BY <1>1, ConfigShape
  <2>2. \A list \in Seq(Conf!RawAgent) : list # <<>> => 1 \in DOMAIN list
    <3>1. ASSUME NEW list \in Seq(Conf!RawAgent), list # <<>> PROVE 1 \in DOMAIN list
      <4>1. Len(list) \in Nat \ {0}
        BY <3>1, EmptySeq
      <4>2. DOMAIN list = 1..Len(list)
        BY <3>1, LenProperties
      <4>3. 1 \in 1..Len(list)
        BY <4>1
      <4>4. QED
        BY <4>2, <4>3
    <3>2. QED
      BY <3>1
  <2>3. DOMAIN c.llms \subseteq LlmName /\ c.llms \in [DOMAIN c.llms -> Llm]
    BY <2>1, LlmsShape
  <2>4. QED
    BY <1>1, <2>1, <2>2, <2>3
<1>3. CASE \E l \in LlmName : e = [c EXCEPT !.agents[1].llm = l]
  <2>1. PICK l \in LlmName : e = [c EXCEPT !.agents[1].llm = l]
    BY <1>3
  <2> DEFINE list == [c.agents EXCEPT ![1].llm = l]
             e0 == [c EXCEPT !.agents = list]
  <2>2. e = e0
    BY <2>1
  <2>3. c.agents[1] \in Conf!RawAgent
    BY <1>2
  <2>4. /\ [c.agents[1] EXCEPT !.llm = l] \in Conf!RawAgent
        /\ [c.agents[1] EXCEPT !.llm = l].template = c.agents[1].template
        /\ [c.agents[1] EXCEPT !.llm = l].model = c.agents[1].model
    BY <2>3 DEF Conf!RawAgent
  <2>5. /\ list \in Seq(Conf!RawAgent) /\ DOMAIN list = DOMAIN c.agents /\ list # <<>>
        /\ \A i \in DOMAIN list : list[i].template = c.agents[i].template /\ list[i].model = c.agents[i].model
    <3>1. list = [c.agents EXCEPT ![1] = [c.agents[1] EXCEPT !.llm = l]]
      OBVIOUS
    <3> HIDE DEF list
    <3>2. list \in Seq(Conf!RawAgent) /\ DOMAIN list = DOMAIN c.agents /\ list # <<>>
      BY <1>1, <1>2, <2>4, <3>1
    <3>3. QED
      BY <1>2, <2>4, <3>1, <3>2
  <2> HIDE DEF list
  <2>6. e0 \in RawConfig
    BY <1>1, <2>5, ConfigShape
  <2>7. /\ e0.agents = list /\ e0.llms = c.llms /\ e0.trimmer = c.trimmer /\ e0.defaults = c.defaults
    BY <1>1 DEF RawConfig, Conf!RawAppConfig
  <2>8. \A a \in Conf!ToSet(list) : a.template = Conf!None /\ a.model # Conf!None
    <3>1. \A a \in Conf!ToSet(c.agents) : a.template = Conf!None /\ a.model # Conf!None
      BY <1>1 DEF Conf!AppConfig
    <3>2. \A i \in DOMAIN c.agents : c.agents[i].template = Conf!None /\ c.agents[i].model # Conf!None
      BY <3>1 DEF Conf!ToSet
    <3>3. \A i \in DOMAIN list : list[i].template = Conf!None /\ list[i].model # Conf!None
      BY <2>5, <3>2
    <3>4. QED
      BY <3>3 DEF Conf!ToSet
  <2>9. QED
    BY <1>1, <2>2, <2>5, <2>6, <2>7, <2>8 DEF Fine, Conf!AppConfig, RawConfig
<1>4. CASE \E l \in DOMAIN c.llms, n \in LlmName : e = [c EXCEPT !.llms[l].model = n]
  <2>1. PICK l \in DOMAIN c.llms, n \in LlmName : e = [c EXCEPT !.llms[l].model = n]
    BY <1>4
  <2> DEFINE ls == [c.llms EXCEPT ![l].model = n]
             e0 == [c EXCEPT !.llms = ls]
  <2>2. e = e0
    BY <2>1
  <2>3. /\ [c.llms[l] EXCEPT !.model = n] \in Llm
        /\ [c.llms[l] EXCEPT !.model = n].thinks = c.llms[l].thinks
    BY <1>2 DEF Llm
  <2>4. /\ ls \in [DOMAIN c.llms -> Llm] /\ DOMAIN ls = DOMAIN c.llms
        /\ \A x \in DOMAIN ls : ls[x].thinks = c.llms[x].thinks
    <3>1. ls = [c.llms EXCEPT ![l] = [c.llms[l] EXCEPT !.model = n]]
      OBVIOUS
    <3> HIDE DEF ls
    <3>2. QED
      BY <1>2, <2>3, <3>1
  <2>5. ls \in Conf!RawLlms
    BY <1>2, <2>4, LlmsShape
  <2> HIDE DEF ls
  <2>6. e0 \in RawConfig
    <3>1. [c EXCEPT !.llms = ls] \in RawConfig
      BY <1>1, <2>5 DEF RawConfig, Conf!RawAppConfig
    <3>2. QED
      BY <3>1
  <2>7. /\ e0.agents = c.agents /\ e0.llms = ls /\ e0.trimmer = c.trimmer /\ e0.defaults = c.defaults
    BY <1>1 DEF RawConfig, Conf!RawAppConfig
  <2>8. /\ ~c.defaults /\ c.trimmer.section /\ c.trimmer.history = 0
        /\ \A x \in DOMAIN c.llms : c.llms[x].thinks # "both"
        /\ \A a \in Conf!ToSet(c.agents) : a.template = Conf!None /\ a.model # Conf!None
    BY <1>1 DEF Conf!AppConfig
  <2>9. \A x \in DOMAIN ls : ls[x].thinks # "both"
    BY <2>4, <2>8
  <2>10. e0 \in Conf!AppConfig
    <3>1. /\ ~e0.defaults /\ e0.trimmer.section /\ e0.trimmer.history = 0
          /\ \A x \in DOMAIN e0.llms : e0.llms[x].thinks # "both"
      BY <2>7, <2>8, <2>9
    <3>2. \A a \in Conf!ToSet(e0.agents) : a.template = Conf!None /\ a.model # Conf!None
      BY <2>7, <2>8
    <3> HIDE DEF e0
    <3>3. QED
      BY <2>6, <3>1, <3>2 DEF Conf!AppConfig, RawConfig
  <2>11. QED
    BY <1>1, <2>2, <2>7, <2>10 DEF Fine
<1>5. CASE e = [c EXCEPT !.knobs = FALSE]
  <2>1. e \in RawConfig
    BY <1>1, <1>5, ConfigShape
  <2>2. /\ e.agents = c.agents /\ e.llms = c.llms /\ e.trimmer = c.trimmer /\ e.defaults = c.defaults
    BY <1>1, <1>5 DEF RawConfig, Conf!RawAppConfig
  <2>3. QED
    BY <1>1, <2>1, <2>2 DEF Fine, Conf!AppConfig, RawConfig
<1>6. QED
  BY <1>3, <1>4, <1>5 DEF Conf!Edits


(* What the file holds can be loaded or is torn; a client has what it was   *)
(* given, changed within its form; what runs was found valid and was not    *)
(* changed since.                                                           *)
Aware == [step : {"idle", "fill", "store"}, sees : Fine \cup {Conf!NoConfig}, asks : Fine \cup {Conf!NoConfig}]
(* What the configuration in memory, on disk and at a client keeps.       *)
ConfigurationInv ==
    /\ cEnv \in BOOLEAN /\ cPhase \in {"down", "up"} /\ cFile \in RawConfig \cup {Conf!Torn}
    /\ cClient \in [Client -> Aware]
    /\ \A c \in Client : cClient[c].step # "idle" => cClient[c].asks \in Fine
    /\ cPhase = "up" => cConfig \in Fine /\ Conf!Valid(cConfig) /\ (cEnv => cConfig.key)

(* The process begins with it.                                            *)
LEMMA ConfigurationInit == ASSUME Conf!Init PROVE ConfigurationInv
<1>1. cFile \in RawConfig
  BY HostAssumption DEF Conf!ConfigurationAssumption, Conf!Init, RawConfig
<1>2. Conf!Idle \in Aware
  BY DEF Conf!Idle, Aware
<1>3. cClient = [c \in Client |-> Conf!Idle] /\ Conf!Idle.step = "idle"
  BY DEF Conf!Init, Conf!Idle
<1>4. cEnv \in BOOLEAN /\ cPhase = "down"
  BY DEF Conf!Init
<1>5. QED
  BY <1>1, <1>2, <1>3, <1>4 DEF ConfigurationInv

(* A client that fills in its changed form keeps the shape of a client. *)
LEMMA Asking ==
    ASSUME NEW S, NEW N, NEW x \in S,
           NEW a \in [step : {"idle", "fill", "store"}, sees : S \cup {N}, asks : S \cup {N}]
    PROVE  /\ [a EXCEPT !.step = "fill", !.asks = x]
                \in [step : {"idle", "fill", "store"}, sees : S \cup {N}, asks : S \cup {N}]
           /\ [a EXCEPT !.step = "fill", !.asks = x].asks = x
BY Zenon

(* A step of another side keeps it.                                       *)
LEMMA ConfigurationStays ==
    ASSUME ConfigurationInv, UNCHANGED <<cEnv, cFile, cPhase, cConfig, cClient>>
    PROVE  ConfigurationInv'
BY DEF ConfigurationInv

(* Every step of the configuration keeps it.                              *)
LEMMA ConfigurationStepped == ASSUME ConfigurationInv, Conf!Next PROVE ConfigurationInv'
<1> USE DEF ConfigurationInv
<1>1. CASE Conf!Start
  <2>1. /\ cPhase = "down" /\ Conf!Loads(cFile) /\ cConfig' = Conf!Loaded(cFile)
        /\ cPhase' = IF Conf!Builds(Conf!Loaded(cFile)) THEN "up" ELSE "crashed"
        /\ UNCHANGED <<cEnv, cFile, cClient>>
    BY <1>1 DEF Conf!Start, Conf!Build
  <2>2. /\ Conf!Loaded(cFile) \in Fine /\ Conf!Builds(Conf!Loaded(cFile)) /\ Conf!Valid(Conf!Loaded(cFile))
        /\ cEnv => Conf!Loaded(cFile).key
    BY <2>1, LoadedBoots
  <2>3. cPhase' = "up" /\ cConfig' \in Fine /\ (cEnv => cConfig'.key)
    BY <2>1, <2>2
  <2>4. Conf!Valid(cConfig)'
    BY <2>1, <2>2 DEF Conf!Valid, Conf!AgentsValid
  <2>5. QED
    BY <2>1, <2>3, <2>4
<1>2. CASE Conf!Stop
  <2>1. /\ cPhase' = "down" /\ cClient' = [c \in Client |-> Conf!Idle] /\ UNCHANGED <<cEnv, cFile>>
    BY <1>2 DEF Conf!Stop
  <2>2. Conf!Idle \in Aware /\ Conf!Idle.step = "idle"
    BY DEF Conf!Idle, Aware
  <2>3. QED
    BY <2>1, <2>2
<1>3. CASE Conf!Override \/ Conf!Turn
  BY <1>3, ConfigurationStays DEF Conf!Override, Conf!Turn
<1>4. ASSUME NEW c \in Client, Conf!GetConfig(c) PROVE ConfigurationInv'
  <2>1. /\ cPhase = "up" /\ cClient[c].step = "idle" /\ cClient' = [cClient EXCEPT ![c].sees = cConfig]
        /\ UNCHANGED <<cEnv, cFile, cPhase, cConfig>>
    BY <1>4 DEF Conf!GetConfig
  <2> DEFINE k == [cClient[c] EXCEPT !.sees = cConfig]
  <2>2. cClient' = [cClient EXCEPT ![c] = k]
    BY <2>1
  <2>3. k \in Aware /\ k.step = "idle"
    BY <2>1 DEF Aware
  <2> HIDE DEF k
  <2>4. cClient' \in [Client -> Aware]
    BY <2>2, <2>3
  <2>5. \A d \in Client : cClient'[d].step # "idle" => cClient'[d].asks \in Fine
    BY <2>2, <2>3
  <2>6. Conf!Valid(cConfig)' <=> Conf!Valid(cConfig)
    BY <2>1 DEF Conf!Valid, Conf!AgentsValid
  <2>7. QED
    BY <2>1, <2>4, <2>5, <2>6
<1>5. ASSUME NEW c \in Client, Conf!Update(c) PROVE ConfigurationInv'
  <2>1. /\ cPhase = "up" /\ cClient[c].step = "idle" /\ cClient[c].sees # Conf!NoConfig
        /\ \E asks \in Conf!Edits(cClient[c].sees) :
              cClient' = [cClient EXCEPT ![c].step = "fill", ![c].asks = asks]
        /\ cFile' = cFile \/ cFile' = Conf!Torn
        /\ UNCHANGED <<cEnv, cPhase, cConfig>>
    BY <1>5 DEF Conf!Update
  <2>2. PICK asks \in Conf!Edits(cClient[c].sees) :
              cClient' = [cClient EXCEPT ![c].step = "fill", ![c].asks = asks]
    BY <2>1
  <2>3. cClient[c] \in Aware /\ cClient[c].sees \in Fine
    BY <2>1 DEF Aware
  <2>4. asks \in Fine
    BY <2>3, EditsFine
  <2> DEFINE k == [cClient[c] EXCEPT !.step = "fill", !.asks = asks]
  <2>5. cClient' = [cClient EXCEPT ![c] = k]
    BY <2>2
  <2>6. k \in Aware /\ k.asks \in Fine
    BY <2>3, <2>4, Asking, Zenon DEF Aware
  <2> HIDE DEF k
  <2>7. cClient' \in [Client -> Aware]
    BY <2>5, <2>6
  <2>8. \A d \in Client : cClient'[d].step # "idle" => cClient'[d].asks \in Fine
    BY <2>5, <2>6
  <2>9. Conf!Valid(cConfig)' <=> Conf!Valid(cConfig)
    BY <2>1 DEF Conf!Valid, Conf!AgentsValid
  <2>10. QED
    BY <2>1, <2>7, <2>8, <2>9
<1>6. ASSUME NEW c \in Client, Conf!Fill(c) \/ Conf!WriteFails(c) \/ Conf!Store(c) PROVE ConfigurationInv'
  <2>1. /\ cPhase = "up" /\ cClient[c].step # "idle"
        /\ \E step \in {"idle", "store"} : cClient' = [cClient EXCEPT ![c].step = step]
        /\ cFile' = cFile \/ cFile' = Conf!Torn \/ cFile' = cClient[c].asks
        /\ UNCHANGED <<cEnv, cPhase, cConfig>>
    BY <1>6 DEF Conf!Fill, Conf!WriteFails, Conf!Store, Conf!Written
  <2>2. cClient[c] \in Aware /\ cClient[c].asks \in Fine /\ cClient[c].asks \in RawConfig
    <3>1. cClient[c] \in Aware /\ cClient[c].asks \in Fine
      BY <2>1
    <3>2. QED
      BY <3>1, AppIsRaw DEF Fine
  <2>3. PICK step \in {"idle", "store"} : cClient' = [cClient EXCEPT ![c].step = step]
    BY <2>1
  <2> DEFINE k == [cClient[c] EXCEPT !.step = step]
  <2>4. cClient' = [cClient EXCEPT ![c] = k]
    BY <2>3
  <2>5. k \in Aware /\ k.asks \in Fine
    BY <2>2 DEF Aware
  <2> HIDE DEF k
  <2>6. cClient' \in [Client -> Aware]
    BY <2>4, <2>5
  <2>7. \A d \in Client : cClient'[d].step # "idle" => cClient'[d].asks \in Fine
    BY <2>4, <2>5
  <2>8. Conf!Valid(cConfig)' <=> Conf!Valid(cConfig)
    BY <2>1 DEF Conf!Valid, Conf!AgentsValid
  <2>9. QED
    BY <2>1, <2>2, <2>6, <2>7, <2>8
<1>7. QED
  BY <1>1, <1>2, <1>3, <1>4, <1>5, <1>6 DEF Conf!Next

(* It implies that what is written boots.                                 *)
LEMMA ConfigurationBoots == ASSUME ConfigurationInv PROVE Conf!ValidBoots /\ Conf!StaysPut
<1>1. Conf!ValidBoots
  BY DEF ConfigurationInv, Conf!ValidBoots
<1>2. ASSUME cPhase = "up"
      PROVE  /\ cConfig \in Conf!AppConfig /\ Conf!Loads(Conf!Written(cConfig))
             /\ Conf!Loaded(Conf!Written(cConfig)) = cConfig
  <2>1. cConfig \in Fine /\ Conf!Valid(cConfig) /\ (cEnv => cConfig.key) /\ cEnv \in BOOLEAN
    BY <1>2 DEF ConfigurationInv
  <2>2. QED
    BY <2>1, ReadsBack DEF Fine
<1>3. QED
  BY <1>1, <1>2 DEF Conf!StaysPut

(* Every way to resolve a turn's model checks whose the llm is.             *)
LEMMA ProviderChecked ==
    ASSUME NEW c, NEW base, NEW provider, NEW name,
           base = Conf!Failed \/ "llm" \in DOMAIN base,
           Conf!Overridden(c, base, provider, name).llm # Conf!None
    PROVE  c.llms[Conf!Overridden(c, base, provider, name).llm].provider
             = Conf!Overridden(c, base, provider, name).provider
<1> DEFINE o == Conf!Overridden(c, base, provider, name)
<1>1. "llm" \in DOMAIN base
  BY DEF Conf!Failed
<1>2. Conf!Failed.llm = Conf!None
  BY DEF Conf!Failed
<1>3. CASE name \in DOMAIN c.llms
  <2>1. o = Conf!Named(c, provider, name)
    BY <1>3 DEF Conf!Overridden
  <2>2. CASE provider \in c.providers /\ name \in DOMAIN c.llms /\ c.llms[name].provider = provider
    <3>1. o = [llm |-> name, provider |-> provider, model |-> c.llms[name].model,
               thinks |-> c.llms[name].thinks]
      BY <2>1, <2>2 DEF Conf!Named
    <3>2. o.llm = name /\ o.provider = provider
      BY <3>1
    <3>3. QED
      BY <2>2, <3>2
  <2>3. CASE ~(provider \in c.providers /\ name \in DOMAIN c.llms /\ c.llms[name].provider = provider)
    BY <1>2, <2>1, <2>3 DEF Conf!Named
  <2>4. QED
    BY <2>2, <2>3
<1>4. CASE name \notin DOMAIN c.llms
  <2>1. CASE provider \in c.providers
    <3>1. o = [base EXCEPT !.llm = Conf!None, !.provider = provider, !.model = name]
      BY <1>4, <2>1 DEF Conf!Overridden
    <3>2. o.llm = Conf!None
      BY <1>1, <3>1
    <3>3. QED
      BY <3>2
  <2>2. CASE provider \notin c.providers
    BY <1>2, <1>4, <2>2 DEF Conf!Overridden
  <2>3. QED
    BY <2>1, <2>2
<1>5. QED
  BY <1>3, <1>4

(* A turn that runs does so with the provider of its model.               *)
LEMMA ProviderOwns == ASSUME Conf!Next, cRan' # cRan, cRan'.llm # Conf!None
                      PROVE  cConfig.llms[cRan'.llm].provider = cRan'.provider
<1>1. Conf!Turn
  BY DEF Conf!Next, Conf!Start, Conf!Stop, Conf!Override, Conf!GetConfig, Conf!Update, Conf!Fill,
         Conf!WriteFails, Conf!Store
<1>2. cRan' = IF Conf!Base = Conf!Failed THEN Conf!Failed
              ELSE Conf!Overridden(cConfig, Conf!Base, Conf!Execution[1], Conf!Execution[2])
  BY <1>1 DEF Conf!Turn
<1>3. Conf!Failed.llm = Conf!None
  BY DEF Conf!Failed
<1>4. Conf!Base # Conf!Failed
        /\ cRan' = Conf!Overridden(cConfig, Conf!Base, Conf!Execution[1], Conf!Execution[2])
  BY <1>2, <1>3
<1>5. "llm" \in DOMAIN Conf!Base
  <2>1. \A l, p, m, t : "llm" \in DOMAIN [llm |-> l, provider |-> p, model |-> m, thinks |-> t]
    OBVIOUS
  <2>2. \A c, p, l : Conf!Named(c, p, l) # Conf!Failed => "llm" \in DOMAIN Conf!Named(c, p, l)
    BY <2>1 DEF Conf!Named
  <2>3. Conf!Base = Conf!Failed
        \/ \E p, l : Conf!Base = Conf!Named(cConfig, p, l)
    BY DEF Conf!Base, Conf!BindingById
  <2>4. QED
    BY <1>4, <2>2, <2>3
<1>6. QED
  BY <1>4, <1>5, ProviderChecked

(***************************************************************************)
(* The migrations.                                                         *)
(***************************************************************************)
MigrationTyped ==
    /\ mColumns = [t \in Store!Table |-> mColumns[t]]
    /\ mRows \in [Store!Table -> SUBSET Store!Row]
    /\ mPhase \in {"down", "create", "migrate", "up", "failed"}
    /\ mAt \in Nat /\ mAdding \in BOOLEAN /\ mStored \in Nat
    /\ mHad \in [Store!Table -> SUBSET Nat]

(* Every table that is there has the form of some version.                   *)
Formed == \A t \in Store!Table : mColumns[t] = {} \/ Store!Form(t, mColumns[t])
(* Every table is there.                                                  *)
Everywhere == \A t \in Store!Table : mColumns[t] # {}
(* What the first n migrations have seen to.                                 *)
Ready(n) ==
    /\ n >= 1 => "runtime_control" \in mColumns["sessions"]
    /\ n >= 2 => "created_at" \in mColumns["messages"]
    /\ n >= 4 => "message_id" \in mColumns["messages"]
    /\ n >= 5 => "metadata" \in mColumns["messages"]
    /\ n >= 6 => {"id", "details"} \subseteq mColumns["audit_logs"]
    /\ n >= 7 => "id" \in mColumns["diagnostic_issues"]
    /\ n >= 8 => "snapshot" \in mColumns["workspace_restore_state"]
    /\ n >= 9 => "parent_session_id" \in mColumns["sessions"]
    /\ n >= 10 => "parent_tool_use_id" \in mColumns["sessions"]
    /\ n >= 11 => "root_session_id" \in mColumns["sessions"]
    /\ n >= 12 => "ancestor_ids" \in mColumns["sessions"]
(* How far a start has come.                                                 *)
Reached ==
    /\ mPhase = "create" => mAt \in 1 .. 9 /\ \A i \in 1 .. mAt - 1 : mColumns[Store!Created[i]] # {}
    /\ mPhase = "migrate" => mAt \in 1 .. 12 /\ Ready(mAt - 1) /\ Everywhere
    /\ mPhase = "up" => Ready(12) /\ Everywhere
(* What a database keeps while its tables are made and migrated.          *)
MigrationInv == MigrationTyped /\ Formed /\ Reached /\ Store!RowsSurvive

(* The tables by name.                                                    *)
LEMMA Tables ==
    /\ Len(Store!Created) = 9 /\ DOMAIN Store!Created = 1 .. 9
    /\ \A i \in 1 .. 9 : Store!Created[i] \in Store!Table
    /\ \A t \in Store!Table : \E i \in 1 .. 9 : t = Store!Created[i]
    /\ Store!Table = {"sessions", "messages", "runs", "run_steps", "artifacts", "permission_requests",
                      "audit_logs", "diagnostic_issues", "workspace_restore_state"}
BY DEF Store!Created, Store!Table

(* The schema of create_tables makes each table in the form of today.     *)
LEMMA Schemas ==
    ASSUME NEW t \in Store!Table
    PROVE  Store!Schema(t) # {} /\ Store!Form(t, Store!Schema(t))
<1>1. /\ Store!Added.sessions = {"runtime_control", "parent_session_id", "parent_tool_use_id",
                                 "root_session_id", "ancestor_ids"}
      /\ Store!Added.messages = {"message_id", "metadata"}
  BY DEF Store!Added
<1>2. CASE t = "sessions"
  <2>1. Store!Schema(t) = Store!Added.sessions
    BY <1>2 DEF Store!Schema
  <2>2. QED
    BY <1>1, <1>2, <2>1 DEF Store!Form
<1>3. CASE t = "messages"
  <2>1. Store!Schema(t) = Store!Added.messages \cup {"created_at"}
    BY <1>3 DEF Store!Schema
  <2>2. QED
    BY <1>1, <1>3, <2>1 DEF Store!Form
<1>4. CASE t = "audit_logs"
  <2>1. Store!Schema(t) = {"id", "details"}
    BY <1>4 DEF Store!Schema
  <2>2. QED
    BY <1>4, <2>1 DEF Store!Form
<1>5. CASE t = "workspace_restore_state"
  <2>1. Store!Schema(t) = {"snapshot"}
    BY <1>5 DEF Store!Schema
  <2>2. QED
    BY <1>5, <2>1 DEF Store!Form
<1>6. CASE t \notin {"sessions", "messages", "audit_logs", "workspace_restore_state"}
  <2>1. Store!Schema(t) = {"id"}
    BY <1>6 DEF Store!Schema
  <2>2. QED
    BY <1>6, <2>1 DEF Store!Form
<1>7. QED
  BY <1>2, <1>3, <1>4, <1>5, <1>6
(* The migrations by their number.                                        *)
LEMMA Plans ==
    /\ Len(Store!Plan) = 12
    /\ \A i \in 1 .. 12 :
        /\ Store!Plan[i] = "runtime_control" => i = 1
        /\ Store!Plan[i] = "add created_at" => i = 2
        /\ Store!Plan[i] = "fill created_at" => i = 3
        /\ Store!Plan[i] = "message_id" => i = 4
        /\ Store!Plan[i] = "metadata" => i = 5
        /\ Store!Plan[i] = "audit_logs" => i = 6
        /\ Store!Plan[i] = "diagnostic_issues" => i = 7
        /\ Store!Plan[i] = "workspace_restore_state" => i = 8
        /\ Store!Plan[i] = "parent_session_id" => i = 9
        /\ Store!Plan[i] = "parent_tool_use_id" => i = 10
        /\ Store!Plan[i] = "root_session_id" => i = 11
        /\ Store!Plan[i] = "ancestor_ids" => i = 12
BY DEF Store!Plan

(* A database of any earlier form begins with it.                         *)
LEMMA MigrationInit == Store!Init => MigrationInv
<1> SUFFICES ASSUME Store!Init PROVE MigrationInv
  OBVIOUS
<1>1. PICK d \in Databases : mColumns = d.columns /\ mRows = d.rows
  BY DEF Store!Init
<1>2. /\ d.columns = [t \in Store!Table |-> d.columns[t]] /\ d.rows \in [Store!Table -> SUBSET Store!Row]
      /\ \A t \in Store!Table : d.columns[t] = {} \/ Store!Form(t, d.columns[t])
  BY HostAssumption DEF Store!MigrationsAssumption
<1>3. \A t \in Store!Table : Store!Lasting(t, mRows[t]) \in SUBSET Nat
  BY <1>1, <1>2 DEF Store!Lasting, Store!Row
<1>4. MigrationTyped
  BY <1>1, <1>2, <1>3 DEF Store!Init, MigrationTyped
<1>5. QED
  BY <1>1, <1>2, <1>4 DEF Store!Init, MigrationInv, Formed, Reached, Store!RowsSurvive

(* A step of another side keeps it.                                       *)
LEMMA MigrationStays == ASSUME MigrationInv, UNCHANGED migrationVars PROVE MigrationInv'
BY DEF MigrationInv, MigrationTyped, Formed, Everywhere, Ready, Reached, Store!RowsSurvive, migrationVars

(* A migration that has seen to its columns, and kept those of the others.    *)
LEMMA Advances ==
    ASSUME NEW n \in 1 .. 12, mAt = n, mPhase = "migrate", Store!Onward, Everywhere', Ready(n)'
    PROVE  Reached' /\ mAt' \in Nat /\ mPhase' \in {"migrate", "up"}
<1>1. CASE n < 12
  <2>1. mAt' = n + 1 /\ mPhase' = "migrate"
    BY <1>1, Plans DEF Store!Onward
  <2>2. mAt' \in 1 .. 12 /\ mAt' - 1 = n
    BY <1>1, <2>1
  <2>3. Ready(mAt - 1)'
    BY <2>2
  <2>4. QED
    BY <2>1, <2>2, <2>3 DEF Reached
<1>2. CASE n = 12
  <2>0. Len(Store!Plan) = 12
    BY Plans
  <2>1. ~(mAt < Len(Store!Plan))
    BY <1>2, <2>0
  <2>2. mAt' = mAt /\ mPhase' = "up"
    BY <2>1 DEF Store!Onward
  <2>3. Ready(12)'
    BY <1>2
  <2>4. mAt' \in Nat
    BY <1>2, <2>2
  <2>5. QED
    BY <2>2, <2>3, <2>4 DEF Reached
<1>3. QED
  BY <1>1, <1>2

(* The columns of no table become fewer, and all are there.                  *)
LEMMA Grows ==
    ASSUME MigrationInv, NEW n \in 0 .. 12, Ready(n),
           \A t \in Store!Table : mColumns[t] \subseteq mColumns'[t]
    PROVE  /\ Ready(n)' /\ (Everywhere => Everywhere')
           /\ (\A t \in Store!Table : mColumns[t] # {}) => Formed'
<1>1. /\ mColumns["sessions"] \subseteq mColumns'["sessions"]
      /\ mColumns["messages"] \subseteq mColumns'["messages"]
      /\ mColumns["audit_logs"] \subseteq mColumns'["audit_logs"]
      /\ mColumns["diagnostic_issues"] \subseteq mColumns'["diagnostic_issues"]
      /\ mColumns["workspace_restore_state"] \subseteq mColumns'["workspace_restore_state"]
  BY Tables
<1>2. Ready(n)'
  BY <1>1 DEF Ready
<1>3. Everywhere => Everywhere'
  BY DEF Everywhere
<1>4. ASSUME \A t \in Store!Table : mColumns[t] # {}, NEW t \in Store!Table PROVE Store!Form(t, mColumns'[t])
  <2>1. Store!Form(t, mColumns[t]) /\ mColumns[t] \subseteq mColumns'[t]
    BY <1>4 DEF MigrationInv, Formed
  <2>2. QED
    BY <2>1 DEF Store!Form
<1>5. QED
  BY <1>2, <1>3, <1>4 DEF Formed

(* The rows of one table are copied as they are.                             *)
LEMMA Copied ==
    ASSUME MigrationInv, NEW t \in Store!Table, NEW kept \in SUBSET Store!Row,
           mRows' = [mRows EXCEPT ![t] = kept], mHad' = mHad,
           Store!Lasting(t, kept) = Store!Lasting(t, mRows[t])
    PROVE  mRows' \in [Store!Table -> SUBSET Store!Row] /\ Store!RowsSurvive'
<1>1. mRows' \in [Store!Table -> SUBSET Store!Row]
  BY DEF MigrationInv, MigrationTyped
<1>2. ASSUME NEW u \in Store!Table PROVE Store!Lasting(u, mRows'[u]) = mHad'[u]
  <2>1. mHad'[u] = Store!Lasting(u, mRows[u])
    BY DEF MigrationInv, Store!RowsSurvive
  <2>2. CASE u = t
    <3>1. mRows'[u] = kept
      BY <2>2 DEF MigrationInv, MigrationTyped
    <3>2. QED
      BY <2>1, <2>2, <3>1
  <2>3. CASE u # t
    <3>1. mRows'[u] = mRows[u]
      BY <2>3 DEF MigrationInv, MigrationTyped
    <3>2. QED
      BY <2>1, <3>1
  <2>4. QED
    BY <2>2, <2>3
<1>3. QED
  BY <1>1, <1>2 DEF Store!RowsSurvive

(* Every statement of the start keeps it.                                 *)
LEMMA MigrationStepped == ASSUME MigrationInv, Store!Next PROVE MigrationInv'
<1> USE DEF MigrationInv, MigrationTyped
<1>1. CASE Store!Start
  <2>1. mPhase' = "create" /\ mAt' = 1 /\ mAdding' = FALSE /\ UNCHANGED <<mColumns, mRows, mHad, mStored>>
    BY <1>1 DEF Store!Start
  <2>2. mAt' \in 1 .. 9 /\ mAt' \in Nat /\ 1 .. mAt' - 1 = {}
    BY <2>1
  <2>3. Reached' /\ Formed'
    BY <2>1, <2>2 DEF Reached, Formed
  <2>4. QED
    BY <2>1, <2>2, <2>3 DEF Store!RowsSurvive
<1>2. CASE Store!Crash
  BY <1>2 DEF Store!Crash, Formed, Reached, Store!RowsSurvive
<1>3. CASE Store!CreateTable
  <2>1. PICK t \in Store!Table : t = Store!Created[mAt]
    BY <1>3, Tables DEF Store!CreateTable, Reached
  <2>2. /\ mPhase = "create"
        /\ mColumns' = IF mColumns[t] = {} THEN [mColumns EXCEPT ![t] = Store!Schema(t)] ELSE mColumns
        /\ IF mAt < 9 THEN mAt' = mAt + 1 /\ mPhase' = mPhase ELSE mAt' = 1 /\ mPhase' = "migrate"
        /\ UNCHANGED <<mRows, mAdding, mHad, mStarts, mStored>>
    BY <1>3, <2>1, Tables DEF Store!CreateTable
  <2>3. /\ mColumns' = [u \in Store!Table |-> mColumns'[u]]
        /\ mColumns'[t] # {} /\ \A u \in Store!Table : mColumns[u] # {} => mColumns'[u] # {}
        /\ Formed'
    BY <2>2, Schemas DEF Formed
  <2>4. mAt \in 1 .. 9 /\ \A i \in 1 .. mAt - 1 : mColumns[Store!Created[i]] # {}
    BY <2>2 DEF Reached
  <2>5. \A i \in 1 .. mAt : mColumns'[Store!Created[i]] # {}
    <3>1. ASSUME NEW i \in 1 .. mAt PROVE mColumns'[Store!Created[i]] # {}
      <4>1. Store!Created[i] \in Store!Table
        BY <2>4, Tables
      <4>2. CASE i = mAt
        BY <4>2, <2>1, <2>3
      <4>3. CASE i # mAt
        <5>1. i \in 1 .. mAt - 1
          BY <2>4, <4>3
        <5>2. QED
          BY <5>1, <4>1, <2>3, <2>4
      <4>4. QED
        BY <4>2, <4>3
    <3>2. QED
      BY <3>1
  <2>6. Reached'
    <3>1. CASE mAt < 9
      <4>1. mAt' = mAt + 1 /\ mPhase' = "create"
        BY <2>2, <3>1
      <4>2. mAt' \in 1 .. 9 /\ mAt' - 1 = mAt
        BY <2>4, <3>1, <4>1
      <4>3. QED
        BY <2>5, <4>1, <4>2 DEF Reached
    <3>2. CASE ~(mAt < 9)
      <4>1. mAt' = 1 /\ mPhase' = "migrate" /\ mAt = 9
        BY <2>2, <2>4, <3>2
      <4>2. Everywhere'
        BY <2>5, <4>1, Tables DEF Everywhere
      <4>3. Ready(0)'
        BY DEF Ready
      <4>4. mAt' \in 1 .. 12 /\ mAt' - 1 = 0
        BY <4>1
      <4>5. QED
        BY <4>1, <4>2, <4>3, <4>4 DEF Reached
    <3>3. QED
      BY <3>1, <3>2
  <2>7. mAt' \in Nat /\ mPhase' \in {"create", "migrate"}
    BY <2>2, <2>4
  <2>8. Store!RowsSurvive'
    BY <2>2 DEF Store!RowsSurvive
  <2>9. QED
    BY <2>2, <2>3, <2>6, <2>7, <2>8
<1>4. ASSUME NEW t \in DOMAIN Store!Added, NEW c \in Store!Added[t], Store!AddColumn(t, c) PROVE MigrationInv'
  <2>1. /\ mPhase = "migrate" /\ Store!Plan[mAt] = c /\ Store!Onward
        /\ mColumns' = IF c \notin mColumns[t] THEN [mColumns EXCEPT ![t] = @ \cup {c}] ELSE mColumns
        /\ UNCHANGED <<mRows, mAdding, mHad, mStarts, mStored>>
    BY <1>4 DEF Store!AddColumn, Store!At, Store!Missing
  <2>2. /\ mAt \in 1 .. 12 /\ Ready(mAt - 1) /\ Everywhere
    BY <2>1 DEF Reached
  <2>3. \/ /\ t = "sessions"
           /\ c \in {"runtime_control", "parent_session_id", "parent_tool_use_id", "root_session_id", "ancestor_ids"}
        \/ t = "messages" /\ c \in {"message_id", "metadata"}
    BY DEF Store!Added
  <2>4. t \in Store!Table
    BY <2>3, Tables
  <2>5. /\ mColumns' = [u \in Store!Table |-> mColumns'[u]] /\ c \in mColumns'[t]
        /\ \A u \in Store!Table : mColumns[u] \subseteq mColumns'[u]
    BY <2>1, <2>4
  <2>6. PICK n \in 1 .. 12 : mAt = n /\ Ready(n - 1) /\ n - 1 \in 0 .. 12
    BY <2>2
  <2>7. Ready(n - 1)' /\ Everywhere' /\ Formed'
    BY <2>2, <2>5, <2>6, Grows DEF Everywhere
  <2>8. Ready(n)'
    <3>1. Store!Plan[n] = c
      BY <2>1, <2>6
    <3>2. CASE t = "messages"
      <4>1. (c = "message_id" /\ n = 4) \/ (c = "metadata" /\ n = 5)
        BY <2>3, <3>1, <3>2, Plans
      <4>2. QED
        BY <2>5, <2>7, <3>2, <4>1 DEF Ready
    <3>3. CASE t = "sessions"
      <4>1. \/ c = "runtime_control" /\ n = 1
            \/ c = "parent_session_id" /\ n = 9
            \/ c = "parent_tool_use_id" /\ n = 10
            \/ c = "root_session_id" /\ n = 11
            \/ c = "ancestor_ids" /\ n = 12
        BY <2>3, <3>1, <3>3, Plans
      <4>2. QED
        BY <2>5, <2>7, <3>3, <4>1 DEF Ready
    <3>4. QED
      BY <2>3, <3>2, <3>3
  <2>9. Reached' /\ mAt' \in Nat /\ mPhase' \in {"migrate", "up"}
    BY <2>1, <2>6, <2>7, <2>8, Advances
  <2>10. Store!RowsSurvive'
    BY <2>1 DEF Store!RowsSurvive
  <2>11. QED
    BY <2>1, <2>5, <2>7, <2>9, <2>10
<1>5. CASE Store!AddCreatedAt
  <2>0. DEFINE old == "created_at" \notin mColumns["messages"] /\ "timestamp" \in mColumns["messages"]
  <2>1. /\ mPhase = "migrate" /\ Store!Plan[mAt] = "add created_at" /\ Store!Onward
        /\ mColumns' = IF old THEN [mColumns EXCEPT !["messages"] = @ \cup {"created_at"}] ELSE mColumns
        /\ mAdding' = old
        /\ UNCHANGED <<mRows, mHad, mStarts, mStored>>
    BY <1>5 DEF Store!AddCreatedAt, Store!At
  <2>2. /\ mAt \in 1 .. 12 /\ Ready(mAt - 1) /\ Everywhere
    BY <2>1 DEF Reached
  <2>3. mColumns["messages"] \cap {"created_at", "timestamp"} # {}
    BY <2>2, Tables DEF Formed, Everywhere, Store!Form
  <2>4. "messages" \in Store!Table
    BY Tables
  <2>5. /\ mColumns' = [u \in Store!Table |-> mColumns'[u]] /\ "created_at" \in mColumns'["messages"]
        /\ \A u \in Store!Table : mColumns[u] \subseteq mColumns'[u]
    BY <2>1, <2>3, <2>4
  <2>6. mAt = 2
    BY <2>1, <2>2, Plans
  <2>7. Ready(1)' /\ Everywhere' /\ Formed'
    <3>1. Ready(1)
      BY <2>2, <2>6
    <3>2. QED
      BY <2>2, <2>5, <3>1, Grows DEF Everywhere
  <2>8. Ready(2)'
    BY <2>5, <2>7 DEF Ready
  <2>9. Reached' /\ mAt' \in Nat /\ mPhase' \in {"migrate", "up"}
    <3>1. mPhase = "migrate" /\ Store!Onward
      BY <1>5 DEF Store!AddCreatedAt, Store!At
    <3>2. 2 \in 1 .. 12
      OBVIOUS
    <3>3. QED
      BY <3>2, <2>6, <2>7, <2>8, <3>1, Advances
  <2>10. Store!RowsSurvive'
    BY <2>1 DEF Store!RowsSurvive
  <2>11. mAdding' \in BOOLEAN
    BY <2>1
  <2>12. QED
    BY <2>1, <2>5, <2>7, <2>9, <2>10, <2>11
<1>6. CASE Store!FillCreatedAt
  <2>1. /\ mPhase = "migrate" /\ Store!Plan[mAt] = "fill created_at" /\ Store!Onward
        /\ mRows' = IF mAdding THEN [mRows EXCEPT !["messages"] = {[r EXCEPT !.time = TRUE] : r \in @}] ELSE mRows
        /\ UNCHANGED <<mColumns, mAdding, mHad, mStarts, mStored>>
    BY <1>6 DEF Store!FillCreatedAt, Store!At
  <2>2. mAt \in 1 .. 12 /\ Ready(mAt - 1) /\ Everywhere
    BY <2>1 DEF Reached
  <2>3. mAt = 3
    BY <2>1, <2>2, Plans
  <2>4. Ready(3)' /\ Everywhere' /\ Formed'
    <3>1. Ready(2) /\ mColumns' = mColumns
      <4>1. mColumns' = mColumns
        BY <1>6 DEF Store!FillCreatedAt
      <4>2. Ready(2)
        BY <2>2, <2>3
      <4>3. QED
        BY <4>1, <4>2
    <3>2. Ready(3)'
      BY <3>1 DEF Ready
    <3>3. QED
      BY <2>2, <3>1, <3>2 DEF Everywhere, Formed
  <2>5. Reached' /\ mAt' \in Nat /\ mPhase' \in {"migrate", "up"}
    <3>1. mPhase = "migrate" /\ Store!Onward
      BY <1>6 DEF Store!FillCreatedAt, Store!At
    <3>2. 3 \in 1 .. 12
      OBVIOUS
    <3>3. QED
      BY <3>2, <2>3, <2>4, <3>1, Advances
  <2>6. mRows' \in [Store!Table -> SUBSET Store!Row] /\ Store!RowsSurvive'
    <3>1. CASE mAdding
      <4>0. DEFINE kept == {[r EXCEPT !.time = TRUE] : r \in mRows["messages"]}
      <4>1. "messages" \in Store!Table
        BY Tables
      <4>2. \A r \in Store!Row : [r EXCEPT !.time = TRUE] \in Store!Row /\ [r EXCEPT !.time = TRUE].n = r.n
        BY DEF Store!Row
      <4>3. kept \in SUBSET Store!Row
        BY <4>1, <4>2
      <4>4. Store!Lasting("messages", kept) = Store!Lasting("messages", mRows["messages"])
        <5>1. \A rs : Store!Lasting("messages", rs) = {r.n : r \in rs}
          BY DEF Store!Lasting
        <5>2. \A r \in mRows["messages"] : r \in Store!Row
          BY <4>1
        <5>3. {r.n : r \in kept} = {r.n : r \in mRows["messages"]}
          <6>1. ASSUME NEW r \in mRows["messages"] PROVE \E s \in kept : s.n = r.n
            <7>1. [r EXCEPT !.time = TRUE] \in kept
              OBVIOUS
            <7>2. HIDE DEF kept
            <7>3. QED
              BY <7>1, <4>2, <5>2
          <6>2. ASSUME NEW s \in kept PROVE \E r \in mRows["messages"] : r.n = s.n
            <7>1. PICK r \in mRows["messages"] : s = [r EXCEPT !.time = TRUE]
              OBVIOUS
            <7>2. s.n = r.n
              BY <7>1, <4>2, <5>2
            <7>3. QED
              BY <7>2
          <6>3. HIDE DEF kept
          <6>4. {r.n : r \in kept} \subseteq {r.n : r \in mRows["messages"]}
            BY <6>2
          <6>5. {r.n : r \in mRows["messages"]} \subseteq {r.n : r \in kept}
            BY <6>1
          <6>6. QED
            BY <6>4, <6>5
        <5>4. QED
          BY <5>1, <5>3
      <4>5. mRows' = [mRows EXCEPT !["messages"] = kept] /\ mHad' = mHad
        BY <2>1, <3>1
      <4>6. HIDE DEF kept
      <4>7. QED
        BY <4>1, <4>3, <4>4, <4>5, Copied
    <3>2. CASE ~mAdding
      BY <2>1, <3>2 DEF Store!RowsSurvive
    <3>3. QED
      BY <3>1, <3>2
  <2>7. QED
    BY <2>1, <2>4, <2>5, <2>6
<1>7. CASE Store!MigrateAudit
  <2>0. DEFINE new == "id" \notin mColumns["audit_logs"] /\ "log_id" \in mColumns["audit_logs"]
               named == "details" \notin mColumns["audit_logs"] /\ "detail" \in mColumns["audit_logs"]
  <2>1. /\ mPhase = "migrate" /\ Store!Plan[mAt] = "audit_logs"
        /\ UNCHANGED <<mAdding, mHad, mStarts, mStored>>
    BY <1>7 DEF Store!MigrateAudit, Store!At
  <2>2. mAt \in 1 .. 12 /\ Ready(mAt - 1) /\ Everywhere
    BY <2>1 DEF Reached
  <2>3. mAt = 6 /\ Ready(5)
    <3>1. mAt = 6
      BY <2>1, <2>2, Plans
    <3>2. QED
      BY <2>2, <3>1
  <2>4. /\ mColumns["audit_logs"] \cap {"id", "log_id"} # {}
        /\ mColumns["audit_logs"] \cap {"details", "detail"} # {}
        /\ "audit_logs" \in Store!Table
    BY <2>2, Tables DEF Formed, Everywhere, Store!Form
  <2>5. \/ /\ mPhase' = "failed" /\ UNCHANGED <<mColumns, mRows, mAt>>
        \/ /\ Store!Onward /\ {"id", "details"} \subseteq mColumns'["audit_logs"]
           /\ \E x : mColumns' = [mColumns EXCEPT !["audit_logs"] = x]
           /\ mRows' = mRows
    <3>1. CASE new
      <4>1. Store!Rebuild("audit_logs", mRows["audit_logs"], \E r \in mRows["audit_logs"] : ~r.detail)
        BY <1>7, <3>1 DEF Store!MigrateAudit, Store!Rebuilt
      <4>2. Store!Schema("audit_logs") = {"id", "details"}
        BY DEF Store!Schema
      <4>3. CASE \E r \in mRows["audit_logs"] : ~r.detail
        BY <4>1, <4>3 DEF Store!Rebuild
      <4>4. CASE ~\E r \in mRows["audit_logs"] : ~r.detail
        <5>1. /\ mColumns' = [mColumns EXCEPT !["audit_logs"] = {"id", "details"}]
              /\ mRows' = [mRows EXCEPT !["audit_logs"] = mRows["audit_logs"]] /\ Store!Onward
          BY <4>1, <4>2, <4>4 DEF Store!Rebuild
        <5>2. mRows' = mRows
          BY <2>4, <5>1
        <5>3. QED
          BY <2>4, <5>1, <5>2
      <4>5. QED
        BY <4>3, <4>4
    <3>2. CASE ~new /\ named
      <4>1. /\ mColumns' = [mColumns EXCEPT !["audit_logs"] = (@ \ {"detail"}) \cup {"details"}]
            /\ Store!Onward /\ mRows' = mRows
        BY <1>7, <3>2 DEF Store!MigrateAudit
      <4>2. QED
        BY <2>4, <3>2, <4>1
    <3>3. CASE ~new /\ ~named
      <4>1. Store!Onward /\ mColumns' = mColumns /\ mRows' = mRows
        BY <1>7, <3>3 DEF Store!MigrateAudit
      <4>2. mColumns' = [mColumns EXCEPT !["audit_logs"] = mColumns["audit_logs"]]
        BY <2>4, <4>1
      <4>3. {"id", "details"} \subseteq mColumns["audit_logs"]
        BY <2>4, <3>3
      <4>4. QED
        BY <4>1, <4>2, <4>3
    <3>4. QED
      BY <3>1, <3>2, <3>3
  <2>6. CASE mPhase' = "failed" /\ UNCHANGED <<mColumns, mRows, mAt>>
    BY <2>1, <2>6 DEF Formed, Reached, Store!RowsSurvive
  <2>7. ASSUME Store!Onward, {"id", "details"} \subseteq mColumns'["audit_logs"], mRows' = mRows,
               NEW x, mColumns' = [mColumns EXCEPT !["audit_logs"] = x]
        PROVE  MigrationInv'
    <3>1. /\ mColumns' = [u \in Store!Table |-> mColumns'[u]]
          /\ \A u \in Store!Table : u # "audit_logs" => mColumns'[u] = mColumns[u]
      BY <2>4, <2>7
    <3>2. Everywhere'
      BY <2>2, <2>7, <3>1 DEF Everywhere
    <3>3. Formed'
      BY <2>7, <3>1 DEF Formed, Store!Form
    <3>4. Ready(6)'
      BY <2>3, <2>7, <3>1, Tables DEF Ready
    <3>5. Reached' /\ mAt' \in Nat /\ mPhase' \in {"migrate", "up"}
      BY <2>1, <2>3, <2>7, <3>2, <3>4, Advances
    <3>6. QED
      BY <2>1, <2>7, <3>1, <3>3, <3>5 DEF Store!RowsSurvive
  <2>8. QED
    BY <2>5, <2>6, <2>7
<1>8. CASE Store!MigrateDiagnostics
  <2>0. DEFINE old == "id" \notin mColumns["diagnostic_issues"] /\ "issue_id" \in mColumns["diagnostic_issues"]
  <2>1. /\ mPhase = "migrate" /\ Store!Plan[mAt] = "diagnostic_issues"
        /\ UNCHANGED <<mAdding, mHad, mStarts, mStored>>
    BY <1>8 DEF Store!MigrateDiagnostics, Store!At
  <2>2. mAt \in 1 .. 12 /\ Ready(mAt - 1) /\ Everywhere
    BY <2>1 DEF Reached
  <2>3. mAt = 7 /\ Ready(6)
    <3>1. mAt = 7
      BY <2>1, <2>2, Plans
    <3>2. QED
      BY <2>2, <3>1
  <2>4. mColumns["diagnostic_issues"] \cap {"id", "issue_id"} # {} /\ "diagnostic_issues" \in Store!Table
    BY <2>2, Tables DEF Formed, Everywhere, Store!Form
  <2>5. PICK x : /\ Store!Onward /\ "id" \in mColumns'["diagnostic_issues"]
                 /\ mColumns' = [mColumns EXCEPT !["diagnostic_issues"] = x]
                 /\ mRows' = mRows
    <3>1. CASE old
      <4>1. Store!Rebuild("diagnostic_issues", mRows["diagnostic_issues"], FALSE)
        BY <1>8, <3>1 DEF Store!MigrateDiagnostics, Store!Rebuilt
      <4>2. Store!Schema("diagnostic_issues") = {"id"}
        BY DEF Store!Schema
      <4>3. /\ mColumns' = [mColumns EXCEPT !["diagnostic_issues"] = {"id"}]
            /\ mRows' = [mRows EXCEPT !["diagnostic_issues"] = mRows["diagnostic_issues"]] /\ Store!Onward
        BY <4>1, <4>2 DEF Store!Rebuild
      <4>4. mRows' = mRows
        BY <2>4, <4>3
      <4>5. QED
        BY <2>4, <4>3, <4>4
    <3>2. CASE ~old
      <4>1. Store!Onward /\ mColumns' = mColumns /\ mRows' = mRows
        BY <1>8, <3>2 DEF Store!MigrateDiagnostics
      <4>2. mColumns' = [mColumns EXCEPT !["diagnostic_issues"] = mColumns["diagnostic_issues"]]
        BY <2>4, <4>1
      <4>3. QED
        BY <2>4, <3>2, <4>1, <4>2
    <3>3. QED
      BY <3>1, <3>2
  <2>6. /\ mColumns' = [u \in Store!Table |-> mColumns'[u]]
        /\ \A u \in Store!Table : u # "diagnostic_issues" => mColumns'[u] = mColumns[u]
    BY <2>4, <2>5
  <2>7. Everywhere'
    BY <2>2, <2>5, <2>6 DEF Everywhere
  <2>8. Formed'
    BY <2>5, <2>6 DEF Formed, Store!Form
  <2>9. Ready(7)'
    BY <2>3, <2>5, <2>6, Tables DEF Ready
  <2>10. Reached' /\ mAt' \in Nat /\ mPhase' \in {"migrate", "up"}
    BY <2>1, <2>3, <2>5, <2>7, <2>9, Advances
  <2>11. QED
    BY <2>1, <2>5, <2>6, <2>8, <2>10 DEF Store!RowsSurvive
<1>9. CASE Store!MigrateRestoreState
  <2>0. DEFINE kept == {r \in mRows["workspace_restore_state"] : r.session}
  <2>1. /\ mPhase = "migrate" /\ Store!Plan[mAt] = "workspace_restore_state"
        /\ UNCHANGED <<mAdding, mHad, mStarts, mStored>>
    BY <1>9 DEF Store!MigrateRestoreState, Store!At
  <2>2. mAt \in 1 .. 12 /\ Ready(mAt - 1) /\ Everywhere
    BY <2>1 DEF Reached
  <2>3. mAt = 8 /\ Ready(7)
    <3>1. mAt = 8
      BY <2>1, <2>2, Plans
    <3>2. QED
      BY <2>2, <3>1
  <2>4. "workspace_restore_state" \in Store!Table
    BY Tables
  <2>5. PICK x : /\ Store!Onward /\ "snapshot" \in mColumns'["workspace_restore_state"]
                 /\ mColumns' = [mColumns EXCEPT !["workspace_restore_state"] = x]
                 /\ \/ mRows' = mRows
                    \/ mRows' = [mRows EXCEPT !["workspace_restore_state"] = kept]
    <3>1. CASE "snapshot" \notin mColumns["workspace_restore_state"]
      <4>1. Store!Rebuild("workspace_restore_state", kept, FALSE)
        BY <1>9, <3>1 DEF Store!MigrateRestoreState, Store!Rebuilt
      <4>2. Store!Schema("workspace_restore_state") = {"snapshot"}
        BY DEF Store!Schema
      <4>3. /\ mColumns' = [mColumns EXCEPT !["workspace_restore_state"] = {"snapshot"}]
            /\ mRows' = [mRows EXCEPT !["workspace_restore_state"] = kept] /\ Store!Onward
        BY <4>1, <4>2 DEF Store!Rebuild
      <4>4. QED
        BY <2>4, <4>3
    <3>2. CASE "snapshot" \in mColumns["workspace_restore_state"]
      <4>1. Store!Onward /\ mColumns' = mColumns /\ mRows' = mRows
        BY <1>9, <3>2 DEF Store!MigrateRestoreState
      <4>2. mColumns' = [mColumns EXCEPT !["workspace_restore_state"] = mColumns["workspace_restore_state"]]
        BY <2>4, <4>1
      <4>3. QED
        BY <2>4, <3>2, <4>1, <4>2
    <3>3. QED
      BY <3>1, <3>2
  <2>6. /\ mColumns' = [u \in Store!Table |-> mColumns'[u]]
        /\ \A u \in Store!Table : u # "workspace_restore_state" => mColumns'[u] = mColumns[u]
    BY <2>4, <2>5
  <2>7. Everywhere'
    BY <2>2, <2>5, <2>6 DEF Everywhere
  <2>8. Formed'
    BY <2>5, <2>6 DEF Formed, Store!Form
  <2>9. Ready(8)'
    BY <2>3, <2>5, <2>6, Tables DEF Ready
  <2>10. Reached' /\ mAt' \in Nat /\ mPhase' \in {"migrate", "up"}
    BY <2>1, <2>3, <2>5, <2>7, <2>9, Advances
  <2>11. mRows' \in [Store!Table -> SUBSET Store!Row] /\ Store!RowsSurvive'
    <3>1. kept \in SUBSET Store!Row
      BY <2>4
    <3>2. Store!Lasting("workspace_restore_state", kept)
             = Store!Lasting("workspace_restore_state", mRows["workspace_restore_state"])
      BY DEF Store!Lasting
    <3>3. CASE mRows' = mRows
      BY <2>1, <3>3 DEF Store!RowsSurvive
    <3>4. CASE mRows' = [mRows EXCEPT !["workspace_restore_state"] = kept]
      <4> HIDE DEF kept
      <4> QED
        BY <2>1, <2>4, <3>1, <3>2, <3>4, Copied
    <3>5. QED
      BY <2>5, <3>3, <3>4
  <2>12. QED
    BY <2>1, <2>6, <2>8, <2>10, <2>11
<1>10. ASSUME NEW t \in {"messages", "audit_logs", "workspace_restore_state"}, Store!Store(t) PROVE MigrationInv'
  <2>0. DEFINE r == [n |-> 10 + mStored, time |-> TRUE, detail |-> TRUE, session |-> TRUE]
  <2>1. /\ mPhase = "up" /\ mStored' = mStored + 1
        /\ mRows' = [mRows EXCEPT ![t] = @ \cup {r}]
        /\ mHad' = [mHad EXCEPT ![t] = @ \cup {10 + mStored}]
        /\ UNCHANGED <<mColumns, mPhase, mAt, mAdding, mStarts>>
    BY <1>10 DEF Store!Store
  <2>2. t \in Store!Table /\ r \in Store!Row
    BY Tables DEF Store!Row
  <2>3. r.n = 10 + mStored /\ r.session
    OBVIOUS
  <2>4. Store!Lasting(t, mRows[t] \cup {r}) = Store!Lasting(t, mRows[t]) \cup {10 + mStored}
    <3> HIDE DEF r
    <3> QED
      BY <2>3 DEF Store!Lasting
  <2>5. ASSUME NEW u \in Store!Table PROVE mHad'[u] = Store!Lasting(u, mRows'[u])
    <3>1. mHad[u] = Store!Lasting(u, mRows[u])
      BY DEF Store!RowsSurvive
    <3>2. CASE u = t
      <4>1. mHad'[u] = mHad[u] \cup {10 + mStored} /\ mRows'[u] = mRows[u] \cup {r}
        BY <2>1, <2>2, <3>2
      <4>2. QED
        BY <2>4, <3>1, <3>2, <4>1
    <3>3. CASE u # t
      <4>1. mHad'[u] = mHad[u] /\ mRows'[u] = mRows[u]
        BY <2>1, <2>2, <3>3
      <4>2. QED
        BY <3>1, <4>1
    <3>4. QED
      BY <3>2, <3>3
  <2>6. mRows' \in [Store!Table -> SUBSET Store!Row] /\ mHad' \in [Store!Table -> SUBSET Nat]
        /\ mStored' \in Nat
    <3> HIDE DEF r
    <3>1. 10 + mStored \in Nat
      OBVIOUS
    <3>2. QED
      BY <2>1, <2>2, <3>1
  <2>7. Formed' /\ Reached' /\ Store!RowsSurvive'
    <3>1. Ready(12) /\ Everywhere /\ mColumns' = mColumns /\ mPhase' = "up"
      BY <2>1 DEF Reached
    <3>2. Ready(12)' /\ Everywhere' /\ Formed'
      BY <3>1 DEF Ready, Everywhere, Formed
    <3>3. Reached'
      BY <3>1, <3>2 DEF Reached
    <3>4. QED
      BY <2>5, <3>2, <3>3 DEF Store!RowsSurvive
  <2>8. QED
    BY <2>1, <2>6, <2>7
<1>11. QED
  BY <1>1, <1>2, <1>3, <1>4, <1>5, <1>6, <1>7, <1>8, <1>9, <1>10 DEF Store!Next

(* It implies that a started store is current and has its rows.           *)
LEMMA MigrationCurrent == ASSUME MigrationInv PROVE Store!SchemaCurrent /\ Store!RowsSurvive
<1>1. ASSUME mPhase = "up", NEW t \in Store!Table PROVE Store!Schema(t) \subseteq mColumns[t]
  <2>1. Ready(12) /\ Everywhere /\ Formed
    BY <1>1 DEF MigrationInv, Reached
  <2>2. CASE t = "sessions"
    <3>1. Store!Schema(t) = {"runtime_control", "parent_session_id", "parent_tool_use_id",
                             "root_session_id", "ancestor_ids"}
      BY <2>2 DEF Store!Schema, Store!Added
    <3>2. QED
      BY <2>1, <2>2, <3>1 DEF Ready
  <2>3. CASE t = "messages"
    <3>1. Store!Schema(t) = {"message_id", "metadata", "created_at"}
      BY <2>3 DEF Store!Schema, Store!Added
    <3>2. QED
      BY <2>1, <2>3, <3>1 DEF Ready
  <2>4. CASE t = "audit_logs"
    <3>1. Store!Schema(t) = {"id", "details"}
      BY <2>4 DEF Store!Schema
    <3>2. QED
      BY <2>1, <2>4, <3>1 DEF Ready
  <2>5. CASE t = "workspace_restore_state"
    <3>1. Store!Schema(t) = {"snapshot"}
      BY <2>5 DEF Store!Schema
    <3>2. QED
      BY <2>1, <2>5, <3>1 DEF Ready
  <2>6. CASE t = "diagnostic_issues"
    <3>1. Store!Schema(t) = {"id"}
      BY <2>6 DEF Store!Schema
    <3>2. QED
      BY <2>1, <2>6, <3>1 DEF Ready
  <2>7. CASE t \in {"runs", "run_steps", "artifacts", "permission_requests"}
    <3>1. Store!Schema(t) = {"id"}
      BY <2>7 DEF Store!Schema
    <3>2. QED
      BY <2>1, <2>7, <3>1 DEF Formed, Everywhere, Store!Form
  <2>8. QED
    BY <2>2, <2>3, <2>4, <2>5, <2>6, <2>7, Tables
<1>2. QED
  BY <1>1 DEF Store!SchemaCurrent, MigrationInv

(***************************************************************************)
(* The delegations.                                                        *)
(***************************************************************************)
Texts == Skill \cup PromptFiles \cup {NoSkill, Nobody, "inline", "legacy"}
(* Where a delegation is.                                                 *)
Places == {"idle", "hook", "build", "prompt", "session", "preload", "running", "ended"}
(* The types of a delegation.                                             *)
DelegationTyped ==
    /\ dSeeds \subseteq Seed
    /\ dPc \in [Delegated -> Places] /\ dAsked \in [Delegated -> Agents!Request \cup {Agents!NoRequest}]
    /\ dAgent \in [Delegated -> AgentName \cup {Nobody}]
    /\ dTold \in [Delegated -> {"none", "skill", "agent"} \X Texts \X BOOLEAN]
    /\ dRegistry \in [Delegated -> SUBSET (External \cup Seed)]
    /\ dActive \in [Delegated -> SUBSET (External \cup Seed)]
    /\ dResult \in [Delegated -> {"none", "answer", "empty", "error"}]
    /\ dKnown \in [Delegated -> SUBSET Seed]

(* A delegation that has begun runs as the agent it was asked for.           *)
Chosen(c) ==
    dPc[c] # "idle" => dAgent[c] \in AgentName /\ (dAsked[c].agent \in AgentName => dAgent[c] = dAsked[c].agent)
(* What it has been told: nothing, until its skill's text was read or its    *)
(* agent's.                                                                 *)
Instructed(c) ==
    LET skill == dAsked[c].skill
        ofSkill == skill \in Skill /\ dTold[c][1] = "skill" /\ dTold[c][2] = skill
        ofAgent == skill \notin Skill /\ dTold[c][1] = "agent"
                   /\ dTold[c][2] \in {Prompts[dAgent[c]].file, Prompts[dAgent[c]].inline,
                                       Prompts[dAgent[c]].legacy, Prompts[dAgent[c]].default, Nobody}
        untold == dTold[c] = Agents!Untold
    IN  /\ dPc[c] = "idle" => untold
        /\ dPc[c] = "hook" => untold /\ skill \in Skill
        /\ dPc[c] = "build" => (untold /\ skill \notin Skill) \/ ofSkill
        /\ dPc[c] = "prompt" => skill \notin Skill
        /\ dPc[c] \in {"session", "preload", "running"} => ofSkill \/ ofAgent
(* Its registry has what was seeded when it was asked for.                   *)
Equipped(c) ==
    /\ dKnown[c] \subseteq dSeeds
    /\ dPc[c] \in {"prompt", "session", "preload", "running"} =>
          dAsked[c].caller = Agents!Turn /\ External \cup dKnown[c] \subseteq dRegistry[c]
    /\ dPc[c] = "running" => dActive[c] = Agents!Wanted(c) \cap dRegistry[c]
(* What a delegation has chosen, written and handed over so far.          *)
DelegationInv ==
    /\ DelegationTyped
    /\ \A c \in Delegated : Chosen(c) /\ Instructed(c) /\ Equipped(c)

(* A delegation begins with it.                                           *)
LEMMA DelegationInit == Agents!Init => DelegationInv
<1> SUFFICES ASSUME Agents!Init PROVE DelegationInv
  OBVIOUS
<1>1. Agents!Untold \in {"none", "skill", "agent"} \X Texts \X BOOLEAN
  BY DEF Agents!Untold, Texts
<1>2. DelegationTyped
  BY <1>1 DEF Agents!Init, DelegationTyped, Places
<1>3. ASSUME NEW c \in Delegated PROVE Chosen(c) /\ Instructed(c) /\ Equipped(c)
  BY DEF Agents!Init, Chosen, Instructed, Equipped
<1>4. QED
  BY <1>2, <1>3 DEF DelegationInv

(* A step of another side keeps it.                                       *)
LEMMA DelegationStays == ASSUME DelegationInv, UNCHANGED delegationVars PROVE DelegationInv'
BY DEF DelegationInv, DelegationTyped, Chosen, Instructed, Equipped, delegationVars, Agents!Wanted

(* Every step of a delegation keeps it.                                   *)
LEMMA DelegationStepped == ASSUME DelegationInv, Agents!Next PROVE DelegationInv'
<1> USE DEF DelegationInv, DelegationTyped
<1>0. /\ Default \in AgentName /\ Nobody \notin Skill /\ NoSkill \notin Skill
      /\ Prompts \in [AgentName -> Agents!Prompt]
  BY HostAssumption DEF Agents!DelegationAssumption
<1>1. ASSUME NEW t \in Seed, Agents!SeedTool(t) PROVE DelegationInv'
  <2>1. /\ dSeeds \subseteq dSeeds' /\ dSeeds' \subseteq Seed
        /\ UNCHANGED <<dHook, dPc, dAsked, dAgent, dTold, dRegistry, dActive, dResult, dKnown>>
    BY <1>1 DEF Agents!SeedTool
  <2>2. QED
    BY <2>1 DEF Chosen, Instructed, Equipped, Agents!Wanted
<1>2. ASSUME NEW h, Agents!SetHook(h) PROVE DelegationInv'
  BY <1>2 DEF Agents!SetHook, Chosen, Instructed, Equipped, Agents!Wanted
(* A step of one delegation leaves the others as they are.                   *)
<1>3. ASSUME NEW c \in Delegated, NEW d \in Delegated, d # c, dSeeds \subseteq dSeeds',
             dPc'[d] = dPc[d], dAsked'[d] = dAsked[d], dAgent'[d] = dAgent[d],
             dTold'[d] = dTold[d], dRegistry'[d] = dRegistry[d], dActive'[d] = dActive[d],
             dKnown'[d] = dKnown[d]
      PROVE (Chosen(d) /\ Instructed(d) /\ Equipped(d))'
  BY <1>3 DEF Chosen, Instructed, Equipped, Agents!Wanted
<1>4. ASSUME NEW c \in Delegated, NEW r \in Agents!Request, Agents!Begin(c, r) PROVE DelegationInv'
  <2>1. /\ dPc[c] = "idle"
        /\ dAsked' = [dAsked EXCEPT ![c] = r]
        /\ dAgent' = [dAgent EXCEPT ![c] = Agents!Chosen(r.agent)]
        /\ dKnown' = [dKnown EXCEPT ![c] = dSeeds]
        /\ dPc' = [dPc EXCEPT ![c] = IF r.skill = Nobody THEN "build"
                                     ELSE IF r.skill = NoSkill THEN "ended" ELSE "hook"]
        /\ dResult' = [dResult EXCEPT ![c] = IF r.skill = NoSkill THEN "empty" ELSE @]
        /\ UNCHANGED <<dSeeds, dTold, dRegistry, dActive>>
    BY <1>4 DEF Agents!Begin
  <2>2. /\ Agents!Chosen(r.agent) \in AgentName
        /\ r.agent \in AgentName => Agents!Chosen(r.agent) = r.agent
    BY <1>0 DEF Agents!Chosen
  <2>3. r.skill \in Skill \cup {NoSkill, Nobody}
    BY DEF Agents!Request
  <2>4. DelegationTyped'
    BY <2>1, <2>2 DEF Places
  <2>5. (Chosen(c) /\ Instructed(c) /\ Equipped(c))'
    BY <1>0, <2>1, <2>2, <2>3 DEF Chosen, Instructed, Equipped, Places
  <2>6. \A d \in Delegated : (Chosen(d) /\ Instructed(d) /\ Equipped(d))'
    BY <2>1, <2>5, <1>3
  <2>7. QED
    BY <2>4, <2>6
<1>5. ASSUME NEW c \in Delegated, Agents!Brief(c) PROVE DelegationInv'
  <2>1. /\ dPc[c] = "hook" /\ dPc' = [dPc EXCEPT ![c] = "build"]
        /\ dTold' = [dTold EXCEPT ![c] = <<"skill", dAsked[c].skill, dHook = "rewrites">>]
        /\ UNCHANGED <<dSeeds, dAsked, dAgent, dRegistry, dActive, dResult, dKnown>>
    BY <1>5 DEF Agents!Brief
  <2>2. dAsked[c].skill \in Skill /\ (dHook = "rewrites") \in BOOLEAN
    BY <2>1 DEF Instructed
  <2>3. <<"skill", dAsked[c].skill, dHook = "rewrites">> \in {"none", "skill", "agent"} \X Texts \X BOOLEAN
    BY <2>2 DEF Texts
  <2>4. DelegationTyped'
    BY <2>1, <2>3 DEF Places
  <2>5. (Chosen(c) /\ Instructed(c) /\ Equipped(c))'
    BY <2>1, <2>2 DEF Chosen, Instructed, Equipped
  <2>6. \A d \in Delegated : (Chosen(d) /\ Instructed(d) /\ Equipped(d))'
    BY <2>1, <2>5, <1>3
  <2>7. QED
    BY <2>4, <2>6
<1>6. ASSUME NEW c \in Delegated, Agents!Build(c) PROVE DelegationInv'
  <2>1. /\ dPc[c] = "build"
        /\ UNCHANGED <<dSeeds, dAsked, dAgent, dTold, dActive, dKnown>>
    BY <1>6 DEF Agents!Build
  <2>2. CASE dAsked[c].caller # Agents!Turn
    <3>1. /\ dPc' = [dPc EXCEPT ![c] = "ended"] /\ dResult' = [dResult EXCEPT ![c] = "error"]
          /\ dRegistry' = dRegistry
      BY <1>6, <2>2 DEF Agents!Build, Agents!Fail
    <3>2. (Chosen(c) /\ Instructed(c) /\ Equipped(c))'
      BY <2>1, <3>1 DEF Chosen, Instructed, Equipped
    <3>3. \A d \in Delegated : (Chosen(d) /\ Instructed(d) /\ Equipped(d))'
      BY <2>1, <3>1, <3>2, <1>3
    <3>4. QED
      BY <2>1, <3>1, <3>3 DEF Places
  <2>3. CASE dAsked[c].caller = Agents!Turn
    <3>1. /\ dRegistry' = [dRegistry EXCEPT ![c] = External \cup dSeeds]
          /\ dPc' = [dPc EXCEPT ![c] = IF dTold[c] = Agents!Untold THEN "prompt" ELSE "session"]
          /\ dResult' = dResult
      BY <1>6, <2>3 DEF Agents!Build, Agents!Deferred
    <3>2. Instructed(c)' /\ Chosen(c)'
      <4>1. Chosen(c)'
        BY <2>1, <3>1 DEF Chosen
      <4>2. \/ dTold[c] = Agents!Untold /\ dAsked[c].skill \notin Skill
            \/ /\ dAsked[c].skill \in Skill
               /\ dTold[c][1] = "skill" /\ dTold[c][2] = dAsked[c].skill
        BY <2>1 DEF Instructed
      <4>3. CASE dTold[c] = Agents!Untold
        <5>1. dTold[c][1] # "skill"
          BY <4>3 DEF Agents!Untold
        <5>2. dPc'[c] = "prompt" /\ dAsked[c].skill \notin Skill
          BY <3>1, <4>2, <4>3, <5>1
        <5>3. QED
          BY <2>1, <4>1, <5>2 DEF Instructed
      <4>4. CASE dTold[c] # Agents!Untold
        <5>1. dPc'[c] = "session"
          BY <3>1, <4>4
        <5>2. QED
          BY <2>1, <4>1, <4>2, <4>4, <5>1 DEF Instructed
      <4>5. QED
        BY <4>3, <4>4
    <3>3. Equipped(c)'
      BY <2>1, <2>3, <3>1 DEF Equipped, Places
    <3>4. \A d \in Delegated : (Chosen(d) /\ Instructed(d) /\ Equipped(d))'
      BY <2>1, <3>1, <3>2, <3>3, <1>3
    <3>5. DelegationTyped'
      BY <2>1, <3>1 DEF Places
    <3>6. QED
      BY <3>4, <3>5
  <2>4. QED
    BY <2>2, <2>3
<1>7. ASSUME NEW c \in Delegated, Agents!LoadPrompt(c) PROVE DelegationInv'
  <2>1. /\ dPc[c] = "prompt"
        /\ UNCHANGED <<dSeeds, dAsked, dAgent, dRegistry, dActive, dKnown>>
    BY <1>7 DEF Agents!LoadPrompt
  <2>2. CASE Agents!Refused(Prompts[dAgent[c]])
    <3>1. /\ dPc' = [dPc EXCEPT ![c] = "ended"] /\ dResult' = [dResult EXCEPT ![c] = "error"]
          /\ dTold' = dTold
      BY <1>7, <2>2 DEF Agents!LoadPrompt, Agents!Fail
    <3>2. (Chosen(c) /\ Instructed(c) /\ Equipped(c))'
      BY <2>1, <3>1 DEF Chosen, Instructed, Equipped
    <3>3. \A d \in Delegated : (Chosen(d) /\ Instructed(d) /\ Equipped(d))'
      BY <2>1, <3>1, <3>2, <1>3
    <3>4. QED
      BY <2>1, <3>1, <3>3 DEF Places
  <2>3. CASE ~Agents!Refused(Prompts[dAgent[c]])
    <3>0. DEFINE p == Prompts[dAgent[c]]
    <3>1. /\ dTold' = [dTold EXCEPT ![c] = <<"agent", Agents!TextOf(p), FALSE>>]
          /\ dPc' = [dPc EXCEPT ![c] = "session"] /\ dResult' = dResult
      BY <1>7, <2>3 DEF Agents!LoadPrompt
    <3>2. dAgent[c] \in AgentName /\ dAsked[c].skill \notin Skill
      BY <2>1 DEF Chosen, Instructed
    <3>3. p \in Agents!Prompt
      BY <1>0, <3>2
    <3>4. /\ Agents!TextOf(p) \in {p.file, p.inline, p.legacy, p.default, Nobody}
          /\ Agents!TextOf(p) \in Texts
      BY <3>3 DEF Agents!TextOf, Agents!Prompt, Texts
    <3>5. <<"agent", Agents!TextOf(p), FALSE>> \in {"none", "skill", "agent"} \X Texts \X BOOLEAN
      BY <3>4
    <3>6. DelegationTyped'
      BY <2>1, <3>1, <3>5 DEF Places
    <3>7. (Chosen(c) /\ Instructed(c) /\ Equipped(c))'
      BY <2>1, <3>1, <3>2, <3>4 DEF Chosen, Instructed, Equipped
    <3>8. \A d \in Delegated : (Chosen(d) /\ Instructed(d) /\ Equipped(d))'
      BY <2>1, <3>1, <3>7, <1>3
    <3>9. QED
      BY <3>6, <3>8
  <2>4. QED
    BY <2>2, <2>3
<1>8. ASSUME NEW c \in Delegated, Agents!OpenSession(c) PROVE DelegationInv'
  <2>1. /\ dPc[c] = "session"
        /\ dPc' = [dPc EXCEPT ![c] = "preload"] \/ dPc' = [dPc EXCEPT ![c] = "ended"]
        /\ dResult' = dResult \/ dResult' = [dResult EXCEPT ![c] = "error"]
        /\ UNCHANGED <<dSeeds, dAsked, dAgent, dTold, dRegistry, dActive, dKnown>>
    BY <1>8 DEF Agents!OpenSession, Agents!Fail
  <2>2. (Chosen(c) /\ Instructed(c) /\ Equipped(c))'
    BY <2>1 DEF Chosen, Instructed, Equipped
  <2>3. \A d \in Delegated : (Chosen(d) /\ Instructed(d) /\ Equipped(d))'
    BY <2>1, <2>2, <1>3
  <2>4. QED
    BY <2>1, <2>3 DEF Places
<1>9. ASSUME NEW c \in Delegated, Agents!Activate(c) PROVE DelegationInv'
  <2>1. /\ dPc[c] = "preload" /\ dPc' = [dPc EXCEPT ![c] = "running"]
        /\ dActive' = [dActive EXCEPT ![c] = Agents!Wanted(c) \cap dRegistry[c]]
        /\ UNCHANGED <<dSeeds, dAsked, dAgent, dTold, dRegistry, dResult, dKnown>>
    BY <1>9 DEF Agents!Activate
  <2>2. (Chosen(c) /\ Instructed(c) /\ Equipped(c))'
    BY <2>1 DEF Chosen, Instructed, Equipped, Agents!Wanted
  <2>3. \A d \in Delegated : (Chosen(d) /\ Instructed(d) /\ Equipped(d))'
    BY <2>1, <2>2, <1>3
  <2>4. QED
    BY <2>1, <2>3 DEF Places
<1>10. ASSUME NEW c \in Delegated, Agents!End(c) PROVE DelegationInv'
  <2>1. /\ dPc[c] = "running" /\ dPc' = [dPc EXCEPT ![c] = "ended"]
        /\ \E x \in {"answer", "error"} : dResult' = [dResult EXCEPT ![c] = x]
        /\ UNCHANGED <<dSeeds, dAsked, dAgent, dTold, dRegistry, dActive, dKnown>>
    BY <1>10 DEF Agents!End, Agents!Fail
  <2>2. (Chosen(c) /\ Instructed(c) /\ Equipped(c))'
    BY <2>1 DEF Chosen, Instructed, Equipped
  <2>3. \A d \in Delegated : (Chosen(d) /\ Instructed(d) /\ Equipped(d))'
    BY <2>1, <2>2, <1>3
  <2>4. QED
    BY <2>1, <2>3 DEF Places
<1>11. CASE Agents!Over
  <2>1. UNCHANGED delegationVars
    BY <1>11 DEF Agents!Over, Agents!vars, delegationVars
  <2>2. QED
    BY <2>1, DelegationStays
<1>12. QED
  BY <1>1, <1>2, <1>4, <1>5, <1>6, <1>7, <1>8, <1>9, <1>10, <1>11 DEF Agents!Next

(* It implies that a sub-agent runs as asked.                             *)
LEMMA DelegationRuns == ASSUME DelegationInv PROVE Agents!RunsAsAsked
<1>1. ASSUME NEW c \in Delegated, dPc[c] = "running"
      PROVE /\ dAsked[c].caller = Agents!Turn
            /\ dAsked[c].agent \in AgentName => dAgent[c] = dAsked[c].agent
            /\ External \cup dKnown[c] \subseteq dRegistry[c]
            /\ dActive[c] = Agents!Wanted(c) \cap dRegistry[c]
  BY <1>1 DEF DelegationInv, DelegationTyped, Chosen, Equipped
<1>2. ASSUME NEW c \in Delegated, dPc[c] = "running"
      PROVE IF dAsked[c].skill \in Skill
            THEN dTold[c][1] = "skill" /\ dTold[c][2] = dAsked[c].skill
            ELSE /\ dTold[c][1] = "agent"
                 /\ dTold[c][2] \in {Prompts[dAgent[c]].file, Prompts[dAgent[c]].inline,
                                     Prompts[dAgent[c]].legacy, Prompts[dAgent[c]].default, Nobody}
  BY <1>2 DEF DelegationInv, Instructed
<1>3. QED
  BY <1>1, <1>2 DEF Agents!RunsAsAsked, Agents!Wanted

(***************************************************************************)
(* The records.                                                            *)
(***************************************************************************)
Stages == {"idle", "began", "waiting", "running", "paid", "counted", "saved", "ended"}
(* The types of the records and of the page a reader holds.               *)
RecordsTyped ==
    /\ rClock \in Nat /\ rPc \in [Run -> Stages] /\ rStarted \in [Run -> Nat]
    /\ rRuns \in Seq(Run)
    /\ rStatus \in [Run -> {"none", "running", "failed", "success", "stopped", "archived"}]
    /\ rUsage \subseteq Run /\ rCounters \subseteq Run /\ rRow \subseteq Run
    /\ rPage \in [read : Seq(Run), first : SUBSET Run, more : BOOLEAN]
    /\ rBounds \in [stops : Nat, walks : Nat, crashes : Nat]

(* A run has one row, made after its turn has begun.                         *)
RowsApart ==
    /\ \A m, n \in DOMAIN rRuns : rRuns[m] = rRuns[n] => m = n
    /\ \A n \in DOMAIN rRuns : rPc[rRuns[n]] \notin {"idle", "began"}

(* What is counted, where and when.                                         *)
Counting ==
    /\ rRow \subseteq rCounters /\ rCounters \subseteq rUsage
    /\ rBounds.crashes = 0 => \A t \in rUsage \ rCounters : rPc[t] = "paid"
    /\ \A t \in Run : /\ rPc[t] = "paid" => t \in rUsage
                      /\ rPc[t] \in {"counted", "saved"} => t \in rCounters
                      /\ rPc[t] = "saved" => t \in rRow
                      /\ rStatus[t] = "success" => t \in rRow

(* The order of the list: the newest first, of one time the first made.      *)
Before(s, t) ==
    \/ rStarted[s] > rStarted[t]
    \/ /\ rStarted[s] = rStarted[t]
       /\ \E m, n \in DOMAIN rRuns : rRuns[m] = s /\ rRuns[n] = t /\ m < n
(* The runs on record.                                                    *)
Made == {rRuns[n] : n \in DOMAIN rRuns}
(* A walk has read runs in this order, and what there was at its beginning   *)
(* and it has not read comes after what it has.                             *)
Walking ==
    /\ \A m \in DOMAIN rPage.read : rPage.read[m] \in Made
    /\ \A m, n \in DOMAIN rPage.read : m < n => Before(rPage.read[m], rPage.read[n])
    /\ rPage.more => Len(rPage.read) # 0
    /\ \A t \in rPage.first :
          /\ t \in Made
          /\ \/ \E m \in DOMAIN rPage.read : rPage.read[m] = t
             \/ rPage.more /\ Before(rPage.read[Len(rPage.read)], t)
(* What the records of runs, their counters and a walk over pages keep.   *)
RecordsInv == RecordsTyped /\ RowsApart /\ Counting /\ Walking

(* The size of a set is the same in every module.                         *)
LEMMA SameSize == \A S : Records!Cardinality(S) = Cardinality(S)
BY DEF Records!Cardinality, Cardinality

(* list_runs holds every run once, in the order of the list: as many places  *)
(* as runs, and the place of a run is the number of those before it.        *)
LEMMA Listing ==
    ASSUME RecordsTyped, RowsApart
    PROVE  /\ Len(rRuns) \in Nat /\ DOMAIN rRuns = 1..Len(rRuns)
           /\ Records!ListRuns \in [1..Len(rRuns) -> Run]
           /\ \A k \in 1..Len(rRuns) : Records!ListRuns[k] \in Made
           /\ \A t \in Made : \E k \in 1..Len(rRuns) : Records!ListRuns[k] = t
           /\ \A j, k \in 1..Len(rRuns) :
                j < k => Before(Records!ListRuns[j], Records!ListRuns[k])
<1> DEFINE N == Len(rRuns)
           D == 1..N
           Newer(m, n) == Records!Newer(m, n)
           Up(n) == {m \in D : m = n \/ Newer(m, n)}
           Place(n) == Cardinality(Up(n))
           f == [n \in D |-> Place(n)]
           Order(k) == CHOOSE n \in D : Place(n) = k
<1>1. N \in Nat /\ DOMAIN rRuns = D
  BY LenProperties DEF RecordsTyped
<1>2. \A n \in D : rRuns[n] \in Run /\ rStarted[rRuns[n]] \in Nat
  BY <1>1 DEF RecordsTyped
<1>3. \A m, n \in D :
         Newer(m, n) <=> \/ rStarted[rRuns[m]] > rStarted[rRuns[n]]
                         \/ rStarted[rRuns[m]] = rStarted[rRuns[n]] /\ m < n
  BY DEF Records!Newer
<1> HIDE DEF Newer
<1>4. /\ \A n \in D : ~Newer(n, n)
      /\ \A m, n \in D : m # n => Newer(m, n) \/ Newer(n, m)
      /\ \A l, m, n \in D : Newer(l, m) /\ Newer(m, n) => Newer(l, n)
  BY <1>1, <1>2, <1>3
<1>5. IsFiniteSet(D) /\ Cardinality(D) = N
  <2>1. IsFiniteSet(1..N) /\ Cardinality(1..N) = IF 1 > N THEN 0 ELSE N - 1 + 1
    BY <1>1, FS_Interval
  <2>2. (IF 1 > N THEN 0 ELSE N - 1 + 1) = N
    BY <1>1
  <2>3. QED
    BY <2>1, <2>2
<1>6. \A n \in D : Up(n) \in SUBSET D /\ IsFiniteSet(Up(n)) /\ Place(n) \in D
  <2> SUFFICES ASSUME NEW n \in D PROVE Up(n) \in SUBSET D /\ IsFiniteSet(Up(n)) /\ Place(n) \in D
    OBVIOUS
  <2>1. Up(n) \in SUBSET D /\ n \in Up(n)
    OBVIOUS
  <2> HIDE DEF Up
  <2>2. IsFiniteSet(Up(n)) /\ Place(n) <= N /\ Place(n) \in Nat
    BY <1>5, <2>1, FS_Subset, FS_CardinalityType
  <2>3. Place(n) # 0
    BY <2>1, <2>2, FS_EmptySet
  <2>4. QED
    BY <1>1, <2>1, <2>2, <2>3
<1>7. ASSUME NEW m \in D, NEW n \in D, Newer(m, n) PROVE Place(m) < Place(n)
  <2>1. Up(m) \in SUBSET Up(n)
    BY <1>4, <1>7
  <2>2. n \in Up(n) /\ n \notin Up(m)
    BY <1>4, <1>7
  <2>3. IsFiniteSet(Up(n)) /\ Place(m) \in Nat /\ Place(n) \in Nat
    <3> HIDE DEF Up, Place
    <3>1. IsFiniteSet(Up(n)) /\ Place(m) \in D /\ Place(n) \in D
      BY <1>6
    <3>2. QED
      BY <3>1
  <2> HIDE DEF Up
  <2>4. Place(m) <= Place(n) /\ Place(m) # Place(n)
    BY <2>1, <2>2, <2>3, FS_Subset
  <2>5. QED
    BY <2>3, <2>4
<1>8. \A k \in D : \E n \in D : Place(n) = k
  <2> HIDE DEF Place
  <2>1. f \in [D -> D]
    BY <1>6
  <2>2. ASSUME NEW m \in D, NEW n \in D, f[m] = f[n] PROVE m = n
    <3>1. Place(m) = Place(n) /\ Place(m) \in Nat /\ Place(n) \in Nat
      <4>1. Place(m) = f[m] /\ Place(n) = f[n]
        OBVIOUS
      <4>2. Place(m) \in D /\ Place(n) \in D
        BY <1>6
      <4> HIDE DEF f
      <4>3. QED
        BY <2>2, <4>1, <4>2
    <3>2. ~Newer(m, n) /\ ~Newer(n, m)
      BY <1>7, <3>1
    <3>3. QED
      BY <1>4, <3>2
  <2>3. f \in Injection(D, D)
    BY <2>1, <2>2 DEF Injection, IsInjective
  <2>4. f \in Surjection(D, D)
    <3> HIDE DEF f, D
    <3> QED
      BY <1>5, <2>3, FS_Injection
  <2>5. \A k \in D : \E n \in D : f[n] = k
    BY <2>4 DEF Surjection
  <2>6. QED
    BY <2>5
<1>9. \A k \in D : Order(k) \in D /\ Place(Order(k)) = k
  BY <1>8
<1>10. \A n \in D : \E k \in D : Order(k) = n
  <2> SUFFICES ASSUME NEW n \in D PROVE Order(Place(n)) = n /\ Place(n) \in D
    OBVIOUS
  <2>1. Place(n) \in D
    BY <1>6
  <2>2. Place(Order(Place(n))) = Place(n) /\ Order(Place(n)) \in D
    BY <1>9, <2>1
  <2> HIDE DEF Place, Order
  <2>3. Order(Place(n)) = n
    <3>1. Place(Order(Place(n))) \in Nat /\ Place(n) \in Nat
      BY <2>1, <2>2
    <3>2. ~Newer(Order(Place(n)), n) /\ ~Newer(n, Order(Place(n)))
      BY <1>7, <2>2, <3>1
    <3>3. QED
      BY <1>4, <2>2, <3>2
  <2>4. QED
    BY <2>1, <2>3
<1>11. Records!ListRuns = [k \in D |-> rRuns[Order(k)]]
  <2>1. \A n \in D : Records!Place(n) = Place(n)
    <3>1. \A n \in D : Records!Place(n) = Cardinality({m \in D : m = n \/ Records!Newer(m, n)})
      <4>1. \A n : Records!Place(n) = Cardinality({m \in DOMAIN rRuns : m = n \/ Records!Newer(m, n)})
        BY SameSize DEF Records!Place
      <4>2. DOMAIN rRuns = D
        BY <1>1
      <4> HIDE DEF D
      <4>3. QED
        BY <4>1, <4>2
    <3>2. QED
      BY <3>1 DEF Newer
  <2> HIDE DEF Place
  <2> DEFINE At(k) == CHOOSE n \in DOMAIN rRuns : Records!Place(n) = k
  <2>2. Records!ListRuns = [k \in DOMAIN rRuns |-> rRuns[At(k)]]
    BY DEF Records!ListRuns
  <2>3. \A k \in D : At(k) = Order(k)
    BY <1>1, <2>1
  <2> HIDE DEF Order, At
  <2>4. QED
    BY <1>1, <2>2, <2>3
<1> HIDE DEF Order, Place
<1>12. \A j, k \in D : j < k => Newer(Order(j), Order(k))
  BY <1>1, <1>4, <1>7, <1>9
<1>13. \A k \in D : Records!ListRuns[k] = rRuns[Order(k)] /\ Order(k) \in D
  BY <1>9, <1>11
<1>14. Records!ListRuns \in [D -> Run]
  BY <1>2, <1>9, <1>11
<1>15. ASSUME NEW j \in D, NEW k \in D, j < k PROVE Before(Records!ListRuns[j], Records!ListRuns[k])
  <2>1. Newer(Order(j), Order(k)) /\ Order(j) \in D /\ Order(k) \in D
    BY <1>9, <1>12, <1>15
  <2>2. QED
    BY <1>1, <1>3, <1>13, <2>1 DEF Before
<1>16. \A k \in D : Records!ListRuns[k] \in Made
  BY <1>1, <1>13 DEF Made
<1>17. \A t \in Made : \E k \in D : Records!ListRuns[k] = t
  <2>1. ASSUME NEW n \in D PROVE \E k \in D : Records!ListRuns[k] = rRuns[n]
    <3>1. PICK k \in D : Order(k) = n
      BY <1>10
    <3>2. QED
      BY <1>13, <3>1
  <2>2. QED
    BY <1>1, <2>1 DEF Made
<1>18. QED
  BY <1>1, <1>14, <1>15, <1>16, <1>17


(* The order of the list is strict.                                         *)
LEMMA Ordered ==
    ASSUME RecordsTyped, RowsApart
    PROVE  /\ \A s \in Made : ~Before(s, s)
           /\ \A s, t \in Made : ~(Before(s, t) /\ Before(t, s))
           /\ \A s, t, u \in Made : Before(s, t) /\ Before(t, u) => Before(s, u)
<1> DEFINE N == Len(rRuns)
<1>1. N \in Nat /\ DOMAIN rRuns = 1..N
  BY LenProperties DEF RecordsTyped
<1>2. \A n \in 1..N : rRuns[n] \in Run /\ rStarted[rRuns[n]] \in Nat
  BY <1>1 DEF RecordsTyped
<1>3. \A m, n \in 1..N :
         Before(rRuns[m], rRuns[n]) <=> \/ rStarted[rRuns[m]] > rStarted[rRuns[n]]
                                        \/ rStarted[rRuns[m]] = rStarted[rRuns[n]] /\ m < n
  BY <1>1 DEF Before, RowsApart
<1>4. Made = {rRuns[n] : n \in 1..N}
  BY <1>1 DEF Made
<1> HIDE DEF N
<1>5. \A n \in 1..N : ~Before(rRuns[n], rRuns[n])
  BY <1>1, <1>2, <1>3
<1>6. \A m, n \in 1..N : ~(Before(rRuns[m], rRuns[n]) /\ Before(rRuns[n], rRuns[m]))
  BY <1>1, <1>2, <1>3
<1>7. \A l, m, n \in 1..N :
         Before(rRuns[l], rRuns[m]) /\ Before(rRuns[m], rRuns[n]) => Before(rRuns[l], rRuns[n])
  BY <1>1, <1>2, <1>3
<1>8. QED
  BY <1>4, <1>5, <1>6, <1>7

(* A page that starts after the run at a place of the list.                  *)
LEMMA PageTaken ==
    ASSUME RecordsTyped, RowsApart, NEW at \in 0..Len(rRuns)
    PROVE  LET rest == SubSeq(Records!ListRuns, at + 1, Len(rRuns))
               k    == IF Len(rRuns) - at < Limit THEN Len(rRuns) - at ELSE Limit
           IN  /\ k \in 0..Len(rRuns) /\ at + k <= Len(rRuns)
               /\ Records!Take(rest) \in Seq(Run) /\ Len(Records!Take(rest)) = k
               /\ \A i \in 1..k : Records!Take(rest)[i] = Records!ListRuns[at + i]
               /\ Len(rest) > Limit <=> at + k < Len(rRuns)
               /\ Len(rest) > Limit => k # 0
<1> DEFINE N == Len(rRuns)
           L == Records!ListRuns
           rest == SubSeq(L, at + 1, N)
           k == IF N - at < Limit THEN N - at ELSE Limit
<1>0. Limit \in Nat /\ Limit # 0
  BY HostAssumption DEF Records!RunRecordsAssumption
<1>1. N \in Nat /\ at \in Nat /\ at <= N /\ \A i \in 1..N : L[i] \in Run
  BY Listing
<1> HIDE DEF N, L
<1>2. /\ k \in Nat /\ at + k <= N /\ k <= N - at
      /\ N - at > Limit <=> at + k < N
      /\ N - at > Limit => k # 0
  BY <1>0, <1>1
<1>3. rest \in Seq(Run) /\ Len(rest) = N - at /\ \A i \in 1..(N - at) : rest[i] = L[at + i]
  <2>1. at + 1 \in Int /\ N \in Int /\ \A i \in (at + 1)..N : L[i] \in Run
    BY <1>1
  <2>2. /\ rest \in Seq(Run)
        /\ Len(rest) = IF at + 1 <= N THEN N - (at + 1) + 1 ELSE 0
        /\ \A i \in 1..(N - (at + 1) + 1) : rest[i] = L[at + 1 + i - 1]
    BY <2>1, SubSeqProperties
  <2> HIDE DEF rest
  <2>3. Len(rest) = N - at
    BY <1>1, <2>2
  <2>4. ASSUME NEW i \in 1..(N - at) PROVE rest[i] = L[at + i]
    <3>1. i \in 1..(N - (at + 1) + 1) /\ at + 1 + i - 1 = at + i
      BY <1>1
    <3>2. QED
      BY <2>2, <3>1
  <2>5. QED
    BY <2>2, <2>3, <2>4
<1> HIDE DEF rest
<1>4. Records!Take(rest) = SubSeq(rest, 1, k)
  BY <1>3 DEF Records!Take
<1>5. \A i \in 1..k : i \in 1..(N - at)
  BY <1>1, <1>2
<1> HIDE DEF k
<1>6. /\ SubSeq(rest, 1, k) \in Seq(Run) /\ Len(SubSeq(rest, 1, k)) = k
      /\ \A i \in 1..k : SubSeq(rest, 1, k)[i] = rest[i]
  <2>1. 1 \in Int /\ k \in Int /\ \A i \in 1..k : rest[i] \in Run
    BY <1>2, <1>3, <1>5, ElementOfSeq
  <2>2. /\ SubSeq(rest, 1, k) \in Seq(Run)
        /\ Len(SubSeq(rest, 1, k)) = IF 1 <= k THEN k - 1 + 1 ELSE 0
        /\ \A i \in 1..(k - 1 + 1) : SubSeq(rest, 1, k)[i] = rest[1 + i - 1]
    BY <2>1, SubSeqProperties
  <2>3. (IF 1 <= k THEN k - 1 + 1 ELSE 0) = k /\ k - 1 + 1 = k
    BY <1>2
  <2>4. \A i \in 1..k : 1 + i - 1 = i
    BY <1>2
  <2>5. QED
    BY <2>2, <2>3, <2>4
<1>7. k \in 0..N
  BY <1>1, <1>2
<1>8. QED
  BY <1>2, <1>3, <1>4, <1>5, <1>6, <1>7 DEF N, L, rest, k

(* The walk goes on after the last run it has read.                          *)
LEMMA WalkGoesOn ==
    ASSUME RecordsTyped, RowsApart,
           NEW at \in 0..Len(rRuns), NEW read \in Seq(Run), NEW first \in SUBSET Made,
           at = 0 => Len(read) = 0,
           at # 0 => Len(read) # 0 /\ read[Len(read)] = Records!ListRuns[at],
           \A m \in 1..Len(read) : read[m] \in Made,
           \A m, n \in 1..Len(read) : m < n => Before(read[m], read[n]),
           \A t \in first : \/ \E m \in 1..Len(read) : read[m] = t
                            \/ Len(read) # 0 => Before(read[Len(read)], t)
    PROVE  LET rest == SubSeq(Records!ListRuns, at + 1, Len(rRuns))
               q == read \o Records!Take(rest)
           IN  /\ q \in Seq(Run)
               /\ \A m \in 1..Len(q) : q[m] \in Made
               /\ \A m, n \in 1..Len(q) : m < n => Before(q[m], q[n])
               /\ Len(rest) > Limit => Len(q) # 0
               /\ \A t \in first : \/ \E m \in 1..Len(q) : q[m] = t
                                   \/ Len(rest) > Limit /\ Before(q[Len(q)], t)
<1> DEFINE N == Len(rRuns)
           L == Records!ListRuns
           rest == SubSeq(L, at + 1, N)
           k == IF N - at < Limit THEN N - at ELSE Limit
           T == Records!Take(rest)
           q == read \o T
           r == Len(read)
<1>1. /\ k \in Nat /\ at + k <= N /\ T \in Seq(Run) /\ Len(T) = k
      /\ \A i \in 1..k : T[i] = L[at + i]
      /\ Len(rest) > Limit <=> at + k < N
      /\ Len(rest) > Limit => k # 0
  BY PageTaken
<1>2. /\ N \in Nat /\ at \in Nat /\ at <= N /\ r \in Nat
      /\ \A i \in 1..N : L[i] \in Made
      /\ \A t \in Made : \E i \in 1..N : L[i] = t
      /\ \A i, j \in 1..N : i < j => Before(L[i], L[j])
  BY Listing, LenProperties
<1> DEFINE goes == Len(rest) > Limit
<1> HIDE DEF N, L, k, T, rest, goes
<1>3. /\ q \in Seq(Run) /\ Len(q) = r + k
      /\ \A i \in 1..r : q[i] = read[i]
      /\ \A i \in 1..k : q[r + i] = L[at + i]
  <2>1. /\ q \in Seq(Run) /\ Len(q) = r + Len(T)
        /\ \A i \in 1..(r + Len(T)) : q[i] = IF i <= r THEN read[i] ELSE T[i - r]
    BY <1>1, ConcatProperties
  <2> HIDE DEF q, r
  <2>2. ASSUME NEW i \in 1..r PROVE q[i] = read[i]
    <3>1. i \in 1..(r + Len(T)) /\ i <= r
      BY <1>1, <1>2
    <3>2. QED
      BY <2>1, <3>1
  <2>3. ASSUME NEW i \in 1..k PROVE q[r + i] = L[at + i]
    <3> DEFINE j == r + i
    <3>1. j \in 1..(r + Len(T)) /\ ~(j <= r) /\ j - r = i
      BY <1>1, <1>2
    <3> HIDE DEF j
    <3>2. q[j] = T[j - r]
      BY <2>1, <3>1
    <3>3. q[j] = L[at + i]
      BY <1>1, <3>1, <3>2
    <3>4. QED
      BY <3>3 DEF j
  <2>4. QED
    BY <1>1, <2>1, <2>2, <2>3
<1>4. \A i \in 1..k : at + i \in 1..N /\ L[at + i] \in Made
  BY <1>1, <1>2
<1>5. \A m \in 1..(r + k) : m \in 1..r \/ \E i \in 1..k : m = r + i
  <2> SUFFICES ASSUME NEW m \in 1..(r + k) PROVE m \in 1..r \/ \E i \in 1..k : m = r + i
    OBVIOUS
  <2>1. CASE m <= r
    BY <1>2, <2>1
  <2>2. CASE ~(m <= r)
    <3>1. m - r \in 1..k /\ m = r + (m - r)
      BY <1>1, <1>2, <2>2
    <3>2. QED
      BY <3>1
  <2>3. QED
    BY <2>1, <2>2
<1>6. at # 0 => at \in 1..N
  BY <1>2
<1>7. ASSUME NEW m \in 1..r, NEW i \in 1..k PROVE Before(read[m], L[at + i])
  <2>1. r # 0 /\ at # 0 /\ r \in 1..r
    BY <1>2, <1>7
  <2>2. read[r] = L[at] /\ at \in 1..N
    BY <1>6, <2>1 DEF L
  <2>3. Before(L[at], L[at + i])
    BY <1>1, <1>2, <1>4, <2>2
  <2>4. CASE m = r
    BY <2>2, <2>3, <2>4
  <2>5. CASE m # r
    <3>1. Before(read[m], L[at])
      BY <1>2, <2>1, <2>2, <2>5
    <3>2. read[m] \in Made /\ L[at] \in Made /\ L[at + i] \in Made
      BY <1>2, <1>4, <2>2
    <3>3. QED
      BY <2>3, <3>1, <3>2, Ordered
  <2>6. QED
    BY <2>4, <2>5
<1> HIDE DEF q, r
<1>8. ASSUME NEW m \in 1..(r + k), NEW n \in 1..(r + k), m < n PROVE Before(q[m], q[n])
  <2>1. CASE n \in 1..r
    <3>1. m \in 1..r
      BY <1>1, <1>2, <1>8, <2>1
    <3>2. QED
      BY <1>3, <1>8, <2>1, <3>1 DEF r
  <2>2. CASE \E j \in 1..k : n = r + j
    <3>1. PICK j \in 1..k : n = r + j
      BY <2>2
    <3>2. CASE m \in 1..r
      BY <1>3, <1>7, <3>1, <3>2
    <3>3. CASE \E i \in 1..k : m = r + i
      <4>1. PICK i \in 1..k : m = r + i
        BY <3>3
      <4>2. at + i < at + j
        BY <1>1, <1>2, <1>8, <3>1, <4>1
      <4>3. Before(L[at + i], L[at + j])
        BY <1>2, <1>4, <4>2
      <4>4. QED
        BY <1>3, <3>1, <4>1, <4>3
    <3>4. QED
      BY <1>5, <3>2, <3>3
  <2>3. QED
    BY <1>5, <2>1, <2>2
<1>9. \A m \in 1..(r + k) : q[m] \in Made
  <2> SUFFICES ASSUME NEW m \in 1..(r + k) PROVE q[m] \in Made
    OBVIOUS
  <2>1. CASE m \in 1..r
    BY <1>3, <2>1 DEF r
  <2>2. CASE \E i \in 1..k : m = r + i
    BY <1>3, <1>4, <2>2
  <2>3. QED
    BY <1>5, <2>1, <2>2
<1>10. ASSUME NEW t \in first
       PROVE  (\E m \in 1..(r + k) : q[m] = t) \/ (goes /\ Before(q[r + k], t))
  <2>1. CASE \E m \in 1..r : read[m] = t
    <3>1. PICK m \in 1..r : read[m] = t
      BY <2>1
    <3>2. m \in 1..(r + k) /\ q[m] = t
      BY <1>1, <1>2, <1>3, <3>1
    <3>3. QED
      BY <3>2
  <2>2. CASE r # 0 => Before(read[r], t)
    <3>1. PICK i \in 1..N : L[i] = t
      BY <1>2
    <3>2. at < i
      <4>1. CASE at = 0
        BY <1>2, <4>1
      <4>2. CASE at # 0
        <5>1. r # 0 /\ read[r] = L[at] /\ at \in 1..N
          BY <1>6, <4>2 DEF r, L
        <5>2. Before(L[at], t) /\ L[at] \in Made /\ t \in Made
          BY <1>2, <2>2, <5>1
        <5>3. ~Before(t, L[at]) /\ t # L[at]
          BY <5>2, Ordered
        <5>4. ~(i < at) /\ i # at
          BY <1>2, <3>1, <5>1, <5>3
        <5>5. QED
          BY <1>2, <5>4
      <4>3. QED
        BY <4>1, <4>2
    <3>3. CASE i <= at + k
      <4>1. i - at \in 1..k /\ at + (i - at) = i
        BY <1>1, <1>2, <3>2, <3>3
      <4>2. q[r + (i - at)] = L[at + (i - at)]
        BY <1>3, <4>1
      <4>3. q[r + (i - at)] = t /\ r + (i - at) \in 1..(r + k)
        BY <1>1, <1>2, <3>1, <4>1, <4>2
      <4>4. QED
        BY <4>3
    <3>4. CASE ~(i <= at + k)
      <4>1. at + k < N /\ at + k < i
        BY <1>1, <1>2, <3>4
      <4>2. goes /\ k # 0
        BY <1>1, <4>1 DEF goes
      <4>3. k \in 1..k
        BY <1>1, <4>2
      <4>4. q[r + k] = L[at + k] /\ at + k \in 1..N
        BY <1>3, <1>4, <4>3
      <4>5. Before(L[at + k], t)
        BY <1>2, <3>1, <4>1, <4>4
      <4>6. QED
        BY <4>2, <4>4, <4>5
    <3>5. QED
      BY <3>3, <3>4
  <2>3. QED
    BY <2>1, <2>2 DEF r
<1>11. goes => r + k # 0
  BY <1>1, <1>2 DEF goes
<1>12. QED
  BY <1>3, <1>8, <1>9, <1>10, <1>11 DEF q, T, rest, L, N, goes


(* The records begin with it.                                             *)
LEMMA RecordsInit == ASSUME Records!Init PROVE RecordsInv
<1>1. rRuns = <<>> /\ rRuns \in Seq(Run) /\ DOMAIN rRuns = {} /\ rPage = Records!NoWalk
  BY DEF Records!Init
<1>2. /\ Records!NoWalk \in [read : Seq(Run), first : SUBSET Run, more : BOOLEAN]
      /\ DOMAIN Records!NoWalk.read = {} /\ Records!NoWalk.first = {} /\ ~Records!NoWalk.more
  <2>1. <<>> \in Seq(Run) /\ {} \in SUBSET Run /\ DOMAIN <<>> = {}
    OBVIOUS
  <2>2. QED
    BY <2>1 DEF Records!NoWalk
<1>3. RecordsTyped
  BY <1>1, <1>2 DEF Records!Init, RecordsTyped, Stages
<1>4. RowsApart /\ Walking
  BY <1>1, <1>2 DEF RowsApart, Walking
<1>5. Counting
  BY DEF Counting, Records!Init
<1>6. QED
  BY <1>3, <1>4, <1>5 DEF RecordsInv

(* A step of another side keeps it.                                       *)
LEMMA RecordsStays ==
    ASSUME RecordsInv,
           UNCHANGED <<rClock, rPc, rStarted, rRuns, rStatus, rUsage, rCounters, rRow, rPage, rBounds>>
    PROVE  RecordsInv'
BY DEF RecordsInv, RecordsTyped, RowsApart, Counting, Walking, Before, Made

(* A walk is not disturbed when no row goes and the order is kept.           *)
LEMMA WalkKept ==
    ASSUME RecordsTyped, Walking, rPage' = rPage, Made \subseteq Made',
           \A s, t \in Made : Before(s, t) => Before(s, t)'
    PROVE  Walking'
<1> DEFINE read == rPage.read
<1>1. \A m \in DOMAIN read : read[m] \in Made
  BY DEF Walking
<1>2. ASSUME NEW m \in DOMAIN read, NEW n \in DOMAIN read, m < n PROVE Before(read[m], read[n])'
  BY <1>1, <1>2 DEF Walking
<1>3. ASSUME NEW t \in rPage.first
      PROVE  /\ t \in Made'
             /\ \/ \E m \in DOMAIN read : read[m] = t
                \/ rPage.more /\ Before(read[Len(read)], t)'
  <2>1. t \in Made /\ t \in Made'
    BY DEF Walking
  <2>2. CASE \E m \in DOMAIN read : read[m] = t
    BY <2>1, <2>2
  <2>3. CASE rPage.more /\ Before(read[Len(read)], t)
    <3>1. read \in Seq(Run) /\ Len(read) # 0
      BY <2>3 DEF RecordsTyped, Walking
    <3>2. Len(read) \in DOMAIN read
      BY <3>1, LenProperties
    <3>3. read[Len(read)] \in Made
      BY <1>1, <3>2
    <3>4. Before(read[Len(read)], t)'
      BY <2>1, <2>3, <3>3
    <3>5. QED
      BY <2>1, <2>3, <3>4
  <2>4. QED
    BY <2>2, <2>3 DEF Walking
<1>4. QED
  BY <1>1, <1>2, <1>3 DEF Walking

(* A step that leaves rows, starts and the page alone keeps the walk.     *)
LEMMA RowsKept ==
    ASSUME Walking, RowsApart, UNCHANGED <<rRuns, rStarted, rPage>>,
           \A n \in DOMAIN rRuns : rPc'[rRuns[n]] \notin {"idle", "began"}
    PROVE  Walking' /\ RowsApart'
BY DEF RowsApart, Walking, Before, Made


(* The first page, and the next.                                             *)
Pages == [read : Seq(Run), first : SUBSET Run, more : BOOLEAN]
(* The first page begins a walk.                                          *)
LEMMA FirstRead == ASSUME RecordsInv, Records!FirstPage PROVE Walking' /\ rPage' \in Pages
<1> USE DEF RecordsInv
<1> DEFINE L == Records!ListRuns
           rest == SubSeq(L, 0 + 1, Len(rRuns))
           T == Records!Take(rest)
<1>1. /\ rPage' = [read |-> Records!Take(Records!Detail(Nobody)), first |-> Records!ToSet(rRuns),
                   more |-> Len(Records!Detail(Nobody)) > Limit]
      /\ UNCHANGED <<rRuns, rStarted>>
  BY DEF Records!FirstPage, Records!store
<1>2. /\ Len(rRuns) \in Nat /\ DOMAIN rRuns = 1..Len(rRuns) /\ L \in [1..Len(rRuns) -> Run]
      /\ Records!ListRuns \in Seq(Run) /\ Len(L) = Len(rRuns)
  BY Listing
<1>3. Nobody \notin Records!ToSet(L)
  <2>1. Nobody \notin Run
    BY HostAssumption DEF Records!RunRecordsAssumption
  <2>2. QED
    BY <1>2, <2>1 DEF Records!ToSet
<1> HIDE DEF L
<1>4. Records!Detail(Nobody) = rest
  BY <1>2, <1>3 DEF Records!Detail, L
<1>5. Records!ToSet(rRuns) = Made
  BY DEF Records!ToSet, Made
<1> DEFINE q == <<>> \o T
<1>6. /\ q \in Seq(Run)
      /\ \A m \in 1..Len(q) : q[m] \in Made
      /\ \A m, n \in 1..Len(q) : m < n => Before(q[m], q[n])
      /\ Len(rest) > Limit => Len(q) # 0
      /\ \A t \in Made : \/ \E m \in 1..Len(q) : q[m] = t
                         \/ Len(rest) > Limit /\ Before(q[Len(q)], t)
  <2>1. 0 \in 0..Len(rRuns) /\ <<>> \in Seq(Run) /\ Len(<<>>) = 0 /\ Made \in SUBSET Made
    BY <1>2, EmptySeq
  <2>2. 1..Len(<<>>) = {}
    BY <2>1
  <2>3. QED
    BY <2>1, <2>2, WalkGoesOn DEF L
<1>7. q = T
  <2>1. T \in Seq(Run)
    <3>1. 0 \in 0..Len(rRuns)
      BY <1>2
    <3>2. QED
      BY <3>1, PageTaken DEF L
  <2> HIDE DEF T
  <2>2. QED
    BY <2>1, ConcatEmptySeq
<1> HIDE DEF T, rest
<1>8. DOMAIN T = 1..Len(T)
  BY <1>6, <1>7, LenProperties
<1>9. rPage'.read = T /\ rPage'.first = Made /\ (rPage'.more <=> Len(rest) > Limit)
  BY <1>1, <1>4, <1>5 DEF T
<1>10. Made' = Made /\ \A s, t : Before(s, t)' <=> Before(s, t)
  BY <1>1 DEF Made, Before
<1>11. rPage' \in Pages
  <2>1. Made \in SUBSET Run
    BY <1>2 DEF Made, RecordsTyped
  <2>2. rPage' = [read |-> T, first |-> Made, more |-> Len(rest) > Limit]
    BY <1>1, <1>4, <1>5 DEF T
  <2>3. T \in Seq(Run)
    BY <1>6, <1>7
  <2>4. QED
    BY <2>1, <2>2, <2>3 DEF Pages
<1> HIDE DEF q
<1>12. QED
  BY <1>6, <1>7, <1>8, <1>9, <1>10, <1>11 DEF Walking

(* A further page goes on with it.                                        *)
LEMMA NextRead == ASSUME RecordsInv, Records!NextPage PROVE Walking' /\ rPage' \in Pages
<1> USE DEF RecordsInv
<1> DEFINE L == Records!ListRuns
           read == rPage.read
           last == read[Len(read)]
           at == CHOOSE n \in DOMAIN L : L[n] = last
           rest == SubSeq(L, at + 1, Len(rRuns))
           T == Records!Take(rest)
           q == read \o T
<1>1. /\ rPage.more
      /\ rPage' = [rPage EXCEPT !.read = read \o Records!Take(Records!Detail(Records!Last(read))),
                                !.more = Len(Records!Detail(Records!Last(read))) > Limit]
      /\ UNCHANGED <<rRuns, rStarted>>
  BY DEF Records!NextPage, Records!store
<1>2. /\ Len(rRuns) \in Nat /\ DOMAIN rRuns = 1..Len(rRuns) /\ L \in [1..Len(rRuns) -> Run]
      /\ L \in Seq(Run) /\ Len(L) = Len(rRuns)
      /\ \A t \in Made : \E n \in 1..Len(rRuns) : L[n] = t
  BY Listing
<1>3. /\ read \in Seq(Run) /\ Len(read) \in Nat /\ DOMAIN read = 1..Len(read)
      /\ Len(read) # 0 /\ last \in Made
  <2>1. read \in Seq(Run) /\ Len(read) # 0
    BY <1>1 DEF RecordsTyped, Walking
  <2>2. Len(read) \in Nat /\ DOMAIN read = 1..Len(read)
    BY <2>1, LenProperties
  <2>3. Len(read) \in DOMAIN read
    BY <2>1, <2>2
  <2>4. last \in Made
    BY <2>3 DEF Walking
  <2>5. QED
    BY <2>1, <2>2, <2>4
<1> HIDE DEF L
<1>4. at \in 1..Len(rRuns) /\ L[at] = last
  <2>1. \E n \in DOMAIN L : L[n] = last
    BY <1>2, <1>3
  <2>2. at \in DOMAIN L /\ L[at] = last
    BY <2>1
  <2> HIDE DEF at
  <2>3. QED
    BY <1>2, <2>2
<1>5. Records!Detail(Records!Last(read)) = rest
  <2>1. Records!Last(read) = last
    BY DEF Records!Last
  <2>2. last \in Records!ToSet(L)
    BY <1>2, <1>4 DEF Records!ToSet
  <2>3. QED
    BY <1>2, <2>1, <2>2 DEF Records!Detail, L
<1> HIDE DEF at
<1>6. /\ q \in Seq(Run)
      /\ \A m \in 1..Len(q) : q[m] \in Made
      /\ \A m, n \in 1..Len(q) : m < n => Before(q[m], q[n])
      /\ Len(rest) > Limit => Len(q) # 0
      /\ \A t \in rPage.first : \/ \E m \in 1..Len(q) : q[m] = t
                                \/ Len(rest) > Limit /\ Before(q[Len(q)], t)
  <2>1. at \in 0..Len(rRuns) /\ at # 0
    BY <1>2, <1>4
  <2>2. rPage.first \in SUBSET Made
    BY DEF Walking
  <2>3. /\ \A m \in 1..Len(read) : read[m] \in Made
        /\ \A m, n \in 1..Len(read) : m < n => Before(read[m], read[n])
        /\ \A t \in rPage.first : \/ \E m \in 1..Len(read) : read[m] = t
                                  \/ Len(read) # 0 => Before(last, t)
    BY <1>3 DEF Walking
  <2> HIDE DEF read
  <2>4. QED
    BY <1>3, <1>4, <2>1, <2>2, <2>3, WalkGoesOn DEF L
<1> HIDE DEF T, rest
<1>7. DOMAIN q = 1..Len(q)
  BY <1>6, LenProperties
<1>8. rPage'.read = q /\ rPage'.first = rPage.first /\ (rPage'.more <=> Len(rest) > Limit)
  BY <1>1, <1>5 DEF T, RecordsTyped
<1>9. Made' = Made /\ \A s, t : Before(s, t)' <=> Before(s, t)
  BY <1>1 DEF Made, Before
<1>10. \A t \in rPage.first : t \in Made
  BY DEF Walking
<1>11. rPage' \in Pages
  <2>1. rPage \in Pages
    BY DEF Pages, RecordsTyped
  <2>2. rPage' = [rPage EXCEPT !.read = q, !.more = Len(rest) > Limit]
    <3>1. read \o Records!Take(Records!Detail(Records!Last(read))) = q
      BY <1>5 DEF T
    <3> DEFINE more == Len(rest) > Limit
    <3>2. (Len(Records!Detail(Records!Last(read))) > Limit) = more
      BY <1>5
    <3> HIDE DEF more, q
    <3>3. QED
      BY <1>1, <3>1, <3>2 DEF more
  <2>3. (Len(rest) > Limit) \in BOOLEAN
    OBVIOUS
  <2> HIDE DEF q
  <2>4. QED
    BY <1>6, <2>1, <2>2, <2>3 DEF Pages
<1> HIDE DEF q
<1>12. QED
  BY <1>6, <1>7, <1>8, <1>9, <1>10, <1>11 DEF Walking


(* Every step of a run or of a reader keeps it.                           *)
LEMMA RecordsStepped == ASSUME RecordsInv, Records!Next PROVE RecordsInv'
<1> USE DEF RecordsInv, Records!Goes, Records!store
<1>0. /\ Len(rRuns) \in Nat /\ DOMAIN rRuns = 1..Len(rRuns)
      /\ \A n \in DOMAIN rRuns : rRuns[n] \in Run
  BY LenProperties DEF RecordsTyped
<1>1. CASE Records!Tick
  BY <1>1 DEF Records!Tick, RecordsTyped, RowsApart, Counting, Walking, Before, Made
<1>2. CASE Records!Crash
  <2>1. /\ rBounds' = [rBounds EXCEPT !.crashes = rBounds.crashes + 1]
        /\ rPc' = [t \in Run |-> IF rPc[t] = "idle" THEN "idle" ELSE "ended"]
        /\ rCounters' = rRow /\ rPage' = Records!NoWalk
        /\ UNCHANGED <<rClock, rStarted, rRuns, rStatus, rUsage, rRow>>
    BY <1>2 DEF Records!Crash
  <2>2. /\ Records!NoWalk \in Pages
        /\ DOMAIN Records!NoWalk.read = {} /\ Records!NoWalk.first = {} /\ ~Records!NoWalk.more
    <3>1. <<>> \in Seq(Run) /\ {} \in SUBSET Run /\ DOMAIN <<>> = {}
      OBVIOUS
    <3>2. QED
      BY <3>1 DEF Records!NoWalk, Pages
  <2>3. RecordsTyped'
    <3>1. rBounds \in [stops : Nat, walks : Nat, crashes : Nat]
      BY DEF RecordsTyped
    <3>2. rBounds' \in [stops : Nat, walks : Nat, crashes : Nat]
      BY <2>1, <3>1
    <3>3. rPc' \in [Run -> Stages]
      BY <2>1 DEF Stages
    <3>4. QED
      BY <2>1, <2>2, <3>2, <3>3 DEF RecordsTyped, Pages
  <2>4. RowsApart' /\ Walking'
    <3>1. \A n \in DOMAIN rRuns : rPc'[rRuns[n]] = "ended"
      BY <1>0, <2>1 DEF RowsApart
    <3>2. RowsApart'
      BY <2>1, <3>1 DEF RowsApart
    <3>3. Walking'
      BY <2>1, <2>2 DEF Walking
    <3>4. QED
      BY <3>2, <3>3
  <2>5. Counting'
    <3>1. rBounds'.crashes # 0
      BY <2>1 DEF RecordsTyped
    <3>2. QED
      BY <2>1, <3>1 DEF Counting
  <2>6. QED
    BY <2>3, <2>4, <2>5
<1>3. CASE Records!FirstPage
  <2>1. /\ rBounds' = [rBounds EXCEPT !.walks = rBounds.walks + 1]
        /\ UNCHANGED <<rClock, rPc, rStarted, rRuns, rStatus, rUsage, rRow, rCounters>>
    BY <1>3 DEF Records!FirstPage
  <2>2. Walking' /\ rPage' \in Pages
    BY <1>3, FirstRead
  <2>3. rBounds' \in [stops : Nat, walks : Nat, crashes : Nat] /\ rBounds'.crashes = rBounds.crashes
    <3>1. rBounds \in [stops : Nat, walks : Nat, crashes : Nat]
      BY DEF RecordsTyped
    <3>2. QED
      BY <2>1, <3>1
  <2>4. RecordsTyped' /\ RowsApart' /\ Counting'
    BY <2>1, <2>2, <2>3 DEF RecordsTyped, RowsApart, Counting, Pages
  <2>5. QED
    BY <2>2, <2>4
<1>4. CASE Records!NextPage
  <2>1. UNCHANGED <<rClock, rPc, rStarted, rRuns, rStatus, rUsage, rRow, rCounters, rBounds>>
    BY <1>4 DEF Records!NextPage
  <2>2. Walking' /\ rPage' \in Pages
    BY <1>4, NextRead
  <2>3. RecordsTyped' /\ RowsApart' /\ Counting'
    BY <2>1, <2>2 DEF RecordsTyped, RowsApart, Counting, Pages
  <2>4. QED
    BY <2>2, <2>3
<1>5. ASSUME NEW t \in Run, Records!Begin(t) PROVE RecordsInv'
  <2>1. /\ rPc[t] = "idle" /\ rPc' = [rPc EXCEPT ![t] = "began"]
        /\ rStarted' = [rStarted EXCEPT ![t] = rClock]
        /\ UNCHANGED <<rClock, rRuns, rStatus, rUsage, rRow, rCounters, rPage, rBounds>>
    BY <1>5 DEF Records!Begin
  <2>2. \A n \in DOMAIN rRuns : rRuns[n] # t
    BY <2>1 DEF RowsApart
  <2>3. RecordsTyped' /\ Counting'
    BY <2>1 DEF RecordsTyped, Counting, Stages
  <2>4. RowsApart'
    BY <1>0, <2>1, <2>2 DEF RowsApart, RecordsTyped
  <2>5. Walking'
    <3>1. Made' = Made /\ \A s \in Made : s # t /\ s \in Run
      BY <1>0, <2>1, <2>2 DEF Made
    <3>2. \A s \in Made : rStarted'[s] = rStarted[s]
      BY <2>1, <3>1 DEF RecordsTyped
    <3>3. \A r, s \in Made : Before(r, s) => Before(r, s)'
      BY <2>1, <3>2 DEF Before
    <3>4. QED
      BY <2>1, <3>1, <3>3, WalkKept
  <2>6. QED
    BY <2>3, <2>4, <2>5
<1>6. ASSUME NEW t \in Run, Records!CreateRun(t) PROVE RecordsInv'
  <2>1. /\ rPc[t] = "began" /\ rPc' = [rPc EXCEPT ![t] = "waiting"] /\ rRuns' = Append(rRuns, t)
        /\ rStatus' = [rStatus EXCEPT ![t] = "running"]
        /\ UNCHANGED <<rClock, rStarted, rUsage, rRow, rCounters, rPage, rBounds>>
    BY <1>6 DEF Records!CreateRun
  <2>2. /\ rRuns' \in Seq(Run) /\ DOMAIN rRuns' = 1..(Len(rRuns) + 1)
        /\ \A n \in DOMAIN rRuns : n \in DOMAIN rRuns' /\ rRuns'[n] = rRuns[n]
        /\ rRuns'[Len(rRuns) + 1] = t
        /\ \A n \in DOMAIN rRuns' : n \in DOMAIN rRuns \/ n = Len(rRuns) + 1
    <3>1. rRuns \in Seq(Run)
      BY DEF RecordsTyped
    <3>2. QED
      BY <1>0, <2>1, <3>1
  <2>3. \A n \in DOMAIN rRuns : rRuns[n] # t
    BY <2>1 DEF RowsApart
  <2>4. RecordsTyped' /\ Counting'
    BY <2>1, <2>2 DEF RecordsTyped, Counting, Stages
  <2>5. RowsApart'
    <3>1. ASSUME NEW m \in DOMAIN rRuns', NEW n \in DOMAIN rRuns', rRuns'[m] = rRuns'[n] PROVE m = n
      BY <2>2, <2>3, <3>1 DEF RowsApart
    <3>2. ASSUME NEW n \in DOMAIN rRuns' PROVE rPc'[rRuns'[n]] \notin {"idle", "began"}
      <4>1. CASE n \in DOMAIN rRuns
        BY <1>0, <2>1, <2>2, <2>3, <4>1 DEF RowsApart, RecordsTyped
      <4>2. CASE n = Len(rRuns) + 1
        BY <2>1, <2>2, <4>2 DEF RecordsTyped
      <4>3. QED
        BY <2>2, <4>1, <4>2
    <3>3. QED
      BY <3>1, <3>2 DEF RowsApart
  <2>6. Walking'
    <3>1. Made \subseteq Made'
      BY <2>2 DEF Made
    <3>2. \A r, s \in Made : Before(r, s) => Before(r, s)'
      <4> SUFFICES ASSUME NEW r \in Made, NEW s \in Made, Before(r, s) PROVE Before(r, s)'
        OBVIOUS
      <4>1. CASE rStarted[r] > rStarted[s]
        BY <2>1, <4>1 DEF Before
      <4>2. CASE \E m, n \in DOMAIN rRuns : rRuns[m] = r /\ rRuns[n] = s /\ m < n
        <5>1. PICK m \in DOMAIN rRuns, n \in DOMAIN rRuns : rRuns[m] = r /\ rRuns[n] = s /\ m < n
          BY <4>2
        <5>2. m \in DOMAIN rRuns' /\ n \in DOMAIN rRuns' /\ rRuns'[m] = r /\ rRuns'[n] = s /\ m < n
          BY <2>2, <5>1
        <5>3. (rStarted[r] > rStarted[s] \/ rStarted[r] = rStarted[s]) /\ rStarted' = rStarted
          BY <2>1 DEF Before
        <5>4. QED
          BY <5>2, <5>3 DEF Before
      <4>3. QED
        BY <4>1, <4>2 DEF Before
    <3>3. QED
      BY <2>1, <3>1, <3>2, WalkKept
  <2>7. QED
    BY <2>4, <2>5, <2>6
<1>7. ASSUME NEW t \in Run,
             Records!Lock(t) \/ Records!Fail(t) \/ Records!UpdateUsage(t) \/ Records!Count(t)
               \/ Records!Persist(t) \/ Records!End(t)
      PROVE RecordsInv'
  <2>1. \E to \in Stages \ {"idle", "began"} : rPc' = [rPc EXCEPT ![t] = to]
    BY <1>7 DEF Records!Lock, Records!Fail, Records!UpdateUsage, Records!Count, Records!Persist,
                Records!End, Stages
  <2>2. UNCHANGED <<rClock, rStarted, rRuns, rPage, rBounds>>
    BY <1>7 DEF Records!Lock, Records!Fail, Records!UpdateUsage, Records!Count, Records!Persist,
                Records!End
  <2>3. Walking' /\ RowsApart'
    <3>1. \A n \in DOMAIN rRuns : rPc'[rRuns[n]] \notin {"idle", "began"}
      BY <1>0, <2>1 DEF RowsApart, RecordsTyped
    <3>2. QED
      BY <2>2, <3>1, RowsKept
  <2>4. RecordsTyped' /\ Counting'
    <3>1. CASE Records!Lock(t)
      <4>1. /\ rPc' = [rPc EXCEPT ![t] = "running"] /\ rPc[t] = "waiting"
            /\ UNCHANGED <<rStatus, rUsage, rRow, rCounters>>
        BY <3>1 DEF Records!Lock
      <4>2. QED
        BY <2>2, <4>1 DEF RecordsTyped, Counting, Stages
    <3>2. CASE Records!Fail(t)
      <4>1. /\ rPc' = [rPc EXCEPT ![t] = "ended"] /\ rPc[t] = "running"
            /\ rStatus' = [rStatus EXCEPT ![t] = "failed"] \/ rStatus' = rStatus
            /\ UNCHANGED <<rUsage, rRow, rCounters>>
        BY <3>2 DEF Records!Fail
      <4>2. QED
        BY <2>2, <4>1 DEF RecordsTyped, Counting, Stages
    <3>3. CASE Records!UpdateUsage(t)
      <4>1. /\ rPc' = [rPc EXCEPT ![t] = "paid"] /\ rPc[t] = "running"
            /\ rUsage' = rUsage \cup {t}
            /\ UNCHANGED <<rStatus, rRow, rCounters>>
        BY <3>3 DEF Records!UpdateUsage
      <4>2. QED
        BY <2>2, <4>1 DEF RecordsTyped, Counting, Stages
    <3>4. CASE Records!Count(t)
      <4>1. /\ rPc' = [rPc EXCEPT ![t] = "counted"] /\ rPc[t] = "paid"
            /\ rCounters' = rCounters \cup {t}
            /\ UNCHANGED <<rStatus, rRow, rUsage>>
        BY <3>4 DEF Records!Count
      <4>2. QED
        BY <2>2, <4>1 DEF RecordsTyped, Counting, Stages
    <3>5. CASE Records!Persist(t)
      <4>1. /\ rPc' = [rPc EXCEPT ![t] = "saved"] /\ rPc[t] = "counted"
            /\ rRow' = rCounters
            /\ UNCHANGED <<rStatus, rUsage, rCounters>>
        BY <3>5 DEF Records!Persist
      <4>2. QED
        BY <2>2, <4>1 DEF RecordsTyped, Counting, Stages
    <3>6. CASE Records!End(t)
      <4>1. /\ rPc' = [rPc EXCEPT ![t] = "ended"] /\ rPc[t] = "saved"
            /\ rStatus' = [rStatus EXCEPT ![t] = "success"]
            /\ UNCHANGED <<rUsage, rRow, rCounters>>
        BY <3>6 DEF Records!End
      <4>2. QED
        BY <2>2, <4>1 DEF RecordsTyped, Counting, Stages
    <3>7. QED
      BY <1>7, <3>1, <3>2, <3>3, <3>4, <3>5, <3>6
  <2>5. QED
    BY <2>3, <2>4
<1>8. ASSUME NEW t \in Run, NEW action \in {"stop", "archived"}, Records!ControlRun(t, action)
      PROVE RecordsInv'
  <2>1. /\ rBounds' = [rBounds EXCEPT !.stops = rBounds.stops + 1]
        /\ \E said \in {"stopped", "archived"} : rStatus' = [rStatus EXCEPT ![t] = said]
        /\ UNCHANGED <<rClock, rPc, rStarted, rRuns, rUsage, rRow, rCounters, rPage>>
    BY <1>8 DEF Records!ControlRun
  <2>2. rBounds' \in [stops : Nat, walks : Nat, crashes : Nat] /\ rBounds'.crashes = rBounds.crashes
    <3>1. rBounds \in [stops : Nat, walks : Nat, crashes : Nat]
      BY DEF RecordsTyped
    <3>2. QED
      BY <2>1, <3>1
  <2>3. RecordsTyped' /\ Counting'
    BY <2>1, <2>2 DEF RecordsTyped, Counting
  <2>4. Walking' /\ RowsApart'
    BY <2>1, RowsKept DEF RowsApart
  <2>5. QED
    BY <2>3, <2>4
<1>9. QED
  BY <1>1, <1>2, <1>3, <1>4, <1>5, <1>6, <1>7, <1>8 DEF Records!Next

(* It implies that pages are whole and counters are of runs.              *)
LEMMA RecordsHold == ASSUME RecordsInv PROVE Records!PagesWhole /\ Records!CountersAreRuns
<1> USE DEF RecordsInv
<1> DEFINE read == rPage.read
<1>1. Records!PagesWhole
  <2>1. read \in Seq(Run) /\ Len(read) \in Nat /\ DOMAIN read = 1..Len(read)
    BY LenProperties DEF RecordsTyped
  <2>2. \A m \in DOMAIN read : read[m] \in Made /\ read[m] \in Run /\ rStarted[read[m]] \in Nat
    BY <2>1 DEF RecordsTyped, Walking
  <2>3. \A m, n \in DOMAIN read : m < n => Before(read[m], read[n])
    BY DEF Walking
  <2>4. \A m, n \in DOMAIN read : read[m] = read[n] => m = n
    <3>1. \A m, n \in DOMAIN read : m < n => read[m] # read[n]
      BY <2>2, <2>3, Ordered
    <3>2. \A m, n \in DOMAIN read : m < n \/ n < m \/ m = n
      BY <2>1
    <3>3. QED
      BY <3>1, <3>2
  <2>5. \A m, n \in DOMAIN read : m < n => rStarted[read[m]] >= rStarted[read[n]]
    BY <2>2, <2>3 DEF Before
  <2>6. ~rPage.more => rPage.first \subseteq Records!ToSet(read)
    BY DEF Walking, Records!ToSet
  <2>7. QED
    BY <2>4, <2>5, <2>6 DEF Records!PagesWhole, Records!IsInjective
<1>2. Records!CountersAreRuns
  <2>1. Records!Summary.counted = rCounters
        /\ Records!Summary.missing = Cardinality(Records!ToSet(rRuns) \ rUsage)
    BY SameSize DEF Records!Summary
  <2>2. rRow \subseteq rCounters /\ rCounters \subseteq rUsage
    BY DEF Counting
  <2>3. rBounds.crashes = 0 => rUsage \ rCounters \subseteq {t \in Run : rPc[t] = "paid"}
    BY DEF Counting, RecordsTyped
  <2>4. \A t \in Run : rPc[t] \in {"saved", "ended"} /\ rStatus[t] = "success" => t \in rRow
    BY DEF Counting
  <2>5. Cardinality({t \in Records!ToSet(rRuns) : t \notin rCounters})
          >= Cardinality(Records!ToSet(rRuns) \ rUsage)
    <3> DEFINE S == Records!ToSet(rRuns)
               uncounted == {t \in S : t \notin rCounters}
               unpaid == S \ rUsage
    <3>1. Len(rRuns) \in Nat /\ DOMAIN rRuns = 1..Len(rRuns) /\ rRuns \in [1..Len(rRuns) -> Run]
      BY LenProperties DEF RecordsTyped
    <3>2. S = {rRuns[n] : n \in 1..Len(rRuns)}
      BY <3>1 DEF Records!ToSet
    <3>3. rRuns \in Surjection(1..Len(rRuns), S)
      BY <3>1, <3>2 DEF Surjection
    <3>4. IsFiniteSet(1..Len(rRuns))
      BY <3>1, FS_Interval
    <3> HIDE DEF S
    <3>5. IsFiniteSet(S)
      BY <3>3, <3>4, FS_Surjection
    <3>6. IsFiniteSet(uncounted)
      BY <3>5, FS_Subset
    <3>7. unpaid \in SUBSET uncounted
      BY <2>2
    <3> HIDE DEF uncounted, unpaid
    <3>8. Cardinality(unpaid) <= Cardinality(uncounted) /\ Cardinality(unpaid) \in Nat
          /\ Cardinality(uncounted) \in Nat
      BY <3>6, <3>7, FS_Subset, FS_CardinalityType
    <3>9. QED
      BY <3>8 DEF S, uncounted, unpaid
  <2>6. QED
    BY <2>1, <2>2, <2>3, <2>4, <2>5, SameSize DEF Records!CountersAreRuns
<1>3. QED
  BY <1>1, <1>2

(***************************************************************************)
(* All parts that surround turns.  A behaviour is about one of them, of     *)
(* which its invariant holds.                                              *)
(***************************************************************************)
HostInv ==
    /\ side = "configuration" => ConfigurationInv
    /\ side = "migration" => MigrationInv
    /\ side = "delegation" => DelegationInv
    /\ side = "records" => RecordsInv

(* A step of Hosting is a step of one side.                               *)
LEMMA HostSteps ==
    ASSUME [HostNext]_hostVars
    PROVE  /\ side' = side
           /\ side = "configuration" => Conf!Next \/ UNCHANGED configurationVars
           /\ side = "migration" => Store!Next \/ UNCHANGED migrationVars
           /\ side = "delegation" => Agents!Next \/ UNCHANGED delegationVars
           /\ side = "records" => Records!Next \/ UNCHANGED recordsVars
BY DEF HostNext, TurnStep, StreamStep, ConfigurationStep, MigrationStep, DelegationStep, RecordsStep,
       hostVars

(* Each side keeps its invariant in every behaviour.                      *)
LEMMA HostKeep ==
    /\ HostInit => HostInv
    /\ HostInv /\ [HostNext]_hostVars => HostInv'
<1>1. ASSUME HostInit PROVE HostInv
  <2>1. /\ side = "configuration" => Conf!Init
        /\ side = "migration" => Store!Init
        /\ side = "delegation" => Agents!Init
        /\ side = "records" => Records!Init
    BY <1>1 DEF HostInit
  <2>2. QED
    BY <2>1, ConfigurationInit, MigrationInit, DelegationInit, RecordsInit DEF HostInv
<1>2. ASSUME HostInv, [HostNext]_hostVars PROVE HostInv'
  <2>1. side' = side
    BY <1>2, HostSteps
  <2>2. ASSUME side = "configuration" PROVE ConfigurationInv'
    <3>1. ConfigurationInv /\ (Conf!Next \/ UNCHANGED configurationVars)
      BY <1>2, <2>2, HostSteps DEF HostInv
    <3>2. QED
      BY <3>1, ConfigurationStepped, ConfigurationStays DEF configurationVars
  <2>3. ASSUME side = "migration" PROVE MigrationInv'
    <3>1. MigrationInv /\ (Store!Next \/ UNCHANGED migrationVars)
      BY <1>2, <2>3, HostSteps DEF HostInv
    <3>2. QED
      BY <3>1, MigrationStepped, MigrationStays
  <2>4. ASSUME side = "delegation" PROVE DelegationInv'
    <3>1. DelegationInv /\ (Agents!Next \/ UNCHANGED delegationVars)
      BY <1>2, <2>4, HostSteps DEF HostInv
    <3>2. QED
      BY <3>1, DelegationStepped, DelegationStays
  <2>5. ASSUME side = "records" PROVE RecordsInv'
    <3>1. RecordsInv /\ (Records!Next \/ UNCHANGED recordsVars)
      BY <1>2, <2>5, HostSteps DEF HostInv
    <3>2. QED
      BY <3>1, RecordsStepped, RecordsStays DEF recordsVars
  <2>6. QED
    BY <2>1, <2>2, <2>3, <2>4, <2>5 DEF HostInv
<1>3. QED
  BY <1>1, <1>2

(* A configuration that was found valid can be started, and one that runs    *)
(* and is written back as it was read loads as itself, whatever clients      *)
(* change and wherever a write is interrupted (config, validation.rs).      *)
THEOREM ConfigurationsBoot == HostSpec => []ValidConfigBoots
<1>1. HostInv => ValidConfigBoots
  BY ConfigurationBoots DEF HostInv, ValidConfigBoots
<1>2. QED
  BY <1>1, HostKeep, PTL DEF HostSpec

(* No turn sends a provider the llm of another one, with an override or      *)
(* without, whatever the configuration became (models.rs, session service). *)
THEOREM ProvidersAreOwn == HostSpec => OwnProvider
<1>1. [HostNext]_hostVars
         => [cRan' # cRan /\ cRan'.llm # Conf!None
                => cConfig.llms[cRan'.llm].provider = cRan'.provider]_(Conf!vars)
  <2>1. [HostNext]_hostVars => Conf!Next \/ UNCHANGED Conf!vars
    BY DEF HostNext, TurnStep, StreamStep, ConfigurationStep, MigrationStep, DelegationStep, RecordsStep,
           hostVars, configurationVars, Conf!vars
  <2>2. QED
    BY <2>1, ProviderOwns
<1>2. QED
  BY <1>1, PTL DEF HostSpec, OwnProvider, Conf!OwnProvider

(* A start on a database of any earlier version leaves the schema of this    *)
(* one and every row, and so does one that is interrupted anywhere and       *)
(* repeated (sqlite_manager.rs).                                            *)
THEOREM SchemasAreKept == HostSpec => []SchemaKept
<1>1. HostInv => SchemaKept
  BY MigrationCurrent DEF HostInv, SchemaKept
<1>2. QED
  BY <1>1, HostKeep, PTL DEF HostSpec

(* A sub-agent that runs is the one that was asked for, with the text of its *)
(* skill or its agent and the tools its turn had and no others (agent.rs).  *)
THEOREM DelegationsRun == HostSpec => []RunsAsAsked
<1>1. HostInv => RunsAsAsked
  BY DelegationRuns DEF HostInv, RunsAsAsked
<1>2. QED
  BY <1>1, HostKeep, PTL DEF HostSpec

(* Who walks through the pages of a session's runs sees each run there was   *)
(* at the beginning, none twice and the newest first, while runs are made,   *)
(* and what the session has counted is the usage of its runs (token usage    *)
(* detail of the workspace, run repository).                                *)
THEOREM RecordsAreTrue == HostSpec => []RecordsTrue
<1>1. HostInv => RecordsTrue
  BY RecordsHold DEF HostInv, RecordsTrue
<1>2. QED
  BY <1>1, HostKeep, PTL DEF HostSpec
==============================================================================
