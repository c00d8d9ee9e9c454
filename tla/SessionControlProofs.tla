------------------------ MODULE SessionControlProofs ------------------------
(***************************************************************************)
(* Proofs about SessionControl: types, what of the object reaches the row,  *)
(* the counts that are not lost, and the one name a session is given.       *)
(***************************************************************************)
EXTENDS SessionControl, SequenceTheorems, FiniteSetTheorems, TLAPS

(***************************************************************************)
(* Types.                                                                  *)
(***************************************************************************)
Saving == {"read", "sync", "clone", "write"}
Gens   == {<<"gen", g>> : g \in Gen}

Local == [field : Field \cup {"none"}, call : {0} \cup Call, length : {0} \cup Length,
          title : Title, snap : State, name : Name, saves : BOOLEAN,
          next : {"idle", "schedule", "spawn"}]

(* What the place of an actor says of its local variables. *)
LocalFits(a) ==
    /\ pc[a] \in {"idle", "generate", "name"} => local[a] = NoLocal
    /\ local[a].next = "spawn" => pc[a] \in Saving \cup {"spawn"}
    /\ pc[a] \in {"apply", "push", "saveMessage"} => local[a].saves = FALSE
    /\ pc[a] = "apply" => local[a].field \in Field /\ local[a].call \in Call
    /\ pc[a] \in {"schedule", "spawn"} => local[a].next = pc[a]
    /\ local[a].next # "idle" \/ pc[a] \in {"push", "saveMessage"} => local[a].field = "none"
    /\ a \in Task => pc[a] \notin {"generate", "name"}
    /\ a \in Gens => /\ pc[a] \in {"idle", "generate", "name"} \cup Saving
                     /\ local[a].next = "idle" /\ local[a].field = "none"
                     /\ a[2] > started => pc[a] = "idle"
    /\ local[a].field # "none" => local[a].field \in Field /\ local[a].call \in Call

TypeInv ==
    /\ mem \in Object /\ row \in Row
    /\ pc \in [Actor -> Label] /\ local \in [Actor -> Local]
    /\ calls \in 0 .. MaxCalls /\ started \in Nat
    /\ cloned \in Seq(Actor) /\ overtaken \in BOOLEAN
    /\ acked \in [Field -> {0} \cup Call]
    /\ errors \in Nat /\ crashes \in 0 .. MaxCrashes
    /\ \A a \in Actor : LocalFits(a)

(***************************************************************************)
(* At most one actor is at work on a title, and generations are numbered.  *)
(***************************************************************************)
Owes(a)   == local[a].next = "spawn"
Worker(a) == Owes(a) \/ pc[a] = "generate"

WorkInv ==
    /\ \A a \in Actor : Worker(a) => mem.title.status = "pending" /\ mem.title.source = "default"
    /\ \A a, b \in Actor : Worker(a) /\ Worker(b) => a = b
    /\ \A a \in Actor : pc[a] = "name" => mem.title.source = "ai"
    /\ \A a, b \in Actor : pc[a] = "name" /\ pc[b] = "name" => a = b
    /\ started <= crashes * MaxAttempts + mem.title.attempts
    /\ \A a \in Actor : Owes(a) => started < crashes * MaxAttempts + mem.title.attempts

(***************************************************************************)
(* Every copy of the title state is one that the object once had.          *)
(***************************************************************************)
NotAfter(t, u) == Version(t) <= Version(u) /\ (Version(t) = Version(u) => t = u)
Behind(t) == NotAfter(t, mem.title)

CopyInv ==
    /\ Behind(mem.state.synced) /\ Behind(row.state.synced)
    /\ \A a \in Actor : /\ pc[a] = "sync" => Behind(local[a].title)
                        /\ pc[a] = "write" => Behind(local[a].snap.synced)

CloneInv ==
    /\ \A i \in DOMAIN cloned : pc[cloned[i]] = "write"
    /\ \A i, j \in DOMAIN cloned : cloned[i] = cloned[j] => i = j

(***************************************************************************)
(* Names.                                                                  *)
(***************************************************************************)
(* No generation will be started, or go on, for this title. *)
Closed(title) == title.status = "pending" \/ title.source = "ai"

Live == overtaken => crashes = 0

(* A title that is not older than the last attempt at u. *)
Since(t, u) == Version(t) >= 3 * u.attempts
Recent(t) == Since(t, mem.title)

(* Who will save a title for its own generation. *)
NameOnce ==
    /\ row.name \in {0, mem.name}
    /\ \A a \in Actor : pc[a] = "write" => local[a].name \in {0, mem.name}
    /\ mem.name # 0 => /\ Closed(mem.title)
                       /\ \A a \in Actor : ~Worker(a) /\ pc[a] # "name"

(* The attempt is in the control state before the generator starts, and in  *)
(* every clone that has the name.                                           *)
AttemptSaved ==
    /\ mem.name # 0 => Recent(mem.state.synced)
    /\ \A a \in Actor :
          /\ \/ pc[a] \in {"spawn", "generate", "name"}
             \/ Owes(a) /\ pc[a] \in {"clone", "write"}
             => Recent(mem.state.synced)
          /\ Owes(a) /\ pc[a] = "sync" => Recent(local[a].title)
    /\ \A i \in DOMAIN cloned :
          local[cloned[i]].name # 0 => Recent(local[cloned[i]].snap.synced)
    /\ row.name # 0 => Recent(row.state.synced)
    /\ row.name # 0 => \A i \in DOMAIN cloned : local[cloned[i]].name # 0
    /\ \A i, j \in DOMAIN cloned :
          i < j /\ local[cloned[i]].name # 0 => local[cloned[j]].name # 0

NameInv ==
    /\ Live => NameOnce
    /\ ~overtaken => AttemptSaved

(***************************************************************************)
(* What is saved.                                                          *)
(***************************************************************************)
Latest == IF cloned = <<>> THEN row.state ELSE local[cloned[Len(cloned)]].snap

StateComing == \E a \in Actor : pc[a] \in {"read", "sync", "clone"}
TitleComing == \E a \in Actor : \/ pc[a] \in {"read", "name"}
                                \/ pc[a] = "sync" /\ local[a].title = mem.title
NameComing  == \E a \in Actor :
                  /\ local[a].saves
                  /\ \/ pc[a] \in {"read", "sync", "clone"}
                     \/ pc[a] = "write" /\ local[a].name = mem.name

StateSaved == Latest = mem.state \/ StateComing
TitleSaved == mem.state.synced = mem.title \/ TitleComing
NameSaved  == row.name = mem.name \/ NameComing

SaveInv == errors = 0 /\ ~overtaken => StateSaved /\ TitleSaved /\ NameSaved

(***************************************************************************)
(* Counts.                                                                 *)
(***************************************************************************)
Counted(a) ==
    pc[a] \in Saving /\ local[a].field \in Added /\ local[a].field # "none" =>
        local[a].call \in mem.state.control[local[a].field]

CountInv == CountsKept /\ \A a \in Actor : Counted(a)

SavedInv == TypeInv /\ WorkInv /\ CopyInv /\ CloneInv /\ NameInv /\ SaveInv /\ CountInv
(***************************************************************************)
(* What each action does, field by field.                                  *)
(***************************************************************************)
Same(a) == \A b \in Actor : b # a => pc'[b] = pc[b] /\ local'[b] = local[b]

(* Of the local variables of a, all but those of the fields fs are kept.    *)
Keeps(a, fs) ==
    /\ "field" \notin fs => local'[a].field = local[a].field
    /\ "call" \notin fs => local'[a].call = local[a].call
    /\ "title" \notin fs => local'[a].title = local[a].title
    /\ "snap" \notin fs => local'[a].snap = local[a].snap
    /\ "name" \notin fs => local'[a].name = local[a].name
    /\ "saves" \notin fs => local'[a].saves = local[a].saves
    /\ "next" \notin fs => local'[a].next = local[a].next

LEMMA GotoEffect ==
    ASSUME TypeInv, NEW a \in Actor, NEW l \in Label, Goto(a, l)
    PROVE  /\ pc' \in [Actor -> Label] /\ pc'[a] = l
           /\ \A b \in Actor : b # a => pc'[b] = pc[b]
  BY DEF TypeInv, Goto

LEMMA NoLocalTyped ==
    /\ NoLocal \in Local
    /\ NoLocal.field = "none" /\ NoLocal.call = 0 /\ NoLocal.saves = FALSE
    /\ NoLocal.next = "idle" /\ NoLocal.name = 0
  <1>1. NoTitle \in Title
    BY SessionControlAssumption DEF NoTitle, Title, Source, Status
  <1>2. Blank \in State
    BY <1>1 DEF Blank, State, Control
  <1> QED  BY <1>1, <1>2 DEF NoLocal, Local, Name

LEMMA ReturnEffect ==
    ASSUME TypeInv, NEW a \in Actor, Return(a)
    PROVE  /\ pc' \in [Actor -> Label] /\ pc'[a] = "idle"
           /\ local' \in [Actor -> Local] /\ local'[a] = NoLocal /\ Same(a)
  <1>1. "idle" \in Label /\ Goto(a, "idle")
    BY DEF Return, Label
  <1>2. NoLocal \in Local
    BY NoLocalTyped
  <1>3. /\ local' \in [Actor -> Local] /\ local'[a] = NoLocal
        /\ \A b \in Actor : b # a => local'[b] = local[b]
    BY <1>2 DEF TypeInv, Return
  <1> QED  BY <1>1, <1>3, GotoEffect DEF Same

LEMMA PersistEffect ==
    ASSUME TypeInv, NEW a \in Actor, NEW saves \in BOOLEAN,
           NEW l \in {"idle", "schedule", "spawn"}, Persist(a, saves, l)
    PROVE  /\ pc' \in [Actor -> Label] /\ pc'[a] = "read"
           /\ local' \in [Actor -> Local] /\ Same(a)
           /\ Keeps(a, {"saves", "next"})
           /\ local'[a].saves = saves /\ local'[a].next = l
  <1>1. "read" \in Label /\ Goto(a, "read")
    BY DEF Persist, Label
  <1>2. local[a] \in Local /\ local \in [Actor -> Local]
    BY DEF TypeInv
  <1>3. local'[a] = [local[a] EXCEPT !.saves = saves, !.next = l]
    BY <1>2 DEF Persist
  <1>4. /\ local'[a] \in Local /\ Keeps(a, {"saves", "next"})
        /\ local'[a].saves = saves /\ local'[a].next = l
    BY <1>2, <1>3 DEF Local, Keeps
  <1>5. /\ \A b \in Actor : b # a => local'[b] = local[b]
        /\ DOMAIN local' = Actor /\ local' = [b \in Actor |-> local'[b]]
    BY <1>2 DEF Persist
  <1>6. local' \in [Actor -> Local]
    BY <1>2, <1>4, <1>5
  <1> QED  BY <1>1, <1>4, <1>5, <1>6, GotoEffect DEF Same
LEMMA MemTyped ==
    ASSUME TypeInv
    PROVE  /\ mem.state \in State /\ mem.state.control \in Control
           /\ mem.state.synced \in Title /\ mem.title \in Title
           /\ mem.name \in Name /\ mem.texts \in Nat /\ mem.chars \in Nat
           /\ row.state \in State /\ row.state.synced \in Title /\ row.name \in Name
           /\ row.texts \in Nat /\ row.chars \in Nat
           /\ \A a \in Actor :
                 /\ local[a] \in Local /\ local[a].title \in Title
                 /\ local[a].snap \in State /\ local[a].snap.synced \in Title
                 /\ local[a].name \in Name /\ local[a].saves \in BOOLEAN
                 /\ local[a].next \in {"idle", "schedule", "spawn"}
                 /\ local[a].length \in {0} \cup Length
                 /\ local[a].field \in Field \cup {"none"}
                 /\ local[a].call \in {0} \cup Call
  BY DEF TypeInv, Object, Row, State, Local

LEMMA TaskActor ==
    ASSUME NEW t \in Task
    PROVE  t \in Actor /\ t \notin Gens
  BY ActorAssumption DEF Actor, Gens

LEMMA GenActor ==
    ASSUME NEW g \in Gens
    PROVE  g \in Actor /\ g \notin Task /\ g[1] = "gen" /\ g[2] \in Gen /\ g[2] \in Nat
  <1> PICK n \in Gen : g = <<"gen", n>>
    BY DEF Gens
  <1> QED  BY ActorAssumption DEF Actor, Gens, Gen

LEMMA UpdateEffect ==
    ASSUME TypeInv, NEW t \in Task, NEW f \in Field, Update(t, f)
    PROVE  /\ t \in Actor /\ pc[t] = "idle" /\ pc'[t] = "apply" /\ Same(t)
           /\ pc' \in [Actor -> Label] /\ local' \in [Actor -> Local]
           /\ local'[t].field = f /\ local'[t].call \in Call
           /\ Keeps(t, {"field", "call"})
           /\ calls' \in 0 .. MaxCalls
           /\ UNCHANGED <<mem, row, history, errors, crashes>>
  <1>1. t \in Actor /\ local[t] \in Local /\ local \in [Actor -> Local]
    BY TaskActor DEF TypeInv
  <1>2. "apply" \in Label /\ Goto(t, "apply")
    BY DEF Update, Label
  <1>3. calls + 1 \in Call /\ calls' \in 0 .. MaxCalls
    BY SessionControlAssumption DEF Update, TypeInv, Call
  <1>4. local'[t] = [local[t] EXCEPT !.field = f, !.call = calls + 1]
    BY <1>1 DEF Update
  <1>5. /\ local'[t] \in Local /\ local'[t].field = f /\ local'[t].call \in Call
        /\ Keeps(t, {"field", "call"})
    BY <1>1, <1>3, <1>4 DEF Local, Keeps
  <1>6. /\ \A b \in Actor : b # t => local'[b] = local[b]
        /\ DOMAIN local' = Actor /\ local' = [b \in Actor |-> local'[b]]
    BY <1>1 DEF Update
  <1>7. local' \in [Actor -> Local]
    BY <1>1, <1>5, <1>6
  <1> QED  BY <1>1, <1>2, <1>3, <1>5, <1>6, <1>7, GotoEffect DEF Same, Update

LEMMA AppliedTyped ==
    ASSUME NEW c \in Control, NEW f \in Field, NEW k \in Call
    PROVE  /\ Applied(c, f, k) \in Control
           /\ k \in Applied(c, f, k)[f]
           /\ \A g \in Added : c[g] \subseteq Applied(c, f, k)[g]
  BY DEF Control, Applied, Field

LEMMA ApplyEffect ==
    ASSUME TypeInv, NEW a \in Actor, Apply(a)
    PROVE  /\ pc[a] = "apply" /\ pc'[a] = "read" /\ Same(a)
           /\ pc' \in [Actor -> Label] /\ local' \in [Actor -> Local]
           /\ Keeps(a, {"saves", "next"})
           /\ local'[a].saves = FALSE /\ local'[a].next = "idle"
           /\ local[a].field \in Field /\ local[a].call \in Call
           /\ mem' \in Object
           /\ mem'.state.control = Applied(mem.state.control, local[a].field, local[a].call)
           /\ mem'.state.synced = mem.state.synced
           /\ mem'.title = mem.title /\ mem'.name = mem.name
           /\ UNCHANGED <<row, calls, history, errors, crashes>>
  <1>1. pc[a] = "apply" /\ Persist(a, FALSE, "idle")
    BY DEF Apply
  <1>2. local[a].field \in Field /\ local[a].call \in Call
    BY <1>1 DEF TypeInv, LocalFits
  <1>3. PICK c \in Control : c = Applied(mem.state.control, local[a].field, local[a].call)
    BY <1>2, AppliedTyped, MemTyped
  <1>4. mem' = [mem EXCEPT !.state.control = c]
    BY <1>3, MemTyped DEF Apply, TypeInv, Object, State
  <1>5. mem' = [mem EXCEPT !.state = [mem.state EXCEPT !.control = c]]
    BY <1>4 DEF TypeInv, Object
  <1>6. [mem.state EXCEPT !.control = c] \in State
    BY <1>3, MemTyped DEF State
  <1>7. /\ mem' \in Object /\ mem'.title = mem.title /\ mem'.name = mem.name
        /\ mem'.state = [mem.state EXCEPT !.control = c]
    BY <1>5, <1>6 DEF TypeInv, Object
  <1>8. mem'.state.control = c /\ mem'.state.synced = mem.state.synced
    BY <1>7, MemTyped DEF State
  <1> QED  BY <1>1, <1>2, <1>3, <1>7, <1>8, PersistEffect DEF Apply

LEMMA ReadTitleEffect ==
    ASSUME TypeInv, NEW a \in Actor, ReadTitle(a)
    PROVE  /\ pc[a] = "read" /\ pc'[a] = "sync" /\ Same(a)
           /\ pc' \in [Actor -> Label] /\ local' \in [Actor -> Local]
           /\ Keeps(a, {"title"}) /\ local'[a].title = mem.title
           /\ UNCHANGED <<mem, row, calls, history, errors, crashes>>
  <1>1. "sync" \in Label /\ Goto(a, "sync")
    BY DEF ReadTitle, Label
  <1>2. mem.title \in Title /\ local[a] \in Local /\ local \in [Actor -> Local]
    BY MemTyped DEF TypeInv
  <1>3. local'[a] = [local[a] EXCEPT !.title = mem.title]
    BY <1>2 DEF ReadTitle
  <1>4. local'[a] \in Local /\ Keeps(a, {"title"}) /\ local'[a].title = mem.title
    BY <1>2, <1>3 DEF Local, Keeps
  <1>5. /\ \A b \in Actor : b # a => local'[b] = local[b]
        /\ DOMAIN local' = Actor /\ local' = [b \in Actor |-> local'[b]]
    BY <1>2 DEF ReadTitle
  <1>6. local' \in [Actor -> Local]
    BY <1>2, <1>4, <1>5
  <1> QED  BY <1>1, <1>4, <1>5, <1>6, GotoEffect DEF Same, ReadTitle

LEMMA SyncEffect ==
    ASSUME TypeInv, NEW a \in Actor, Sync(a)
    PROVE  /\ pc[a] = "sync" /\ pc'[a] = "clone" /\ Same(a) /\ local' = local
           /\ pc' \in [Actor -> Label]
           /\ mem' \in Object
           /\ mem'.state.control = mem.state.control
           /\ mem'.state.synced = local[a].title
           /\ mem'.title = mem.title /\ mem'.name = mem.name
           /\ overtaken' = (overtaken \/ Version(local[a].title) < Version(mem.state.synced))
           /\ overtaken' \in BOOLEAN
           /\ UNCHANGED <<row, local, calls, started, cloned, acked, errors, crashes>>
  <1>1. "clone" \in Label /\ Goto(a, "clone")
    BY DEF Sync, Label
  <1>2. PICK t \in Title : t = local[a].title
    BY MemTyped
  <1>3. mem' = [mem EXCEPT !.state = [mem.state EXCEPT !.synced = t]]
    BY <1>2, MemTyped DEF Sync, Synced, TypeInv, Object
  <1>4. [mem.state EXCEPT !.synced = t] \in State
    BY <1>2, MemTyped DEF State
  <1>5. /\ mem' \in Object /\ mem'.title = mem.title /\ mem'.name = mem.name
        /\ mem'.state = [mem.state EXCEPT !.synced = t]
    BY <1>3, <1>4 DEF TypeInv, Object
  <1>6. mem'.state.synced = t /\ mem'.state.control = mem.state.control
    BY <1>5, MemTyped DEF State
  <1> QED  BY <1>1, <1>2, <1>5, <1>6, GotoEffect DEF Same, Sync, TypeInv

LEMMA CloneEffect ==
    ASSUME TypeInv, NEW a \in Actor, Clone(a)
    PROVE  /\ pc[a] = "clone" /\ pc'[a] = "write" /\ Same(a)
           /\ pc' \in [Actor -> Label] /\ local' \in [Actor -> Local]
           /\ Keeps(a, {"snap", "name"})
           /\ local'[a].snap = mem.state /\ local'[a].name = mem.name
           /\ cloned' = Append(cloned, a)
           /\ UNCHANGED <<mem, row, calls, started, overtaken, acked, errors, crashes>>
  <1>1. "write" \in Label /\ Goto(a, "write")
    BY DEF Clone, Label
  <1>2. /\ mem.state \in State /\ mem.name \in Name
        /\ local[a] \in Local /\ local \in [Actor -> Local]
    BY MemTyped DEF TypeInv
  <1>3. local'[a] = [local[a] EXCEPT !.snap = mem.state, !.name = mem.name]
    BY <1>2 DEF Clone
  <1>4. /\ local'[a] \in Local /\ Keeps(a, {"snap", "name"})
        /\ local'[a].snap = mem.state /\ local'[a].name = mem.name
    BY <1>2, <1>3 DEF Local, Keeps
  <1>5. /\ \A b \in Actor : b # a => local'[b] = local[b]
        /\ DOMAIN local' = Actor /\ local' = [b \in Actor |-> local'[b]]
    BY <1>2 DEF Clone
  <1>6. local' \in [Actor -> Local]
    BY <1>2, <1>4, <1>5
  <1> QED  BY <1>1, <1>4, <1>5, <1>6, GotoEffect DEF Same, Clone
(* The sequence d is c with some elements left out.                         *)
Thins(c, d) ==
    \E f \in [DOMAIN d -> DOMAIN c] :
        /\ \A i \in DOMAIN d : d[i] = c[f[i]]
        /\ \A i, j \in DOMAIN d : i < j => f[i] < f[j]

LEMMA Domains ==
    ASSUME NEW S, NEW c \in Seq(S)
    PROVE  DOMAIN c = 1 .. Len(c) /\ Len(c) \in Nat /\ \A i \in DOMAIN c : c[i] \in S
  OBVIOUS

LEMMA LenZero ==
    ASSUME NEW c \in Seq(Actor)
    PROVE  c = <<>> <=> Len(c) = 0
  BY EmptySeq

LEMMA Cut ==
    ASSUME NEW c \in Seq(Actor), NEW m \in Nat, NEW n \in Nat,
           1 <= m, m <= n + 1, n <= Len(c)
    PROVE  /\ SubSeq(c, m, n) \in Seq(Actor) /\ Len(SubSeq(c, m, n)) = n - m + 1
           /\ \A i \in 1 .. n - m + 1 : SubSeq(c, m, n)[i] = c[m + i - 1]
  <1>1. \A i \in m .. n : c[i] \in Actor
    <2> TAKE i \in m .. n
    <2>1. i \in 1 .. Len(c)
      BY LenProperties
    <2> QED  BY <2>1, ElementOfSeq
  <1>2. /\ SubSeq(c, m, n) \in Seq(Actor)
        /\ Len(SubSeq(c, m, n)) = IF m <= n THEN n - m + 1 ELSE 0
        /\ \A i \in 1 .. n - m + 1 : SubSeq(c, m, n)[i] = c[m + i - 1]
    BY <1>1, SubSeqProperties
  <1> QED  BY <1>2

LEMMA Whole ==
    ASSUME NEW c \in Seq(Actor)
    PROVE  Thins(c, c)
  <1> DEFINE f == [i \in DOMAIN c |-> i]
  <1>1. f \in [DOMAIN c -> DOMAIN c]
    OBVIOUS
  <1> QED  BY <1>1 DEF Thins

After(c, p) == SubSeq(c, p + 1, Len(c))

LEMMA CutAfter ==
    ASSUME NEW c \in Seq(Actor), NEW p \in DOMAIN c,
           \A i, j \in DOMAIN c : c[i] = c[j] => i = j,
           NEW d, d = After(c, p)
    PROVE  /\ d \in Seq(Actor) /\ Thins(c, d)
           /\ \A i \in DOMAIN d : d[i] # c[p] /\ \E j \in DOMAIN c : p < j /\ d[i] = c[j]
           /\ c # <<>>
           /\ d # <<>> => d[Len(d)] = c[Len(c)]
           /\ d = <<>> => c[Len(c)] = c[p]
  <1>1. DOMAIN c = 1 .. Len(c) /\ Len(c) \in Nat
    BY Domains
  <1>2. p \in Nat /\ p + 1 \in Nat /\ 1 <= p + 1 /\ p + 1 <= Len(c) + 1
    BY <1>1
  <1>3. /\ d \in Seq(Actor) /\ Len(d) = Len(c) - (p + 1) + 1
        /\ \A i \in 1 .. Len(c) - (p + 1) + 1 : d[i] = c[p + 1 + i - 1]
    BY <1>1, <1>2, Cut DEF After
  <1>4. DOMAIN d = 1 .. Len(d) /\ Len(d) \in Nat /\ Len(d) = Len(c) - p
    BY <1>1, <1>2, <1>3, Domains
  <1>5. \A i \in DOMAIN d : i + p \in DOMAIN c /\ p < i + p /\ d[i] = c[i + p]
    <2> TAKE i \in DOMAIN d
    <2>1. /\ i + p \in DOMAIN c /\ p < i + p /\ p + 1 + i - 1 = i + p
          /\ i \in 1 .. Len(c) - (p + 1) + 1
      BY <1>1, <1>4
    <2>2. d[i] = c[p + 1 + i - 1]
      BY <2>1, <1>3
    <2> QED  BY <2>1, <2>2
  <1>6. Thins(c, d)
    <2> DEFINE f == [i \in DOMAIN d |-> i + p]
    <2>1. f \in [DOMAIN d -> DOMAIN c] /\ \A i \in DOMAIN d : d[i] = c[f[i]]
      BY <1>5
    <2>2. \A i, j \in DOMAIN d : i < j => f[i] < f[j]
      BY <1>1, <1>4
    <2> QED  BY <2>1, <2>2 DEF Thins
  <1>7. \A i \in DOMAIN d : d[i] # c[p] /\ \E j \in DOMAIN c : p < j /\ d[i] = c[j]
    <2> TAKE i \in DOMAIN d
    <2>1. i + p \in DOMAIN c /\ i + p # p /\ p < i + p /\ d[i] = c[i + p]
      BY <1>1, <1>4, <1>5
    <2> QED  BY <2>1
  <1>8. c # <<>>
    BY <1>1
  <1>9. d # <<>> => d[Len(d)] = c[Len(c)]
    <2> SUFFICES ASSUME d # <<>> PROVE d[Len(d)] = c[Len(c)]
      OBVIOUS
    <2>1. Len(d) \in DOMAIN d /\ Len(d) + p = Len(c)
      BY <1>1, <1>3, <1>4, LenZero
    <2> QED  BY <2>1, <1>5
  <1>10. d = <<>> => c[Len(c)] = c[p]
    <2> SUFFICES ASSUME d = <<>> PROVE Len(c) = p
      OBVIOUS
    <2>1. Len(d) = 0
      BY <1>3, LenZero
    <2> QED  BY <2>1, <1>1, <1>4
  <1> QED  BY <1>3, <1>6, <1>7, <1>8, <1>9, <1>10

LEMMA Shift ==
    ASSUME NEW n \in Nat, NEW p \in 1 .. n, NEW i \in 1 .. n - 1, i >= p,
           NEW k, k = i - (p - 1)
    PROVE  k \in 1 .. n - (p + 1) + 1 /\ p + 1 + k - 1 = i + 1
  OBVIOUS

LEMMA CutOut ==
    ASSUME NEW c \in Seq(Actor), NEW p \in DOMAIN c,
           \A i, j \in DOMAIN c : c[i] = c[j] => i = j,
           NEW w, w = RemoveAt(c, p)
    PROVE  /\ w \in Seq(Actor) /\ Thins(c, w)
           /\ \A i \in DOMAIN w : w[i] # c[p]
  <1>1. DOMAIN c = 1 .. Len(c) /\ Len(c) \in Nat
    BY Domains
  <1>2. /\ p \in Nat /\ p - 1 \in Nat /\ 1 <= p - 1 + 1 /\ p - 1 <= Len(c)
        /\ p + 1 \in Nat /\ 1 <= p + 1 /\ p + 1 <= Len(c) + 1
    BY <1>1
  <1> DEFINE d == SubSeq(c, 1, p - 1)
             e == SubSeq(c, p + 1, Len(c))
             at(i) == IF i < p THEN i ELSE i + 1
  <1>3. /\ d \in Seq(Actor) /\ Len(d) = p - 1 - 1 + 1
        /\ \A i \in 1 .. p - 1 - 1 + 1 : d[i] = c[1 + i - 1]
    BY <1>1, <1>2, Cut
  <1>4. /\ e \in Seq(Actor) /\ Len(e) = Len(c) - (p + 1) + 1
        /\ \A i \in 1 .. Len(c) - (p + 1) + 1 : e[i] = c[p + 1 + i - 1]
    BY <1>1, <1>2, Cut
  <1>5. w = d \o e
    BY DEF RemoveAt
  <1> HIDE DEF d, e
  <1>6. /\ w \in Seq(Actor) /\ Len(w) = Len(d) + Len(e)
        /\ \A i \in 1 .. Len(d) + Len(e) :
              w[i] = IF i <= Len(d) THEN d[i] ELSE e[i - Len(d)]
    BY <1>3, <1>4, <1>5, ConcatProperties
  <1>7. /\ Len(d) = p - 1 /\ Len(e) = Len(c) - p /\ Len(w) = Len(c) - 1
        /\ p \in 1 .. Len(c) /\ Len(c) \in Nat
    <2>1. p \in 1 .. Len(c) /\ Len(c) \in Nat
      BY <1>1
    <2>2. Len(d) = p - 1 /\ Len(e) = Len(c) - p
      BY <2>1, <1>3, <1>4
    <2>3. Len(w) = Len(c) - 1
      BY <2>1, <2>2, <1>6
    <2> QED  BY <2>1, <2>2, <2>3
  <1>11. DOMAIN w = 1 .. Len(c) - 1
    BY <1>6, <1>7, Domains
  <1>8. \A i \in DOMAIN w : at(i) \in DOMAIN c /\ at(i) # p /\ w[i] = c[at(i)]
    <2> SUFFICES ASSUME NEW i \in DOMAIN w
                 PROVE  at(i) \in DOMAIN c /\ at(i) # p /\ w[i] = c[at(i)]
      OBVIOUS
    <2>1. i \in 1 .. Len(d) + Len(e) /\ i \in 1 .. Len(c) - 1
      BY <1>7, <1>11
    <2>2. w[i] = IF i <= Len(d) THEN d[i] ELSE e[i - Len(d)]
      BY <2>1, <1>6
    <2>3. CASE i < p
      <3>1. i \in 1 .. p - 1 - 1 + 1 /\ 1 + i - 1 = i /\ i <= Len(d)
        BY <2>1, <2>3, <1>7
      <3>2. w[i] = d[i] /\ d[i] = c[1 + i - 1]
        BY <3>1, <2>2, <1>3
      <3>3. w[i] = c[i]
        BY <3>1, <3>2
      <3> QED  BY <3>3, <2>1, <2>3, <1>1, <1>7
    <2>4. CASE i >= p
      <3> DEFINE k == i - Len(d)
      <3>0. i + 1 \in 1 .. Len(c) /\ k = i - (p - 1) /\ i + 1 # p /\ ~(i <= Len(d))
        BY <2>1, <2>4, <1>7
      <3> HIDE DEF k
      <3>1. k \in 1 .. Len(c) - (p + 1) + 1 /\ p + 1 + k - 1 = i + 1
        BY <3>0, <2>1, <2>4, <1>7, Shift
      <3>4. at(i) = i + 1
        BY <2>1, <2>4, <1>7
      <3>2. w[i] = e[k] /\ e[k] = c[p + 1 + k - 1]
        BY <3>0, <3>1, <2>2, <1>4 DEF k
      <3>3. w[i] = c[i + 1]
        BY <3>1, <3>2
      <3> QED  BY <3>0, <3>3, <3>4, <1>1
    <2> QED  BY <2>1, <2>3, <2>4, <1>2
  <1>9. Thins(c, w)
    <2> DEFINE f == [i \in DOMAIN w |-> at(i)]
    <2>1. f \in [DOMAIN w -> DOMAIN c] /\ \A i \in DOMAIN w : w[i] = c[f[i]]
      BY <1>8
    <2>2. \A i, j \in DOMAIN w : i < j => f[i] < f[j]
      BY <1>7, <1>11
    <2> QED  BY <2>1, <2>2 DEF Thins
  <1>10. \A i \in DOMAIN w : w[i] # c[p]
    BY <1>8
  <1> QED  BY <1>6, <1>9, <1>10

LEMMA PlaceIs ==
    ASSUME cloned \in Seq(Actor), NEW a \in ToSet(cloned)
    PROVE  Place(a) \in DOMAIN cloned /\ cloned[Place(a)] = a
  <1>1. \E i \in DOMAIN cloned : cloned[i] = a
    BY DEF ToSet
  <1> QED  BY <1>1 DEF Place

LEMMA NotIn ==
    ASSUME cloned \in Seq(Actor), NEW a \in Actor
    PROVE  a \notin ToSet(cloned) <=> \A i \in DOMAIN cloned : cloned[i] # a
  BY DEF ToSet

LEMMA YoungerIs ==
    ASSUME cloned \in Seq(Actor), NEW a \in Actor,
           \A i, j \in DOMAIN cloned : cloned[i] = cloned[j] => i = j
    PROVE  \E d \in Seq(Actor) :
           /\ d = Younger(a) /\ Thins(cloned, d)
           /\ \A i \in DOMAIN d : d[i] # a
           /\ d # <<>> => cloned # <<>> /\ d[Len(d)] = cloned[Len(cloned)]
           /\ d = <<>> /\ a \in ToSet(cloned) => cloned # <<>> /\ cloned[Len(cloned)] = a
           /\ a \in ToSet(cloned) => \E p \in DOMAIN cloned :
                 /\ cloned[p] = a
                 /\ \A i \in DOMAIN d : \E j \in DOMAIN cloned : p < j /\ d[i] = cloned[j]
  <1> PICK c \in Seq(Actor) : c = cloned
    OBVIOUS
  <1>1. CASE a \in ToSet(cloned)
    <2> PICK p \in DOMAIN c : p = Place(a) /\ c[p] = a
      BY <1>1, PlaceIs
    <2> DEFINE d == After(c, p)
    <2>1. Younger(a) = d
      BY <1>1 DEF Younger, After
    <2>2. /\ d \in Seq(Actor) /\ Thins(c, d)
          /\ \A i \in DOMAIN d : d[i] # c[p] /\ \E j \in DOMAIN c : p < j /\ d[i] = c[j]
          /\ c # <<>>
          /\ d # <<>> => d[Len(d)] = c[Len(c)]
          /\ d = <<>> => c[Len(c)] = c[p]
      BY CutAfter
    <2> HIDE DEF d
    <2>3. \E q \in DOMAIN cloned :
             /\ cloned[q] = a
             /\ \A i \in DOMAIN d : \E j \in DOMAIN cloned : q < j /\ d[i] = cloned[j]
      BY <2>2
    <2> d \in Seq(Actor)
      BY <2>2
    <2> WITNESS d \in Seq(Actor)
    <2>4. d = Younger(a) /\ Thins(cloned, d)
      BY <2>1, <2>2
    <2>5. \A i \in DOMAIN d : d[i] # a
      BY <2>2
    <2> QED  BY <2>2, <2>3, <2>4, <2>5
  <1>2. CASE a \notin ToSet(cloned)
    <2>1. Younger(a) = c
      BY <1>2 DEF Younger
    <2> QED  BY <1>2, <2>1, Whole, NotIn
  <1> QED  BY <1>1, <1>2

LEMMA WithoutIs ==
    ASSUME cloned \in Seq(Actor), NEW a \in Actor,
           \A i, j \in DOMAIN cloned : cloned[i] = cloned[j] => i = j
    PROVE  \E d \in Seq(Actor) :
           /\ d = Without(a) /\ Thins(cloned, d)
           /\ \A i \in DOMAIN d : d[i] # a
  <1> PICK c \in Seq(Actor) : c = cloned
    OBVIOUS
  <1>1. CASE a \in ToSet(cloned)
    <2> PICK p \in DOMAIN c : p = Place(a) /\ c[p] = a
      BY <1>1, PlaceIs
    <2> DEFINE d == RemoveAt(c, p)
    <2>1. Without(a) = d
      BY <1>1 DEF Without
    <2>2. d \in Seq(Actor) /\ Thins(c, d) /\ \A i \in DOMAIN d : d[i] # c[p]
      BY CutOut
    <2> HIDE DEF d
    <2> QED  BY <2>1, <2>2
  <1>2. CASE a \notin ToSet(cloned)
    <2>1. Without(a) = c
      BY <1>2 DEF Without
    <2> QED  BY <1>2, <2>1, Whole, NotIn
  <1> QED  BY <1>1, <1>2

LEMMA WriteEffect ==
    ASSUME TypeInv, NEW a \in Actor, Write(a)
    PROVE  /\ pc[a] = "write" /\ Same(a)
           /\ pc' \in [Actor -> Label] /\ local' \in [Actor -> Local]
           /\ \/ local[a].next = "idle" /\ pc'[a] = "idle" /\ local'[a] = NoLocal
              \/ local[a].next # "idle" /\ pc'[a] = local[a].next /\ local' = local
           /\ row' \in Row /\ row'.state = local[a].snap
           /\ row'.name = IF local[a].saves THEN local[a].name ELSE row.name
           /\ overtaken' = (overtaken \/ a \notin ToSet(cloned)) /\ overtaken' \in BOOLEAN
           /\ cloned' = Younger(a)
           /\ acked' \in [Field -> {0} \cup Call]
           /\ \A f \in Field : \/ acked'[f] = acked[f]
                               \/ acked'[f] = local[a].call /\ local[a].field = f /\ f # "none"
           /\ UNCHANGED <<mem, calls, started, errors, crashes>>
  <1> PICK l \in Local : l = local[a]
    BY MemTyped
  <1>1. /\ l.snap \in State /\ l.name \in Name /\ l.saves \in BOOLEAN
        /\ l.next \in {"idle", "schedule", "spawn"}
    BY DEF Local
  <1>4. /\ pc' \in [Actor -> Label] /\ local' \in [Actor -> Local] /\ Same(a)
        /\ \/ l.next = "idle" /\ pc'[a] = "idle" /\ local'[a] = NoLocal
           \/ l.next # "idle" /\ pc'[a] = l.next /\ local' = local
    <2>1. CASE l.next = "idle"
      <3>1. Return(a)
        BY <2>1 DEF Write
      <3> QED  BY <2>1, <3>1, ReturnEffect
    <2>2. CASE l.next # "idle"
      <3>1. Goto(a, l.next) /\ local' = local /\ l.next \in Label
        BY <1>1, <2>2 DEF Write, Label
      <3> QED  BY <2>2, <3>1, GotoEffect DEF Same, TypeInv
    <2> QED  BY <2>1, <2>2
  <1>5. row' = [row EXCEPT !.state = l.snap, !.name = IF l.saves THEN l.name ELSE row.name]
    BY DEF Write, Written, TypeInv, Row
  <1>6. /\ row' \in Row /\ row'.state = l.snap
        /\ row'.name = IF l.saves THEN l.name ELSE row.name
    BY <1>1, <1>5, MemTyped DEF TypeInv, Row
  <1>7. l.field # "none" => l.field \in Field /\ l.call \in Call
    BY DEF TypeInv, LocalFits
  <1>8. \/ acked' = acked
        \/ l.field # "none" /\ acked' = [acked EXCEPT ![l.field] = l.call]
    BY DEF Write
  <1>9. /\ acked' \in [Field -> {0} \cup Call]
        /\ \A f \in Field : \/ acked'[f] = acked[f]
                            \/ acked'[f] = l.call /\ l.field = f /\ f # "none"
    BY <1>7, <1>8 DEF TypeInv
  <1> QED  BY <1>4, <1>6, <1>9 DEF Write, TypeInv

LEMMA AppendMessageEffect ==
    ASSUME TypeInv, NEW t \in Task, NEW n \in Length, AppendMessage(t, n)
    PROVE  /\ t \in Actor /\ pc[t] = "idle" /\ pc'[t] = "push" /\ Same(t)
           /\ pc' \in [Actor -> Label] /\ local' \in [Actor -> Local]
           /\ Keeps(t, {"length"}) /\ calls' \in 0 .. MaxCalls
           /\ UNCHANGED <<mem, row, history, errors, crashes>>
  <1>1. t \in Actor /\ local[t] \in Local /\ local \in [Actor -> Local]
    BY TaskActor DEF TypeInv
  <1>2. "push" \in Label /\ Goto(t, "push")
    BY DEF AppendMessage, Label
  <1>3. calls' \in 0 .. MaxCalls
    BY SessionControlAssumption DEF AppendMessage, TypeInv
  <1>4. local'[t] = [local[t] EXCEPT !.length = n]
    BY <1>1 DEF AppendMessage
  <1>5. local'[t] \in Local /\ Keeps(t, {"length"})
    BY <1>1, <1>4 DEF Local, Keeps
  <1>6. /\ \A b \in Actor : b # t => local'[b] = local[b]
        /\ DOMAIN local' = Actor /\ local' = [b \in Actor |-> local'[b]]
    BY <1>1 DEF AppendMessage
  <1>7. local' \in [Actor -> Local]
    BY <1>1, <1>5, <1>6
  <1> QED  BY <1>1, <1>2, <1>3, <1>5, <1>6, <1>7, GotoEffect DEF Same, AppendMessage

LEMMA PushEffect ==
    ASSUME TypeInv, NEW a \in Actor, Push(a)
    PROVE  /\ pc[a] = "push" /\ pc'[a] = "saveMessage" /\ Same(a) /\ local' = local
           /\ pc' \in [Actor -> Label]
           /\ mem' \in Object /\ mem'.state = mem.state
           /\ mem'.title = mem.title /\ mem'.name = mem.name
           /\ UNCHANGED <<row, local, calls, history, errors, crashes>>
  <1>1. "saveMessage" \in Label /\ Goto(a, "saveMessage")
    BY DEF Push, Label
  <1>2. PICK n \in Nat : n = local[a].length
    BY MemTyped, SessionControlAssumption
  <1>3. mem' = [mem EXCEPT !.texts = @ + 1, !.chars = @ + n]
    BY <1>2 DEF Push, Longer
  <1>4. mem.texts + 1 \in Nat /\ mem.chars + n \in Nat
    BY MemTyped
  <1>5. /\ mem' \in Object /\ mem'.state = mem.state
        /\ mem'.title = mem.title /\ mem'.name = mem.name
    BY <1>3, <1>4 DEF TypeInv, Object
  <1> QED  BY <1>1, <1>5, GotoEffect DEF Push, Same, TypeInv

LEMMA SaveMessageEffect ==
    ASSUME TypeInv, NEW a \in Actor, SaveMessage(a)
    PROVE  /\ pc[a] = "saveMessage" /\ pc'[a] = "read" /\ Same(a)
           /\ pc' \in [Actor -> Label] /\ local' \in [Actor -> Local]
           /\ Keeps(a, {"saves", "next"})
           /\ local'[a].saves = TRUE /\ local'[a].next = "schedule"
           /\ row' \in Row /\ row'.state = row.state /\ row'.name = row.name
           /\ UNCHANGED <<mem, calls, history, errors, crashes>>
  <1>1. Persist(a, TRUE, "schedule")
    BY DEF SaveMessage
  <1>2. PICK n \in Nat : n = local[a].length
    BY MemTyped, SessionControlAssumption
  <1>3. row' = [row EXCEPT !.texts = @ + 1, !.chars = @ + n]
    BY <1>2 DEF SaveMessage, Longer
  <1>4. row.texts + 1 \in Nat /\ row.chars + n \in Nat
    BY MemTyped
  <1>5. row' \in Row /\ row'.state = row.state /\ row'.name = row.name
    BY <1>3, <1>4 DEF TypeInv, Row
  <1> QED  BY <1>1, <1>5, PersistEffect DEF SaveMessage

(* What a step makes of the title state, and of nothing else.               *)
LEMMA TitleStep ==
    ASSUME TypeInv, NEW t \in Title, mem' = [mem EXCEPT !.title = t]
    PROVE  /\ mem' \in Object /\ mem'.title = t
           /\ mem'.state = mem.state /\ mem'.name = mem.name
  BY DEF TypeInv, Object

LEMMA ScheduleEffect ==
    ASSUME TypeInv, NEW a \in Actor, Schedule(a)
    PROVE  /\ pc[a] = "schedule" /\ Same(a)
           /\ pc' \in [Actor -> Label] /\ local' \in [Actor -> Local]
           /\ \/ /\ pc'[a] = "idle" /\ local'[a] = NoLocal /\ mem' = mem
              \/ /\ pc'[a] = "read" /\ Keeps(a, {"saves", "next"})
                 /\ local'[a].saves = FALSE /\ local'[a].next = "spawn"
                 /\ mem' \in Object /\ mem'.state = mem.state /\ mem'.name = mem.name
                 /\ mem.title.source = "default" /\ mem.title.status # "pending"
                 /\ mem'.title.source = "default" /\ mem'.title.status = "pending"
                 /\ mem'.title.attempts = mem.title.attempts + 1
           /\ UNCHANGED <<row, calls, history, errors, crashes>>
  <1>1. CASE MayGenerate(mem)
    <2>1. Persist(a, FALSE, "spawn") /\ mem' = [mem EXCEPT !.title = SetPending(mem.title)]
      BY <1>1, MemTyped DEF Schedule, TypeInv, Object
    <2>2. /\ mem.title.source = "default" /\ mem.title.status # "pending"
          /\ mem.title.attempts < MaxAttempts
      BY <1>1 DEF MayGenerate
    <2>3. PICK t \in Title : t = mem.title
      BY MemTyped
    <2>4. SetPending(t) \in Title
      <3>1. MaxAttempts \in Nat /\ t.attempts \in 0 .. MaxAttempts
        BY SessionControlAssumption DEF Title
      <3>2. t.attempts + 1 \in 0 .. MaxAttempts
        BY <2>2, <2>3, <3>1
      <3> QED  BY <3>2 DEF SetPending, Title, Status
    <2>5. /\ SetPending(t).source = "default" /\ SetPending(t).status = "pending"
          /\ SetPending(t).attempts = t.attempts + 1
      BY <2>2, <2>3 DEF SetPending, Title
    <2>6. /\ mem' \in Object /\ mem'.title = SetPending(t)
          /\ mem'.state = mem.state /\ mem'.name = mem.name
      BY <2>1, <2>3, <2>4, TitleStep
    <2> QED  BY <2>1, <2>2, <2>3, <2>5, <2>6, PersistEffect DEF Schedule
  <1>2. CASE ~MayGenerate(mem)
    <2>1. Return(a) /\ mem' = mem
      BY <1>2 DEF Schedule
    <2> QED  BY <2>1, ReturnEffect DEF Schedule
  <1> QED  BY <1>1, <1>2

LEMMA GenerateEffect ==
    ASSUME TypeInv, NEW a \in Actor, Generate(a)
    PROVE  /\ pc[a] = "generate" /\ Same(a)
           /\ pc' \in [Actor -> Label] /\ local' \in [Actor -> Local]
           /\ mem' \in Object /\ mem'.state = mem.state /\ mem'.name = mem.name
           /\ mem'.title.attempts = mem.title.attempts
           /\ \/ /\ pc'[a] = "name" /\ local' = local
                 /\ mem'.title.status = "succeeded" /\ mem'.title.source = "ai"
              \/ /\ pc'[a] = "read" /\ Keeps(a, {"saves", "next"})
                 /\ local'[a].saves = TRUE /\ local'[a].next = "idle"
                 /\ mem'.title.status = "failed" /\ mem'.title.source = mem.title.source
           /\ UNCHANGED <<row, calls, history, errors, crashes>>
  <1> PICK t \in Title : t = mem.title
    BY MemTyped
  <1>1. /\ Succeed(t) \in Title /\ Succeed(t).status = "succeeded" /\ Succeed(t).source = "ai"
        /\ Succeed(t).attempts = t.attempts
    BY DEF Succeed, Title, Status, Source
  <1>2. /\ FailTitle(t) \in Title /\ FailTitle(t).status = "failed"
        /\ FailTitle(t).source = t.source /\ FailTitle(t).attempts = t.attempts
    BY DEF FailTitle, Title, Status, Source
  <1>3. \/ /\ mem' = [mem EXCEPT !.title = Succeed(t)]
           /\ Goto(a, "name") /\ UNCHANGED local
        \/ /\ mem' = [mem EXCEPT !.title = FailTitle(t)]
           /\ Persist(a, TRUE, "idle")
    BY DEF Generate, TypeInv, Object
  <1>4. CASE /\ mem' = [mem EXCEPT !.title = Succeed(t)]
             /\ Goto(a, "name") /\ UNCHANGED local
    <2>1. /\ mem' \in Object /\ mem'.title = Succeed(t)
          /\ mem'.state = mem.state /\ mem'.name = mem.name
      BY <1>1, <1>4, TitleStep
    <2>2. "name" \in Label
      BY DEF Label
    <2> QED  BY <1>1, <1>4, <2>1, <2>2, GotoEffect DEF Generate, Same, TypeInv
  <1>5. CASE /\ mem' = [mem EXCEPT !.title = FailTitle(t)]
             /\ Persist(a, TRUE, "idle")
    <2>1. /\ mem' \in Object /\ mem'.title = FailTitle(t)
          /\ mem'.state = mem.state /\ mem'.name = mem.name
      BY <1>2, <1>5, TitleStep
    <2> QED  BY <1>2, <1>5, <2>1, PersistEffect DEF Generate
  <1> QED  BY <1>3, <1>4, <1>5

LEMMA Times ==
    ASSUME NEW m \in Nat, NEW i \in Nat, NEW j \in Nat, i <= j
    PROVE  i * m \in Nat /\ j * m \in Nat /\ i * m <= j * m /\ (i + 1) * m = i * m + m
  OBVIOUS

LEMMA GenRoom ==
    ASSUME TypeInv, WorkInv
    PROVE  /\ started <= MaxAttempts * (1 + MaxCrashes)
           /\ \A a \in Actor : Owes(a) => started + 1 \in Gen
  <1>1. /\ MaxAttempts \in Nat /\ MaxCrashes \in Nat /\ crashes \in Nat
        /\ crashes <= MaxCrashes /\ mem.title.attempts \in Nat
        /\ mem.title.attempts <= MaxAttempts /\ started \in Nat
    BY SessionControlAssumption, MemTyped DEF TypeInv, Title
  <1> PICK i \in Nat, m \in Nat, k \in Nat :
          i = crashes /\ m = MaxAttempts /\ k = mem.title.attempts
    BY <1>1
  <1>2. i * m \in Nat /\ MaxCrashes * m \in Nat /\ i * m <= MaxCrashes * m
    BY <1>1, Times
  <1>3. m * (1 + MaxCrashes) = MaxCrashes * m + m
    BY <1>1, Times
  <1>4. started <= i * m + k /\ \A a \in Actor : Owes(a) => started < i * m + k
    BY DEF WorkInv
  <1> QED  BY <1>1, <1>2, <1>3, <1>4 DEF Gen

LEMMA SpawnEffect ==
    ASSUME TypeInv, WorkInv, NEW a \in Actor, Spawn(a)
    PROVE  \E g \in Gens :
           /\ g = <<"gen", started + 1>> /\ g[2] = started + 1 /\ g \in Actor /\ g # a
           /\ pc[a] = "spawn" /\ local[a].next = "spawn" /\ a \in Task
           /\ pc[g] = "idle" /\ local[g] = NoLocal
           /\ pc' \in [Actor -> Label] /\ local' \in [Actor -> Local]
           /\ pc'[a] = "idle" /\ local'[a] = NoLocal
           /\ pc'[g] = "generate" /\ local'[g] = NoLocal
           /\ \A b \in Actor : b \notin {a, g} => pc'[b] = pc[b] /\ local'[b] = local[b]
           /\ started' = started + 1
           /\ UNCHANGED <<mem, row, calls, cloned, overtaken, acked, errors, crashes>>
  <1>1. pc[a] = "spawn" /\ local[a].next = "spawn" /\ a \notin Gens /\ a \in Task
    BY DEF Spawn, TypeInv, LocalFits, Actor, Gens
  <1> PICK g : g = <<"gen", started + 1>>
    OBVIOUS
  <1>2. g \in Gens /\ g \in Actor /\ g[2] = started + 1
    BY <1>1, GenRoom DEF Owes, Gens, Actor
  <1>3. g # a /\ pc[g] = "idle" /\ local[g] = NoLocal
    <2>1. LocalFits(g) /\ g # a /\ g[2] > started
      BY <1>1, <1>2 DEF TypeInv
    <2>2. pc[g] = "idle"
      BY <1>2, <2>1 DEF LocalFits
    <2> QED  BY <2>1, <2>2 DEF LocalFits
  <1>4. /\ pc' = [pc EXCEPT ![a] = "idle", ![g] = "generate"]
        /\ local' = [local EXCEPT ![a] = NoLocal]
    BY DEF Spawn
  <1>5. NoLocal \in Local /\ {"idle", "generate"} \subseteq Label
    BY NoLocalTyped DEF Label
  <1>6. /\ pc' \in [Actor -> Label] /\ pc'[a] = "idle" /\ pc'[g] = "generate"
        /\ \A b \in Actor : b \notin {a, g} => pc'[b] = pc[b]
    BY <1>2, <1>3, <1>4, <1>5 DEF TypeInv
  <1>7. /\ local' \in [Actor -> Local] /\ local'[a] = NoLocal /\ local'[g] = NoLocal
        /\ \A b \in Actor : b \notin {a, g} => local'[b] = local[b]
    BY <1>2, <1>3, <1>4, <1>5 DEF TypeInv
  <1> QED  BY <1>1, <1>2, <1>3, <1>6, <1>7 DEF Spawn

LEMMA SetNameEffect ==
    ASSUME TypeInv, NEW a \in Actor, SetName(a)
    PROVE  /\ a \in Gens /\ a[2] # 0
           /\ pc[a] = "name" /\ pc'[a] = "read" /\ Same(a)
           /\ pc' \in [Actor -> Label] /\ local' \in [Actor -> Local]
           /\ Keeps(a, {"saves", "next"})
           /\ local'[a].saves = TRUE /\ local'[a].next = "idle"
           /\ mem' \in Object /\ mem'.state = mem.state /\ mem'.title = mem.title
           /\ mem'.name = a[2]
           /\ UNCHANGED <<row, calls, history, errors, crashes>>
  <1>1. pc[a] = "name" /\ Persist(a, TRUE, "idle")
    BY DEF SetName
  <1>2. a \in Gens
    BY <1>1 DEF TypeInv, LocalFits, Actor, Gens
  <1> PICK n \in Gen : n = a[2]
    BY <1>2, GenActor
  <1>3. n \in Name /\ n # 0
    BY DEF Name, Gen
  <1>4. mem' = [mem EXCEPT !.name = n]
    BY DEF SetName
  <1>5. mem' \in Object /\ mem'.state = mem.state /\ mem'.title = mem.title /\ mem'.name = n
    BY <1>3, <1>4 DEF TypeInv, Object
  <1> QED  BY <1>1, <1>2, <1>3, <1>5, PersistEffect DEF SetName

LEMMA FailsEffect ==
    ASSUME TypeInv, NEW a \in Actor, StatementFails(a)
    PROVE  /\ pc[a] \in {"saveMessage", "write"} /\ pc'[a] = "idle" /\ Same(a)
           /\ pc' \in [Actor -> Label] /\ local' \in [Actor -> Local]
           /\ local'[a] = NoLocal
           /\ errors' = errors + 1 /\ errors' \in Nat /\ errors' # 0
           /\ cloned' = Without(a)
           /\ UNCHANGED <<mem, row, calls, started, overtaken, acked, crashes>>
  <1>1. Return(a) /\ errors' = errors + 1
    BY DEF StatementFails
  <1>2. errors' \in Nat /\ errors' # 0
    BY <1>1 DEF TypeInv
  <1> QED  BY <1>1, <1>2, ReturnEffect DEF StatementFails

LEMMA CrashEffect ==
    ASSUME TypeInv, Crash
    PROVE  /\ crashes' = crashes + 1 /\ crashes' \in 0 .. MaxCrashes /\ crashes' # 0
           /\ crashes \in Nat
           /\ mem' \in Object /\ mem'.state = row.state /\ mem'.title = row.state.synced
           /\ mem'.name = row.name
           /\ pc' \in [Actor -> Label] /\ local' \in [Actor -> Local]
           /\ \A a \in Actor : pc'[a] = "idle" /\ local'[a] = NoLocal
           /\ cloned' = <<>> /\ cloned' \in Seq(Actor)
           /\ UNCHANGED <<row, calls, started, overtaken, acked, errors>>
  <1>1. /\ crashes' = crashes + 1 /\ crashes' \in 0 .. MaxCrashes /\ crashes' # 0
        /\ crashes \in Nat
    BY SessionControlAssumption DEF Crash, TypeInv
  <1>2. mem' = [state |-> row.state, title |-> row.state.synced, name |-> row.name,
                texts |-> row.texts, chars |-> row.chars]
    BY DEF Crash, Load
  <1>3. /\ mem' \in Object /\ mem'.state = row.state /\ mem'.title = row.state.synced
        /\ mem'.name = row.name
    BY <1>2, MemTyped DEF Object
  <1>4. /\ pc' \in [Actor -> Label] /\ local' \in [Actor -> Local]
        /\ \A a \in Actor : pc'[a] = "idle" /\ local'[a] = NoLocal
    BY NoLocalTyped DEF Crash, Label
  <1>5. cloned' = <<>> /\ cloned' \in Seq(Actor)
    BY EmptySeq DEF Crash
  <1> QED  BY <1>1, <1>3, <1>4, <1>5 DEF Crash

(***************************************************************************)
(* Types.                                                                  *)
(***************************************************************************)
LEMMA NextCases ==
    ASSUME [Next]_vars
    PROVE  \/ \E t \in Task : \E f \in Field : Update(t, f)
           \/ \E t \in Task : \E n \in Length : AppendMessage(t, n)
           \/ \E a \in Actor : Apply(a)
           \/ \E a \in Actor : ReadTitle(a)
           \/ \E a \in Actor : Sync(a)
           \/ \E a \in Actor : Clone(a)
           \/ \E a \in Actor : Write(a)
           \/ \E a \in Actor : Push(a)
           \/ \E a \in Actor : SaveMessage(a)
           \/ \E a \in Actor : Schedule(a)
           \/ \E a \in Actor : Spawn(a)
           \/ \E a \in Actor : Generate(a)
           \/ \E a \in Actor : SetName(a)
           \/ \E a \in Actor : StatementFails(a)
           \/ Crash
           \/ UNCHANGED vars
  BY DEF Next, Step

LEMMA Unchanged ==
    ASSUME UNCHANGED vars
    PROVE  UNCHANGED <<mem, row, pc, local, calls, started, cloned, overtaken, acked,
                       errors, crashes>>
  BY DEF vars, history

LEMMA ClonedGrows ==
    ASSUME TypeInv, NEW a \in Actor, Clone(a)
    PROVE  /\ cloned' \in Seq(Actor) /\ cloned' # <<>> /\ cloned'[Len(cloned')] = a
           /\ \E n \in Nat : /\ DOMAIN cloned = 1 .. n /\ DOMAIN cloned' = 1 .. n + 1
                             /\ cloned'[n + 1] = a
                             /\ \A i \in 1 .. n : cloned'[i] = cloned[i]
  <1> PICK c \in Seq(Actor) : c = cloned
    BY DEF TypeInv
  <1> PICK d : d = Append(c, a)
    OBVIOUS
  <1>1. /\ d \in Seq(Actor) /\ d # <<>> /\ Len(d) = Len(c) + 1
        /\ \A i \in 1 .. Len(c) : d[i] = c[i]
        /\ d[Len(c) + 1] = a
    BY AppendProperties
  <1>2. Len(c) \in Nat /\ DOMAIN c = 1 .. Len(c) /\ DOMAIN d = 1 .. Len(c) + 1
    BY <1>1, LenProperties
  <1>3. cloned' = d
    BY CloneEffect
  <1> QED  BY <1>1, <1>2, <1>3

LEMMA OthersFit ==
    ASSUME TypeInv, NEW a \in Actor, Same(a), started' = started
    PROVE  \A b \in Actor : b # a => LocalFits(b)'
  BY DEF TypeInv, LocalFits, Same

LEMMA TypeStep ==
    ASSUME TypeInv, WorkInv, CloneInv, [Next]_vars
    PROVE  TypeInv'
  <1>1. ASSUME NEW a \in Task, NEW f \in Field, Update(a, f) PROVE TypeInv'
    <2>1. a \in Actor /\ LocalFits(a) /\ local[a] \in Local /\ started' = started
      BY <1>1, UpdateEffect DEF TypeInv, history
    <2>2. LocalFits(a)'
      BY <1>1, <2>1, TaskActor, UpdateEffect, NoLocalTyped DEF LocalFits, Keeps, Saving, Local
    <2>3. \A b \in Actor : LocalFits(b)'
      BY <1>1, <2>1, <2>2, UpdateEffect, OthersFit
    <2> QED  BY <1>1, <2>3, UpdateEffect DEF TypeInv, history
  <1>2. ASSUME NEW a \in Task, NEW n \in Length, AppendMessage(a, n) PROVE TypeInv'
    <2>1. a \in Actor /\ LocalFits(a) /\ local[a] \in Local /\ started' = started
      BY <1>2, AppendMessageEffect DEF TypeInv, history
    <2>2. LocalFits(a)'
      BY <1>2, <2>1, TaskActor, AppendMessageEffect, NoLocalTyped
         DEF LocalFits, Keeps, Saving, Local
    <2>3. \A b \in Actor : LocalFits(b)'
      BY <1>2, <2>1, <2>2, AppendMessageEffect, OthersFit
    <2> QED  BY <1>2, <2>3, AppendMessageEffect DEF TypeInv, history
  <1>3. ASSUME NEW a \in Actor, Apply(a) PROVE TypeInv'
    <2>1. /\ pc[a] \in Label /\ local[a] \in Local /\ LocalFits(a)
          /\ started' = started
      BY <1>3, ApplyEffect DEF TypeInv, history
    <2>2. LocalFits(a)'
      BY <1>3, <2>1, ApplyEffect, NoLocalTyped DEF LocalFits, Keeps, Saving, Local
    <2>3. \A b \in Actor : LocalFits(b)'
      BY <1>3, <2>1, <2>2, ApplyEffect, OthersFit
    <2> QED  BY <1>3, <2>3, ApplyEffect DEF TypeInv, history
  <1>4. ASSUME NEW a \in Actor, ReadTitle(a) PROVE TypeInv'
    <2>1. /\ pc[a] \in Label /\ local[a] \in Local /\ LocalFits(a)
          /\ started' = started
      BY <1>4, ReadTitleEffect DEF TypeInv, history
    <2>2. LocalFits(a)'
      BY <1>4, <2>1, ReadTitleEffect, NoLocalTyped DEF LocalFits, Keeps, Saving, Local
    <2>3. \A b \in Actor : LocalFits(b)'
      BY <1>4, <2>1, <2>2, ReadTitleEffect, OthersFit
    <2> QED  BY <1>4, <2>3, ReadTitleEffect DEF TypeInv, history
  <1>5. ASSUME NEW a \in Actor, Sync(a) PROVE TypeInv'
    <2>1. /\ pc[a] \in Label /\ local[a] \in Local /\ LocalFits(a)
          /\ started' = started
      BY <1>5, SyncEffect DEF TypeInv, history
    <2>2. LocalFits(a)'
      BY <1>5, <2>1, SyncEffect, NoLocalTyped DEF LocalFits, Keeps, Saving, Local
    <2>3. \A b \in Actor : LocalFits(b)'
      BY <1>5, <2>1, <2>2, SyncEffect, OthersFit
    <2> QED  BY <1>5, <2>3, SyncEffect DEF TypeInv, history
  <1>6. ASSUME NEW a \in Actor, Clone(a) PROVE TypeInv'
    <2>1. /\ pc[a] \in Label /\ local[a] \in Local /\ LocalFits(a)
          /\ started' = started
      BY <1>6, CloneEffect DEF TypeInv, history
    <2>2. LocalFits(a)'
      BY <1>6, <2>1, CloneEffect, NoLocalTyped DEF LocalFits, Keeps, Saving, Local
    <2>3. \A b \in Actor : LocalFits(b)'
      BY <1>6, <2>1, <2>2, CloneEffect, OthersFit
    <2>4. cloned' \in Seq(Actor)
      BY <1>6, ClonedGrows
    <2> QED  BY <1>6, <2>3, <2>4, CloneEffect DEF TypeInv, history
  <1>7. ASSUME NEW a \in Actor, Write(a) PROVE TypeInv'
    <2>1. /\ pc[a] \in Label /\ local[a] \in Local /\ LocalFits(a)
          /\ started' = started
      BY <1>7, WriteEffect DEF TypeInv, history
    <2>2. LocalFits(a)'
      BY <1>7, <2>1, WriteEffect, NoLocalTyped DEF LocalFits, Keeps, Saving, Local
    <2>3. \A b \in Actor : LocalFits(b)'
      BY <1>7, <2>1, <2>2, WriteEffect, OthersFit
    <2>4. cloned' \in Seq(Actor)
      BY <1>7, WriteEffect, YoungerIs DEF TypeInv, CloneInv
    <2> QED  BY <1>7, <2>3, <2>4, WriteEffect DEF TypeInv, history
  <1>8. ASSUME NEW a \in Actor, Push(a) PROVE TypeInv'
    <2>1. /\ pc[a] \in Label /\ local[a] \in Local /\ LocalFits(a)
          /\ started' = started
      BY <1>8, PushEffect DEF TypeInv, history
    <2>2. LocalFits(a)'
      BY <1>8, <2>1, PushEffect, NoLocalTyped DEF LocalFits, Keeps, Saving, Local
    <2>3. \A b \in Actor : LocalFits(b)'
      BY <1>8, <2>1, <2>2, PushEffect, OthersFit
    <2> QED  BY <1>8, <2>3, PushEffect DEF TypeInv, history
  <1>9. ASSUME NEW a \in Actor, SaveMessage(a) PROVE TypeInv'
    <2>1. /\ pc[a] \in Label /\ local[a] \in Local /\ LocalFits(a)
          /\ started' = started
      BY <1>9, SaveMessageEffect DEF TypeInv, history
    <2>2. LocalFits(a)'
      BY <1>9, <2>1, SaveMessageEffect, NoLocalTyped DEF LocalFits, Keeps, Saving, Local
    <2>3. \A b \in Actor : LocalFits(b)'
      BY <1>9, <2>1, <2>2, SaveMessageEffect, OthersFit
    <2> QED  BY <1>9, <2>3, SaveMessageEffect DEF TypeInv, history
  <1>10. ASSUME NEW a \in Actor, Schedule(a) PROVE TypeInv'
    <2>1. /\ pc[a] \in Label /\ local[a] \in Local /\ LocalFits(a)
          /\ started' = started
      BY <1>10, ScheduleEffect DEF TypeInv, history
    <2>2. LocalFits(a)'
      BY <1>10, <2>1, ScheduleEffect, NoLocalTyped DEF LocalFits, Keeps, Saving, Local
    <2>3. \A b \in Actor : LocalFits(b)'
      BY <1>10, <2>1, <2>2, ScheduleEffect, OthersFit
    <2> QED  BY <1>10, <2>3, ScheduleEffect DEF TypeInv, history
  <1>11. ASSUME NEW a \in Actor, Spawn(a) PROVE TypeInv'
    <2>1. PICK g \in Gens :
             /\ g = <<"gen", started + 1>> /\ g[2] = started + 1 /\ g \in Actor /\ g # a
             /\ pc[a] = "spawn" /\ local[a].next = "spawn" /\ a \in Task
             /\ pc[g] = "idle" /\ local[g] = NoLocal
             /\ pc' \in [Actor -> Label] /\ local' \in [Actor -> Local]
             /\ pc'[a] = "idle" /\ local'[a] = NoLocal
             /\ pc'[g] = "generate" /\ local'[g] = NoLocal
             /\ \A b \in Actor : b \notin {a, g} => pc'[b] = pc[b] /\ local'[b] = local[b]
             /\ started' = started + 1
             /\ UNCHANGED <<mem, row, calls, cloned, overtaken, acked, errors, crashes>>
      BY <1>11, SpawnEffect
    <2>2. started \in Nat /\ started' \in Nat
      BY <2>1 DEF TypeInv
    <2>3. LocalFits(a)'
      BY <2>1, TaskActor, NoLocalTyped DEF LocalFits
    <2>4. LocalFits(g)'
      BY <2>1, <2>2, GenActor, NoLocalTyped DEF LocalFits
    <2>5. ASSUME NEW b \in Actor, b \notin {a, g} PROVE LocalFits(b)'
      <3>1. /\ LocalFits(b) /\ pc'[b] = pc[b] /\ local'[b] = local[b]
            /\ b \in Gens => b[2] \in Nat
        BY <2>1, <2>5, GenActor DEF TypeInv
      <3> QED  BY <2>1, <2>2, <3>1 DEF LocalFits
    <2> QED  BY <2>1, <2>2, <2>3, <2>4, <2>5 DEF TypeInv
  <1>12. ASSUME NEW a \in Actor, Generate(a) PROVE TypeInv'
    <2>1. /\ pc[a] \in Label /\ local[a] \in Local /\ LocalFits(a)
          /\ started' = started
      BY <1>12, GenerateEffect DEF TypeInv, history
    <2>2. LocalFits(a)'
      BY <1>12, <2>1, GenerateEffect, NoLocalTyped DEF LocalFits, Keeps, Saving, Local
    <2>3. \A b \in Actor : LocalFits(b)'
      BY <1>12, <2>1, <2>2, GenerateEffect, OthersFit
    <2> QED  BY <1>12, <2>3, GenerateEffect DEF TypeInv, history
  <1>13. ASSUME NEW a \in Actor, SetName(a) PROVE TypeInv'
    <2>1. /\ pc[a] \in Label /\ local[a] \in Local /\ LocalFits(a)
          /\ started' = started
      BY <1>13, SetNameEffect DEF TypeInv, history
    <2>2. LocalFits(a)'
      BY <1>13, <2>1, SetNameEffect, NoLocalTyped DEF LocalFits, Keeps, Saving, Local
    <2>3. \A b \in Actor : LocalFits(b)'
      BY <1>13, <2>1, <2>2, SetNameEffect, OthersFit
    <2> QED  BY <1>13, <2>3, SetNameEffect DEF TypeInv, history
  <1>14. ASSUME NEW a \in Actor, StatementFails(a) PROVE TypeInv'
    <2>1. /\ pc[a] \in Label /\ local[a] \in Local /\ LocalFits(a)
          /\ started' = started
      BY <1>14, FailsEffect DEF TypeInv, history
    <2>2. LocalFits(a)'
      BY <1>14, <2>1, FailsEffect, NoLocalTyped DEF LocalFits, Keeps, Saving, Local
    <2>3. \A b \in Actor : LocalFits(b)'
      BY <1>14, <2>1, <2>2, FailsEffect, OthersFit
    <2>4. cloned' \in Seq(Actor)
      BY <1>14, FailsEffect, WithoutIs DEF TypeInv, CloneInv
    <2> QED  BY <1>14, <2>3, <2>4, FailsEffect DEF TypeInv, history
  <1>15. ASSUME Crash PROVE TypeInv'
    <2>1. \A b \in Actor : LocalFits(b)'
      BY <1>15, CrashEffect, NoLocalTyped DEF LocalFits
    <2> QED  BY <1>15, <2>1, CrashEffect DEF TypeInv
  <1>16. CASE UNCHANGED vars
    BY <1>16, Unchanged DEF TypeInv, LocalFits
  <1> QED
    BY <1>1, <1>2, <1>3, <1>4, <1>5, <1>6, <1>7, <1>8, <1>9, <1>10, <1>11, <1>12, <1>13, <1>14,
       <1>15, <1>16, NextCases

(***************************************************************************)
(* Work on titles.                                                         *)
(***************************************************************************)
LEMMA Attempts ==
    ASSUME TypeInv
    PROVE  /\ started \in Nat /\ crashes \in Nat /\ MaxAttempts \in Nat
           /\ crashes * MaxAttempts \in Nat /\ mem.title.attempts \in 0 .. MaxAttempts
           /\ row.state.synced.attempts \in Nat
  <1>1. /\ started \in Nat /\ crashes \in Nat /\ MaxAttempts \in Nat
        /\ mem.title.attempts \in 0 .. MaxAttempts
        /\ row.state.synced.attempts \in 0 .. MaxAttempts
    BY SessionControlAssumption, MemTyped DEF TypeInv, Title
  <1> PICK i \in Nat : i = crashes
    BY <1>1
  <1>2. i * MaxAttempts \in Nat
    BY <1>1, Times
  <1> QED  BY <1>1, <1>2

LEMMA WorkFewer ==
    ASSUME WorkInv, mem'.title = mem.title, started' = started, crashes' = crashes,
           \A b \in Actor : /\ local'[b].next = "spawn" => local[b].next = "spawn"
                            /\ pc'[b] = "generate" => pc[b] = "generate"
                            /\ pc'[b] = "name" => pc[b] = "name"
    PROVE  WorkInv'
  BY DEF WorkInv, Worker, Owes

LEMMA WorkStep ==
    ASSUME TypeInv, WorkInv, [Next]_vars
    PROVE  WorkInv'
  <1>1. ASSUME NEW a \in Task, NEW f \in Field, Update(a, f) PROVE WorkInv'
    <2>1. \A b \in Actor : /\ local'[b].next = "spawn" => local[b].next = "spawn"
                           /\ pc'[b] = "generate" => pc[b] = "generate"
                           /\ pc'[b] = "name" => pc[b] = "name"
      BY <1>1, UpdateEffect, NoLocalTyped DEF Same, Keeps
    <2> QED  BY <1>1, <2>1, WorkFewer, UpdateEffect DEF history
  <1>2. ASSUME NEW a \in Task, NEW n \in Length, AppendMessage(a, n) PROVE WorkInv'
    <2>1. \A b \in Actor : /\ local'[b].next = "spawn" => local[b].next = "spawn"
                           /\ pc'[b] = "generate" => pc[b] = "generate"
                           /\ pc'[b] = "name" => pc[b] = "name"
      BY <1>2, AppendMessageEffect, NoLocalTyped DEF Same, Keeps
    <2> QED  BY <1>2, <2>1, WorkFewer, AppendMessageEffect DEF history
  <1>3. ASSUME NEW a \in Actor, Apply(a) PROVE WorkInv'
    <2>1. \A b \in Actor : /\ local'[b].next = "spawn" => local[b].next = "spawn"
                           /\ pc'[b] = "generate" => pc[b] = "generate"
                           /\ pc'[b] = "name" => pc[b] = "name"
      BY <1>3, ApplyEffect, NoLocalTyped DEF Same, Keeps
    <2> QED  BY <1>3, <2>1, WorkFewer, ApplyEffect DEF history
  <1>4. ASSUME NEW a \in Actor, ReadTitle(a) PROVE WorkInv'
    <2>1. \A b \in Actor : /\ local'[b].next = "spawn" => local[b].next = "spawn"
                           /\ pc'[b] = "generate" => pc[b] = "generate"
                           /\ pc'[b] = "name" => pc[b] = "name"
      BY <1>4, ReadTitleEffect, NoLocalTyped DEF Same, Keeps
    <2> QED  BY <1>4, <2>1, WorkFewer, ReadTitleEffect DEF history
  <1>5. ASSUME NEW a \in Actor, Sync(a) PROVE WorkInv'
    <2>1. \A b \in Actor : /\ local'[b].next = "spawn" => local[b].next = "spawn"
                           /\ pc'[b] = "generate" => pc[b] = "generate"
                           /\ pc'[b] = "name" => pc[b] = "name"
      BY <1>5, SyncEffect, NoLocalTyped DEF Same, Keeps
    <2> QED  BY <1>5, <2>1, WorkFewer, SyncEffect DEF history
  <1>6. ASSUME NEW a \in Actor, Clone(a) PROVE WorkInv'
    <2>1. \A b \in Actor : /\ local'[b].next = "spawn" => local[b].next = "spawn"
                           /\ pc'[b] = "generate" => pc[b] = "generate"
                           /\ pc'[b] = "name" => pc[b] = "name"
      BY <1>6, CloneEffect, NoLocalTyped DEF Same, Keeps
    <2> QED  BY <1>6, <2>1, WorkFewer, CloneEffect DEF history
  <1>7. ASSUME NEW a \in Actor, Write(a) PROVE WorkInv'
    <2>1. \A b \in Actor : /\ local'[b].next = "spawn" => local[b].next = "spawn"
                           /\ pc'[b] = "generate" => pc[b] = "generate"
                           /\ pc'[b] = "name" => pc[b] = "name"
      BY <1>7, WriteEffect, NoLocalTyped, MemTyped DEF Same, Keeps
    <2> QED  BY <1>7, <2>1, WorkFewer, WriteEffect DEF history
  <1>8. ASSUME NEW a \in Actor, Push(a) PROVE WorkInv'
    <2>1. \A b \in Actor : /\ local'[b].next = "spawn" => local[b].next = "spawn"
                           /\ pc'[b] = "generate" => pc[b] = "generate"
                           /\ pc'[b] = "name" => pc[b] = "name"
      BY <1>8, PushEffect, NoLocalTyped DEF Same, Keeps
    <2> QED  BY <1>8, <2>1, WorkFewer, PushEffect DEF history
  <1>9. ASSUME NEW a \in Actor, SaveMessage(a) PROVE WorkInv'
    <2>1. \A b \in Actor : /\ local'[b].next = "spawn" => local[b].next = "spawn"
                           /\ pc'[b] = "generate" => pc[b] = "generate"
                           /\ pc'[b] = "name" => pc[b] = "name"
      BY <1>9, SaveMessageEffect, NoLocalTyped DEF Same, Keeps
    <2> QED  BY <1>9, <2>1, WorkFewer, SaveMessageEffect DEF history
  <1>10. ASSUME NEW a \in Actor, SetName(a) PROVE WorkInv'
    <2>1. \A b \in Actor : /\ local'[b].next = "spawn" => local[b].next = "spawn"
                           /\ pc'[b] = "generate" => pc[b] = "generate"
                           /\ pc'[b] = "name" => pc[b] = "name"
      BY <1>10, SetNameEffect, NoLocalTyped DEF Same, Keeps
    <2> QED  BY <1>10, <2>1, WorkFewer, SetNameEffect DEF history
  <1>11. ASSUME NEW a \in Actor, StatementFails(a) PROVE WorkInv'
    <2>1. \A b \in Actor : /\ local'[b].next = "spawn" => local[b].next = "spawn"
                           /\ pc'[b] = "generate" => pc[b] = "generate"
                           /\ pc'[b] = "name" => pc[b] = "name"
      BY <1>11, FailsEffect, NoLocalTyped DEF Same, Keeps
    <2> QED  BY <1>11, <2>1, WorkFewer, FailsEffect DEF history
  <1>12. ASSUME NEW a \in Actor, Schedule(a) PROVE WorkInv'
    <2>1. CASE pc'[a] = "idle"
      <3>1. local'[a] = NoLocal /\ mem' = mem
        BY <1>12, <2>1, ScheduleEffect
      <3>2. \A b \in Actor : /\ local'[b].next = "spawn" => local[b].next = "spawn"
                             /\ pc'[b] = "generate" => pc[b] = "generate"
                             /\ pc'[b] = "name" => pc[b] = "name"
        BY <1>12, <2>1, <3>1, ScheduleEffect, NoLocalTyped DEF Same
      <3> QED  BY <1>12, <3>1, <3>2, WorkFewer, ScheduleEffect DEF history
    <2>2. CASE pc'[a] # "idle"
      <3>1. /\ pc'[a] = "read" /\ local'[a].next = "spawn" /\ Same(a)
            /\ mem.title.source = "default" /\ mem.title.status # "pending"
            /\ mem'.title.source = "default" /\ mem'.title.status = "pending"
            /\ mem'.title.attempts = mem.title.attempts + 1
            /\ crashes' = crashes /\ started' = started
        BY <1>12, <2>2, ScheduleEffect DEF history
      <3>2. \A b \in Actor : ~Worker(b) /\ pc[b] # "name"
        BY <3>1 DEF WorkInv
      <3>3. \A b \in Actor : b # a => ~Worker(b)' /\ pc'[b] # "name"
        BY <3>1, <3>2 DEF Same, Worker, Owes
      <3>4. started' < crashes' * MaxAttempts + mem'.title.attempts
        <4>1. /\ started \in Nat /\ crashes * MaxAttempts \in Nat /\ mem.title.attempts \in Nat
              /\ started <= crashes * MaxAttempts + mem.title.attempts
          BY Attempts DEF WorkInv
        <4> QED  BY <3>1, <4>1
      <3>5. started' <= crashes' * MaxAttempts + mem'.title.attempts
        <4>1. /\ started \in Nat /\ crashes * MaxAttempts \in Nat /\ mem.title.attempts \in Nat
              /\ started <= crashes * MaxAttempts + mem.title.attempts
          BY Attempts DEF WorkInv
        <4> QED  BY <3>1, <4>1
      <3> QED  BY <3>1, <3>3, <3>4, <3>5 DEF WorkInv, Worker
    <2> QED  BY <2>1, <2>2
  <1>13. ASSUME NEW a \in Actor, Spawn(a) PROVE WorkInv'
    <2>1. PICK g \in Gens :
             /\ g \in Actor /\ g # a /\ pc[a] = "spawn" /\ local[a].next = "spawn"
             /\ pc'[a] = "idle" /\ local'[a] = NoLocal
             /\ pc'[g] = "generate" /\ local'[g] = NoLocal
             /\ \A b \in Actor : b \notin {a, g} => pc'[b] = pc[b] /\ local'[b] = local[b]
             /\ started' = started + 1
             /\ UNCHANGED <<mem, crashes>>
      BY <1>13, SpawnEffect
    <2>2. Owes(a) /\ \A b \in Actor : Worker(b) => b = a
      BY <2>1 DEF WorkInv, Worker, Owes
    <2>3. \A b \in Actor : (Worker(b)' => b = g) /\ ~Owes(b)'
      BY <2>1, <2>2, NoLocalTyped DEF Worker, Owes
    <2>4. mem.title.status = "pending" /\ mem.title.source = "default"
      BY <2>2 DEF WorkInv, Worker
    <2>5. \A b \in Actor : pc'[b] = "name" => pc[b] = "name"
      BY <2>1
    <2>6. started' <= crashes' * MaxAttempts + mem'.title.attempts
      <3>1. /\ started \in Nat /\ crashes * MaxAttempts \in Nat /\ mem.title.attempts \in Nat
            /\ started < crashes * MaxAttempts + mem.title.attempts
        BY <2>2, Attempts DEF WorkInv
      <3> QED  BY <2>1, <3>1
    <2> QED  BY <2>1, <2>3, <2>4, <2>5, <2>6 DEF WorkInv
  <1>14. ASSUME NEW a \in Actor, Generate(a) PROVE WorkInv'
    <2>1. /\ Worker(a) /\ Same(a) /\ mem.title.source = "default"
          /\ \A b \in Actor : Worker(b) => b = a
      BY <1>14, GenerateEffect DEF WorkInv, Worker
    <2>2. local[a] = NoLocal
      BY <1>14, GenerateEffect DEF TypeInv, LocalFits
    <2>3. \A b \in Actor : ~Worker(b)'
      BY <1>14, <2>1, <2>2, GenerateEffect, NoLocalTyped DEF Worker, Owes, Same
    <2>4. \A b \in Actor : pc'[b] = "name" => b = a /\ mem'.title.source = "ai"
      <3>1. \A b \in Actor : pc[b] # "name"
        BY <2>1 DEF WorkInv
      <3>2. \A b \in Actor : b # a => pc'[b] # "name"
        BY <2>1, <3>1 DEF Same
      <3>3. pc'[a] = "name" => mem'.title.source = "ai"
        BY <1>14, GenerateEffect
      <3> QED  BY <3>2, <3>3
    <2>5. started' <= crashes' * MaxAttempts + mem'.title.attempts
      BY <1>14, GenerateEffect DEF WorkInv, history
    <2> QED  BY <2>3, <2>4, <2>5 DEF WorkInv, Worker
  <1>15. ASSUME Crash PROVE WorkInv'
    <2>1. \A b \in Actor : ~Worker(b)' /\ pc'[b] # "name"
      BY <1>15, CrashEffect, NoLocalTyped DEF Worker, Owes
    <2>2. started' <= crashes' * MaxAttempts + mem'.title.attempts
      <3>1. /\ started \in Nat /\ crashes \in Nat /\ MaxAttempts \in Nat
            /\ mem.title.attempts \in 0 .. MaxAttempts /\ row.state.synced.attempts \in Nat
            /\ started <= crashes * MaxAttempts + mem.title.attempts
        BY Attempts DEF WorkInv
      <3> PICK i \in Nat, m \in Nat : i = crashes /\ m = MaxAttempts
        BY <3>1
      <3>2. (i + 1) * m = i * m + m /\ i * m \in Nat
        BY Times
      <3>3. started <= (i + 1) * m
        BY <3>1, <3>2
      <3>4. /\ started' = started /\ crashes' = i + 1 /\ (i + 1) * m \in Nat
            /\ mem'.title.attempts \in Nat
        BY <1>15, <3>1, <3>2, CrashEffect
      <3> QED  BY <3>1, <3>3, <3>4
    <2> QED  BY <2>1, <2>2 DEF WorkInv, Worker
  <1>16. CASE UNCHANGED vars
    BY <1>16, Unchanged DEF WorkInv, Worker, Owes
  <1> QED
    BY <1>1, <1>2, <1>3, <1>4, <1>5, <1>6, <1>7, <1>8, <1>9, <1>10, <1>11, <1>12, <1>13, <1>14,
       <1>15, <1>16, NextCases

(***************************************************************************)
(* Clones and copies.                                                      *)
(***************************************************************************)
LEMMA ClonedActors ==
    ASSUME TypeInv
    PROVE  /\ DOMAIN cloned = 1 .. Len(cloned) /\ Len(cloned) \in Nat
           /\ \A i \in DOMAIN cloned : cloned[i] \in Actor
           /\ \A a \in Actor : a \in ToSet(cloned) <=> \E i \in DOMAIN cloned : cloned[i] = a
  <1> PICK c \in Seq(Actor) : c = cloned
    BY DEF TypeInv
  <1>1. DOMAIN c = 1 .. Len(c) /\ Len(c) \in Nat /\ \A i \in DOMAIN c : c[i] \in Actor
    BY Domains
  <1> QED  BY <1>1 DEF ToSet

(* Whatever is taken out of the clones, the others keep their order.        *)
LEMMA ClonedThinned ==
    ASSUME TypeInv, CloneInv, NEW a \in Actor, NEW d \in Seq(Actor), Thins(cloned, d),
           \A i \in DOMAIN d : d[i] # a
    PROVE  /\ \A i \in DOMAIN d : d[i] \in Actor /\ d[i] # a /\ pc[d[i]] = "write"
           /\ \A i \in DOMAIN d : \E j \in DOMAIN cloned : d[i] = cloned[j]
           /\ \A i, j \in DOMAIN d : d[i] = d[j] => i = j
           /\ \A i, j \in DOMAIN d : i < j =>
                 \E k, l \in DOMAIN cloned : k < l /\ d[i] = cloned[k] /\ d[j] = cloned[l]
  <1>1. DOMAIN d = 1 .. Len(d) /\ DOMAIN cloned = 1 .. Len(cloned) /\ Len(d) \in Nat
    BY ClonedActors, Domains
  <1> PICK f \in [DOMAIN d -> DOMAIN cloned] :
         /\ \A i \in DOMAIN d : d[i] = cloned[f[i]]
         /\ \A i, j \in DOMAIN d : i < j => f[i] < f[j]
    BY DEF Thins
  <1>2. \A i \in DOMAIN d : f[i] \in DOMAIN cloned /\ d[i] = cloned[f[i]]
    OBVIOUS
  <1>3. \A i \in DOMAIN d : d[i] \in Actor /\ pc[d[i]] = "write"
    BY <1>2, ClonedActors DEF CloneInv
  <1>4. ASSUME NEW i \in DOMAIN d, NEW j \in DOMAIN d, d[i] = d[j] PROVE i = j
    <2>1. f[i] = f[j]
      BY <1>2, <1>4 DEF CloneInv
    <2>2. /\ i \in Nat /\ j \in Nat /\ f[i] \in Nat /\ f[j] \in Nat
          /\ i < j => f[i] < f[j]
          /\ j < i => f[j] < f[i]
      BY <1>1, <1>2
    <2> QED  BY <2>1, <2>2
  <1> QED  BY <1>2, <1>3, <1>4

LEMMA CloneKept ==
    ASSUME TypeInv, CloneInv, cloned' = cloned,
           \A b \in Actor : pc[b] = "write" => pc'[b] = "write"
    PROVE  CloneInv'
  BY ClonedActors DEF CloneInv

LEMMA CloneStep ==
    ASSUME TypeInv, WorkInv, CloneInv, [Next]_vars
    PROVE  CloneInv'
  <1>1. ASSUME NEW a \in Task, NEW f \in Field, Update(a, f) PROVE CloneInv'
    <2>1. cloned' = cloned /\ \A b \in Actor : pc[b] = "write" => pc'[b] = "write"
      BY <1>1, UpdateEffect DEF Same, history
    <2> QED  BY <2>1, CloneKept
  <1>2. ASSUME NEW a \in Task, NEW n \in Length, AppendMessage(a, n) PROVE CloneInv'
    <2>1. cloned' = cloned /\ \A b \in Actor : pc[b] = "write" => pc'[b] = "write"
      BY <1>2, AppendMessageEffect DEF Same, history
    <2> QED  BY <2>1, CloneKept
  <1>3. ASSUME NEW a \in Actor, Apply(a) PROVE CloneInv'
    <2>1. cloned' = cloned /\ \A b \in Actor : pc[b] = "write" => pc'[b] = "write"
      BY <1>3, ApplyEffect DEF Same, history
    <2> QED  BY <2>1, CloneKept
  <1>4. ASSUME NEW a \in Actor, ReadTitle(a) PROVE CloneInv'
    <2>1. cloned' = cloned /\ \A b \in Actor : pc[b] = "write" => pc'[b] = "write"
      BY <1>4, ReadTitleEffect DEF Same, history
    <2> QED  BY <2>1, CloneKept
  <1>5. ASSUME NEW a \in Actor, Sync(a) PROVE CloneInv'
    <2>1. cloned' = cloned /\ \A b \in Actor : pc[b] = "write" => pc'[b] = "write"
      BY <1>5, SyncEffect DEF Same, history
    <2> QED  BY <2>1, CloneKept
  <1>6. ASSUME NEW a \in Actor, Push(a) PROVE CloneInv'
    <2>1. cloned' = cloned /\ \A b \in Actor : pc[b] = "write" => pc'[b] = "write"
      BY <1>6, PushEffect DEF Same, history
    <2> QED  BY <2>1, CloneKept
  <1>7. ASSUME NEW a \in Actor, SaveMessage(a) PROVE CloneInv'
    <2>1. cloned' = cloned /\ \A b \in Actor : pc[b] = "write" => pc'[b] = "write"
      BY <1>7, SaveMessageEffect DEF Same, history
    <2> QED  BY <2>1, CloneKept
  <1>8. ASSUME NEW a \in Actor, Schedule(a) PROVE CloneInv'
    <2>1. cloned' = cloned /\ \A b \in Actor : pc[b] = "write" => pc'[b] = "write"
      BY <1>8, ScheduleEffect DEF Same, history
    <2> QED  BY <2>1, CloneKept
  <1>9. ASSUME NEW a \in Actor, Generate(a) PROVE CloneInv'
    <2>1. cloned' = cloned /\ \A b \in Actor : pc[b] = "write" => pc'[b] = "write"
      BY <1>9, GenerateEffect DEF Same, history
    <2> QED  BY <2>1, CloneKept
  <1>10. ASSUME NEW a \in Actor, SetName(a) PROVE CloneInv'
    <2>1. cloned' = cloned /\ \A b \in Actor : pc[b] = "write" => pc'[b] = "write"
      BY <1>10, SetNameEffect DEF Same, history
    <2> QED  BY <2>1, CloneKept
  <1>11. ASSUME NEW a \in Actor, Spawn(a) PROVE CloneInv'
    <2>1. cloned' = cloned /\ \A b \in Actor : pc[b] = "write" => pc'[b] = "write"
      BY <1>11, SpawnEffect
    <2> QED  BY <2>1, CloneKept
  <1>12. ASSUME NEW a \in Actor, Clone(a) PROVE CloneInv'
    <2>1. PICK n \in Nat : /\ DOMAIN cloned = 1 .. n /\ DOMAIN cloned' = 1 .. n + 1
                           /\ cloned'[n + 1] = a
                           /\ \A i \in 1 .. n : cloned'[i] = cloned[i]
      BY <1>12, ClonedGrows
    <2>2. \A i \in 1 .. n : cloned[i] \in Actor /\ cloned[i] # a
      BY <1>12, <2>1, CloneEffect, ClonedActors DEF CloneInv
    <2>3. \A i \in 1 .. n + 1 : pc'[cloned'[i]] = "write"
      <3> TAKE i \in 1 .. n + 1
      <3>1. CASE i \in 1 .. n
        BY <1>12, <2>1, <2>2, <3>1, CloneEffect DEF CloneInv, Same
      <3>2. CASE i = n + 1
        BY <1>12, <2>1, <3>2, CloneEffect
      <3> QED  BY <3>1, <3>2
    <2>4. \A i, j \in 1 .. n + 1 : cloned'[i] = cloned'[j] => i = j
      <3>1. \A i \in 1 .. n + 1 : i \in 1 .. n \/ i = n + 1
        OBVIOUS
      <3> QED  BY <2>1, <2>2, <3>1 DEF CloneInv
    <2> QED  BY <2>1, <2>3, <2>4 DEF CloneInv
  <1>13. ASSUME NEW a \in Actor, Write(a) PROVE CloneInv'
    <2>1. PICK d \in Seq(Actor) : d = cloned' /\ Thins(cloned, d) /\ \A i \in DOMAIN d : d[i] # a
      BY <1>13, WriteEffect, YoungerIs DEF TypeInv, CloneInv
    <2>2. /\ \A i \in DOMAIN d : d[i] \in Actor /\ d[i] # a /\ pc[d[i]] = "write"
          /\ \A i, j \in DOMAIN d : d[i] = d[j] => i = j
      BY <2>1, ClonedThinned
    <2> QED  BY <1>13, <2>1, <2>2, WriteEffect DEF CloneInv, Same
  <1>14. ASSUME NEW a \in Actor, StatementFails(a) PROVE CloneInv'
    <2>1. PICK d \in Seq(Actor) : d = cloned' /\ Thins(cloned, d) /\ \A i \in DOMAIN d : d[i] # a
      BY <1>14, FailsEffect, WithoutIs DEF TypeInv, CloneInv
    <2>2. /\ \A i \in DOMAIN d : d[i] \in Actor /\ d[i] # a /\ pc[d[i]] = "write"
          /\ \A i, j \in DOMAIN d : d[i] = d[j] => i = j
      BY <2>1, ClonedThinned
    <2> QED  BY <1>14, <2>1, <2>2, FailsEffect DEF CloneInv, Same
  <1>15. ASSUME Crash PROVE CloneInv'
    BY <1>15, CrashEffect DEF CloneInv
  <1>16. CASE UNCHANGED vars
    BY <1>16, Unchanged DEF CloneInv
  <1> QED
    BY <1>1, <1>2, <1>3, <1>4, <1>5, <1>6, <1>7, <1>8, <1>9, <1>10, <1>11, <1>12, <1>13, <1>14,
       <1>15, <1>16, NextCases

LEMMA Versions ==
    ASSUME NEW t \in Title
    PROVE  Version(t) \in Nat
  BY SessionControlAssumption DEF Title, Version

LEMMA NotAfterSelf ==
    ASSUME NEW t \in Title
    PROVE  NotAfter(t, t)
  BY Versions DEF NotAfter

(* The title state only goes forward, until the process ends.              *)
LEMMA Forward ==
    ASSUME TypeInv, NEW t \in Title, NEW u \in Title, NotAfter(t, mem.title),
           Version(mem.title) < Version(u)
    PROVE  NotAfter(t, u)
  <1>1. Version(t) \in Nat /\ Version(u) \in Nat /\ Version(mem.title) \in Nat
    BY MemTyped, Versions
  <1> QED  BY <1>1 DEF NotAfter

LEMMA ScheduleForward ==
    ASSUME TypeInv, NEW a \in Actor, Schedule(a), pc'[a] # "idle"
    PROVE  Version(mem.title) < Version(mem'.title) /\ mem'.title \in Title
  <1>1. mem'.title \in Title /\ mem.title \in Title
    BY MemTyped, ScheduleEffect DEF Object
  <1>2. /\ mem.title.status # "pending" /\ mem'.title.status = "pending"
        /\ mem'.title.attempts = mem.title.attempts + 1
    BY ScheduleEffect
  <1>3. mem.title.attempts \in Nat
    BY Attempts
  <1> QED  BY <1>1, <1>2, <1>3 DEF Version

LEMMA GenerateForward ==
    ASSUME TypeInv, WorkInv, NEW a \in Actor, Generate(a)
    PROVE  Version(mem.title) < Version(mem'.title) /\ mem'.title \in Title
  <1>1. mem'.title \in Title /\ mem.title \in Title
    BY MemTyped, GenerateEffect DEF Object
  <1>2. /\ mem.title.status = "pending" /\ mem'.title.status # "pending"
        /\ mem'.title.attempts = mem.title.attempts
    BY GenerateEffect DEF WorkInv, Worker
  <1>3. mem.title.attempts \in Nat
    BY Attempts
  <1> QED  BY <1>1, <1>2, <1>3 DEF Version

LEMMA CopyForward ==
    ASSUME TypeInv, CopyInv, NEW a \in Actor, Same(a), pc'[a] \notin {"sync", "write"},
           mem'.state = mem.state, row' = row,
           mem'.title \in Title, Version(mem.title) < Version(mem'.title)
    PROVE  CopyInv'
  <1>1. NotAfter(mem'.state.synced, mem'.title) /\ NotAfter(row'.state.synced, mem'.title)
    BY MemTyped, Forward DEF CopyInv, Behind
  <1>2. ASSUME NEW b \in Actor
        PROVE  /\ pc'[b] = "sync" => NotAfter(local'[b].title, mem'.title)
               /\ pc'[b] = "write" => NotAfter(local'[b].snap.synced, mem'.title)
    <2>1. CASE b = a
      BY <2>1
    <2>2. CASE b # a
      <3>1. pc'[b] = pc[b] /\ local'[b] = local[b]
        BY <2>2 DEF Same
      <3>2. pc[b] = "sync" => NotAfter(local[b].title, mem'.title)
        BY MemTyped, Forward DEF CopyInv, Behind
      <3>3. pc[b] = "write" => NotAfter(local[b].snap.synced, mem'.title)
        BY MemTyped, Forward DEF CopyInv, Behind
      <3> QED  BY <3>1, <3>2, <3>3
    <2> QED  BY <2>1, <2>2
  <1> QED  BY <1>1, <1>2 DEF CopyInv, Behind

LEMMA CopyStep ==
    ASSUME TypeInv, WorkInv, CopyInv, [Next]_vars
    PROVE  CopyInv'
  <1>1. ASSUME NEW a \in Task, NEW f \in Field, Update(a, f) PROVE CopyInv'
    BY <1>1, UpdateEffect DEF CopyInv, Behind, Same, Keeps, history
  <1>2. ASSUME NEW a \in Task, NEW n \in Length, AppendMessage(a, n) PROVE CopyInv'
    BY <1>2, AppendMessageEffect DEF CopyInv, Behind, Same, Keeps, history
  <1>3. ASSUME NEW a \in Actor, Apply(a) PROVE CopyInv'
    <2>1. /\ pc'[a] = "read" /\ Same(a) /\ mem'.state.synced = mem.state.synced
          /\ mem'.title = mem.title /\ row' = row
      BY <1>3, ApplyEffect
    <2> QED  BY <2>1 DEF CopyInv, Behind, Same
  <1>4. ASSUME NEW a \in Actor, ReadTitle(a) PROVE CopyInv'
    <2>1. NotAfter(mem.title, mem.title)
      BY MemTyped, NotAfterSelf
    <2> QED  BY <1>4, <2>1, ReadTitleEffect DEF CopyInv, Behind, Same
  <1>5. ASSUME NEW a \in Actor, Sync(a) PROVE CopyInv'
    BY <1>5, SyncEffect DEF CopyInv, Behind, Same, Keeps, history
  <1>6. ASSUME NEW a \in Actor, Clone(a) PROVE CopyInv'
    BY <1>6, CloneEffect DEF CopyInv, Behind, Same, Keeps, history
  <1>7. ASSUME NEW a \in Actor, Write(a) PROVE CopyInv'
    BY <1>7, WriteEffect, MemTyped DEF CopyInv, Behind, Same, Keeps, history
  <1>8. ASSUME NEW a \in Actor, Push(a) PROVE CopyInv'
    BY <1>8, PushEffect DEF CopyInv, Behind, Same, Keeps, history
  <1>9. ASSUME NEW a \in Actor, SaveMessage(a) PROVE CopyInv'
    BY <1>9, SaveMessageEffect DEF CopyInv, Behind, Same, Keeps, history
  <1>10. ASSUME NEW a \in Actor, SetName(a) PROVE CopyInv'
    BY <1>10, SetNameEffect DEF CopyInv, Behind, Same, Keeps, history
  <1>11. ASSUME NEW a \in Actor, StatementFails(a) PROVE CopyInv'
    BY <1>11, FailsEffect DEF CopyInv, Behind, Same, Keeps, history
  <1>12. ASSUME NEW a \in Actor, Schedule(a) PROVE CopyInv'
    <2>1. CASE pc'[a] = "idle"
      BY <1>12, <2>1, ScheduleEffect DEF CopyInv, Behind, Same, history
    <2>2. CASE pc'[a] # "idle"
      BY <1>12, <2>2, ScheduleEffect, ScheduleForward, CopyForward DEF history
    <2> QED  BY <2>1, <2>2
  <1>13. ASSUME NEW a \in Actor, Spawn(a) PROVE CopyInv'
    BY <1>13, SpawnEffect DEF CopyInv, Behind
  <1>14. ASSUME NEW a \in Actor, Generate(a) PROVE CopyInv'
    BY <1>14, GenerateEffect, GenerateForward, CopyForward DEF history
  <1>15. ASSUME Crash PROVE CopyInv'
    <2>1. NotAfter(row.state.synced, row.state.synced)
      BY MemTyped, NotAfterSelf
    <2> QED  BY <1>15, <2>1, CrashEffect DEF CopyInv, Behind
  <1>16. CASE UNCHANGED vars
    BY <1>16, Unchanged DEF CopyInv, Behind
  <1> QED
    BY <1>1, <1>2, <1>3, <1>4, <1>5, <1>6, <1>7, <1>8, <1>9, <1>10, <1>11, <1>12, <1>13, <1>14,
       <1>15, <1>16, NextCases

(***************************************************************************)
(* Counts.                                                                 *)
(***************************************************************************)
LEMMA CountGrows ==
    ASSUME CountInv, NEW a \in Actor, Same(a), pc'[a] \in Saving => Counted(a)',
           acked' = acked, crashes' = crashes,
           \A f \in Added : mem.state.control[f] \subseteq mem'.state.control[f]
    PROVE  CountInv'
  BY DEF CountInv, CountsKept, Counted, Same

LEMMA CountStep ==
    ASSUME TypeInv, WorkInv, CountInv, [Next]_vars
    PROVE  CountInv'
  <1>1. ASSUME NEW a \in Task, NEW f \in Field, Update(a, f) PROVE CountInv'
    BY <1>1, UpdateEffect, CountGrows DEF Saving, history
  <1>2. ASSUME NEW a \in Task, NEW n \in Length, AppendMessage(a, n) PROVE CountInv'
    BY <1>2, AppendMessageEffect, CountGrows DEF Saving, history
  <1>3. ASSUME NEW a \in Actor, ReadTitle(a) PROVE CountInv'
    <2>1. /\ Counted(a) /\ pc[a] \in Saving /\ Same(a) /\ acked' = acked /\ crashes' = crashes
          /\ local'[a].field = local[a].field /\ local'[a].call = local[a].call
          /\ mem'.state.control = mem.state.control
      BY <1>3, ReadTitleEffect DEF CountInv, Saving, Keeps, history
    <2>2. Counted(a)'
      BY <2>1 DEF Counted
    <2> QED  BY <2>1, <2>2, CountGrows
  <1>4. ASSUME NEW a \in Actor, Sync(a) PROVE CountInv'
    <2>1. /\ Counted(a) /\ pc[a] \in Saving /\ Same(a) /\ acked' = acked /\ crashes' = crashes
          /\ local'[a].field = local[a].field /\ local'[a].call = local[a].call
          /\ mem'.state.control = mem.state.control
      BY <1>4, SyncEffect DEF CountInv, Saving, Keeps, history
    <2>2. Counted(a)'
      BY <2>1 DEF Counted
    <2> QED  BY <2>1, <2>2, CountGrows
  <1>5. ASSUME NEW a \in Actor, Clone(a) PROVE CountInv'
    <2>1. /\ Counted(a) /\ pc[a] \in Saving /\ Same(a) /\ acked' = acked /\ crashes' = crashes
          /\ local'[a].field = local[a].field /\ local'[a].call = local[a].call
          /\ mem'.state.control = mem.state.control
      BY <1>5, CloneEffect DEF CountInv, Saving, Keeps, history
    <2>2. Counted(a)'
      BY <2>1 DEF Counted
    <2> QED  BY <2>1, <2>2, CountGrows
  <1>6. ASSUME NEW a \in Actor, Push(a) PROVE CountInv'
    BY <1>6, PushEffect, CountGrows DEF Saving, history
  <1>7. ASSUME NEW a \in Actor, SaveMessage(a) PROVE CountInv'
    <2>1. /\ local[a].field = "none" /\ Same(a) /\ acked' = acked /\ crashes' = crashes
          /\ mem'.state.control = mem.state.control
      BY <1>7, SaveMessageEffect DEF TypeInv, LocalFits, Actor, Gens, history
    <2>2. local'[a].field = "none"
      BY <1>7, <2>1, SaveMessageEffect, NoLocalTyped DEF Keeps
    <2>3. Counted(a)'
      BY <2>2 DEF Counted
    <2> QED  BY <2>1, <2>3, CountGrows
  <1>8. ASSUME NEW a \in Actor, Schedule(a) PROVE CountInv'
    <2>1. /\ local[a].field = "none" /\ Same(a) /\ acked' = acked /\ crashes' = crashes
          /\ mem'.state.control = mem.state.control
      BY <1>8, ScheduleEffect DEF TypeInv, LocalFits, Actor, Gens, history
    <2>2. local'[a].field = "none"
      BY <1>8, <2>1, ScheduleEffect, NoLocalTyped DEF Keeps
    <2>3. Counted(a)'
      BY <2>2 DEF Counted
    <2> QED  BY <2>1, <2>3, CountGrows
  <1>9. ASSUME NEW a \in Actor, Generate(a) PROVE CountInv'
    <2>1. /\ local[a].field = "none" /\ Same(a) /\ acked' = acked /\ crashes' = crashes
          /\ mem'.state.control = mem.state.control
      BY <1>9, GenerateEffect DEF TypeInv, LocalFits, Actor, Gens, history
    <2>2. local'[a].field = "none"
      BY <1>9, <2>1, GenerateEffect, NoLocalTyped DEF Keeps
    <2>3. Counted(a)'
      BY <2>2 DEF Counted
    <2> QED  BY <2>1, <2>3, CountGrows
  <1>10. ASSUME NEW a \in Actor, SetName(a) PROVE CountInv'
    <2>1. /\ local[a].field = "none" /\ Same(a) /\ acked' = acked /\ crashes' = crashes
          /\ mem'.state.control = mem.state.control
      BY <1>10, SetNameEffect DEF TypeInv, LocalFits, Actor, Gens, history
    <2>2. local'[a].field = "none"
      BY <1>10, <2>1, SetNameEffect, NoLocalTyped DEF Keeps
    <2>3. Counted(a)'
      BY <2>2 DEF Counted
    <2> QED  BY <2>1, <2>3, CountGrows
  <1>11. ASSUME NEW a \in Actor, StatementFails(a) PROVE CountInv'
    BY <1>11, FailsEffect, CountGrows DEF Saving, history
  <1>12. ASSUME NEW a \in Actor, Apply(a) PROVE CountInv'
    <2>1. /\ local'[a].field = local[a].field /\ local'[a].call = local[a].call
          /\ local[a].field \in Field /\ local[a].call \in Call
          /\ mem'.state.control = Applied(mem.state.control, local[a].field, local[a].call)
          /\ Same(a) /\ acked' = acked /\ crashes' = crashes
      BY <1>12, ApplyEffect DEF Keeps, history
    <2> PICK f \in Field, k \in Call, c \in Control :
           f = local[a].field /\ k = local[a].call /\ c = mem.state.control
      BY <2>1, MemTyped
    <2>2. k \in Applied(c, f, k)[f] /\ \A g \in Added : c[g] \subseteq Applied(c, f, k)[g]
      BY AppliedTyped
    <2>3. Counted(a)'
      BY <2>1, <2>2 DEF Counted
    <2> QED  BY <2>1, <2>2, <2>3, CountGrows
  <1>13. ASSUME NEW a \in Actor, Write(a) PROVE CountInv'
    <2>1. /\ pc[a] = "write" /\ Same(a) /\ mem' = mem /\ crashes' = crashes
          /\ pc'[a] \notin Saving
      BY <1>13, WriteEffect, MemTyped DEF Saving
    <2>2. \A f \in Field : \/ acked'[f] = acked[f]
                           \/ acked'[f] = local[a].call /\ local[a].field = f /\ f # "none"
      BY <1>13, WriteEffect
    <2>3. CountsKept'
      BY <2>1, <2>2 DEF CountsKept, CountInv, Counted, Saving, Field
    <2>4. \A b \in Actor : Counted(b)'
      BY <2>1 DEF CountInv, Counted, Same
    <2> QED  BY <2>3, <2>4 DEF CountInv
  <1>14. ASSUME NEW a \in Actor, Spawn(a) PROVE CountInv'
    <2>1. PICK g \in Gens :
             /\ g \in Actor /\ pc'[a] = "idle" /\ pc'[g] = "generate"
             /\ \A b \in Actor : b \notin {a, g} => pc'[b] = pc[b] /\ local'[b] = local[b]
             /\ UNCHANGED <<mem, acked, crashes>>
      BY <1>14, SpawnEffect
    <2> QED  BY <2>1 DEF CountInv, CountsKept, Counted, Saving
  <1>15. ASSUME Crash PROVE CountInv'
    BY <1>15, CrashEffect DEF CountInv, CountsKept, Counted, Saving
  <1>16. CASE UNCHANGED vars
    BY <1>16, Unchanged DEF CountInv, CountsKept, Counted
  <1> QED
    BY <1>1, <1>2, <1>3, <1>4, <1>5, <1>6, <1>7, <1>8, <1>9, <1>10, <1>11, <1>12, <1>13, <1>14,
       <1>15, <1>16, NextCases

(***************************************************************************)
(* One name.                                                               *)
(***************************************************************************)
LEMMA LiveBack ==
    ASSUME TypeInv, [Next]_vars
    PROVE  /\ Live' => Live
           /\ overtaken => overtaken'
           /\ crashes' # crashes => crashes' # 0 /\ Crash
  <1>1. ASSUME NEW a \in Task, NEW f \in Field, Update(a, f)
        PROVE  crashes' = crashes /\ (overtaken => overtaken')
    BY <1>1, UpdateEffect DEF history
  <1>2. ASSUME NEW a \in Task, NEW n \in Length, AppendMessage(a, n)
        PROVE  crashes' = crashes /\ (overtaken => overtaken')
    BY <1>2, AppendMessageEffect DEF history
  <1>3. ASSUME NEW a \in Actor,
               \/ Apply(a) \/ ReadTitle(a) \/ Sync(a) \/ Clone(a) \/ Write(a) \/ Push(a)
               \/ SaveMessage(a) \/ Schedule(a) \/ Spawn(a) \/ Generate(a) \/ SetName(a)
               \/ StatementFails(a)
        PROVE  crashes' = crashes /\ (overtaken => overtaken')
    <2>1. CASE Apply(a)
      BY <2>1 DEF Apply, history
    <2>2. CASE ReadTitle(a)
      BY <2>2 DEF ReadTitle, history
    <2>3. CASE Sync(a)
      BY <2>3 DEF Sync, history
    <2>4. CASE Clone(a)
      BY <2>4 DEF Clone, history
    <2>5. CASE Write(a)
      BY <2>5 DEF Write, history
    <2>6. CASE Push(a)
      BY <2>6 DEF Push, history
    <2>7. CASE SaveMessage(a)
      BY <2>7 DEF SaveMessage, history
    <2>8. CASE Schedule(a)
      BY <2>8 DEF Schedule, history
    <2>9. CASE Spawn(a)
      BY <2>9 DEF Spawn, history
    <2>10. CASE Generate(a)
      BY <2>10 DEF Generate, history
    <2>11. CASE SetName(a)
      BY <2>11 DEF SetName, history
    <2>12. CASE StatementFails(a)
      BY <2>12 DEF StatementFails, history
    <2> QED  BY <1>3, <2>1, <2>2, <2>3, <2>4, <2>5, <2>6, <2>7, <2>8, <2>9, <2>10, <2>11, <2>12
  <1>4. ASSUME Crash PROVE crashes' # 0 /\ crashes' # crashes /\ overtaken' = overtaken
    BY <1>4, CrashEffect
  <1>5. CASE UNCHANGED vars
    BY <1>5, Unchanged DEF Live
  <1>6. ASSUME crashes' = crashes, overtaken => overtaken' PROVE Live' => Live
    BY <1>6 DEF Live, TypeInv
  <1>7. ASSUME Crash PROVE Live' => Live
    BY <1>4, <1>7 DEF Live
  <1> QED  BY <1>1, <1>2, <1>3, <1>4, <1>5, <1>6, <1>7, NextCases

LEMMA NameKept ==
    ASSUME NameOnce, mem'.name = mem.name, mem'.title = mem.title, row'.name = row.name,
           \A b \in Actor :
              /\ local'[b].next = "spawn" => local[b].next = "spawn"
              /\ pc'[b] = "generate" => pc[b] = "generate"
              /\ pc'[b] = "name" => pc[b] = "name"
              /\ pc'[b] = "write" => pc[b] = "write" /\ local'[b].name = local[b].name
    PROVE  NameOnce'
  BY DEF NameOnce, Closed, Worker, Owes

(* The object has no name, and nobody writes one.                          *)
LEMMA Nameless ==
    ASSUME NameOnce, mem.name = 0
    PROVE  row.name = 0 /\ \A b \in Actor : pc[b] = "write" => local[b].name = 0
  BY DEF NameOnce

LEMMA ClosedSince ==
    ASSUME NEW t \in Title, NEW u \in Title, NotAfter(t, u), Since(t, u), Closed(u)
    PROVE  Closed(t)
  <1>1. t.attempts \in Nat /\ u.attempts \in Nat /\ Version(t) \in Nat /\ Version(u) \in Nat
    BY SessionControlAssumption, Versions DEF Title
  <1>2. /\ Version(t) = 3 * t.attempts + (IF t.status = "pending" THEN 0 ELSE 1)
        /\ Version(u) = 3 * u.attempts + (IF u.status = "pending" THEN 0 ELSE 1)
    BY DEF Version
  <1>3. Version(t) >= 3 * u.attempts /\ Version(t) <= Version(u)
    BY DEF Since, NotAfter
  <1>4. Version(t) = Version(u) \/ t.status = "pending"
    BY <1>1, <1>2, <1>3
  <1> QED  BY <1>4 DEF NotAfter, Closed

LEMMA NameStep ==
    ASSUME TypeInv, WorkInv, CopyInv, NameInv, [Next]_vars, Live'
    PROVE  NameOnce'
  <1>0. NameOnce
    BY LiveBack DEF NameInv
  <1>1. ASSUME NEW a \in Task, NEW f \in Field, Update(a, f) PROVE NameOnce'
    <2>1. \A b \in Actor :
             /\ local'[b].next = "spawn" => local[b].next = "spawn"
             /\ pc'[b] = "generate" => pc[b] = "generate"
             /\ pc'[b] = "name" => pc[b] = "name"
             /\ pc'[b] = "write" => pc[b] = "write" /\ local'[b].name = local[b].name
      BY <1>1, UpdateEffect, NoLocalTyped DEF Same, Keeps
    <2>2. mem'.name = mem.name /\ mem'.title = mem.title /\ row'.name = row.name
      BY <1>1, UpdateEffect
    <2> QED  BY <1>0, <2>1, <2>2, NameKept
  <1>2. ASSUME NEW a \in Task, NEW n \in Length, AppendMessage(a, n) PROVE NameOnce'
    <2>1. \A b \in Actor :
             /\ local'[b].next = "spawn" => local[b].next = "spawn"
             /\ pc'[b] = "generate" => pc[b] = "generate"
             /\ pc'[b] = "name" => pc[b] = "name"
             /\ pc'[b] = "write" => pc[b] = "write" /\ local'[b].name = local[b].name
      BY <1>2, AppendMessageEffect, NoLocalTyped DEF Same, Keeps
    <2>2. mem'.name = mem.name /\ mem'.title = mem.title /\ row'.name = row.name
      BY <1>2, AppendMessageEffect
    <2> QED  BY <1>0, <2>1, <2>2, NameKept
  <1>3. ASSUME NEW a \in Actor, Apply(a) PROVE NameOnce'
    <2>1. \A b \in Actor :
             /\ local'[b].next = "spawn" => local[b].next = "spawn"
             /\ pc'[b] = "generate" => pc[b] = "generate"
             /\ pc'[b] = "name" => pc[b] = "name"
             /\ pc'[b] = "write" => pc[b] = "write" /\ local'[b].name = local[b].name
      BY <1>3, ApplyEffect, NoLocalTyped DEF Same, Keeps
    <2>2. mem'.name = mem.name /\ mem'.title = mem.title /\ row'.name = row.name
      BY <1>3, ApplyEffect
    <2> QED  BY <1>0, <2>1, <2>2, NameKept
  <1>4. ASSUME NEW a \in Actor, ReadTitle(a) PROVE NameOnce'
    <2>1. \A b \in Actor :
             /\ local'[b].next = "spawn" => local[b].next = "spawn"
             /\ pc'[b] = "generate" => pc[b] = "generate"
             /\ pc'[b] = "name" => pc[b] = "name"
             /\ pc'[b] = "write" => pc[b] = "write" /\ local'[b].name = local[b].name
      BY <1>4, ReadTitleEffect, NoLocalTyped DEF Same, Keeps
    <2>2. mem'.name = mem.name /\ mem'.title = mem.title /\ row'.name = row.name
      BY <1>4, ReadTitleEffect
    <2> QED  BY <1>0, <2>1, <2>2, NameKept
  <1>5. ASSUME NEW a \in Actor, Sync(a) PROVE NameOnce'
    <2>1. \A b \in Actor :
             /\ local'[b].next = "spawn" => local[b].next = "spawn"
             /\ pc'[b] = "generate" => pc[b] = "generate"
             /\ pc'[b] = "name" => pc[b] = "name"
             /\ pc'[b] = "write" => pc[b] = "write" /\ local'[b].name = local[b].name
      BY <1>5, SyncEffect, NoLocalTyped DEF Same, Keeps
    <2>2. mem'.name = mem.name /\ mem'.title = mem.title /\ row'.name = row.name
      BY <1>5, SyncEffect
    <2> QED  BY <1>0, <2>1, <2>2, NameKept
  <1>6. ASSUME NEW a \in Actor, Push(a) PROVE NameOnce'
    <2>1. \A b \in Actor :
             /\ local'[b].next = "spawn" => local[b].next = "spawn"
             /\ pc'[b] = "generate" => pc[b] = "generate"
             /\ pc'[b] = "name" => pc[b] = "name"
             /\ pc'[b] = "write" => pc[b] = "write" /\ local'[b].name = local[b].name
      BY <1>6, PushEffect, NoLocalTyped DEF Same, Keeps
    <2>2. mem'.name = mem.name /\ mem'.title = mem.title /\ row'.name = row.name
      BY <1>6, PushEffect
    <2> QED  BY <1>0, <2>1, <2>2, NameKept
  <1>7. ASSUME NEW a \in Actor, SaveMessage(a) PROVE NameOnce'
    <2>1. \A b \in Actor :
             /\ local'[b].next = "spawn" => local[b].next = "spawn"
             /\ pc'[b] = "generate" => pc[b] = "generate"
             /\ pc'[b] = "name" => pc[b] = "name"
             /\ pc'[b] = "write" => pc[b] = "write" /\ local'[b].name = local[b].name
      BY <1>7, SaveMessageEffect, NoLocalTyped DEF Same, Keeps
    <2>2. mem'.name = mem.name /\ mem'.title = mem.title /\ row'.name = row.name
      BY <1>7, SaveMessageEffect
    <2> QED  BY <1>0, <2>1, <2>2, NameKept
  <1>8. ASSUME NEW a \in Actor, StatementFails(a) PROVE NameOnce'
    <2>1. \A b \in Actor :
             /\ local'[b].next = "spawn" => local[b].next = "spawn"
             /\ pc'[b] = "generate" => pc[b] = "generate"
             /\ pc'[b] = "name" => pc[b] = "name"
             /\ pc'[b] = "write" => pc[b] = "write" /\ local'[b].name = local[b].name
      BY <1>8, FailsEffect, NoLocalTyped DEF Same, Keeps
    <2>2. mem'.name = mem.name /\ mem'.title = mem.title /\ row'.name = row.name
      BY <1>8, FailsEffect
    <2> QED  BY <1>0, <2>1, <2>2, NameKept
  <1>9. ASSUME NEW a \in Actor, Clone(a) PROVE NameOnce'
    <2>1. /\ mem' = mem /\ row' = row /\ Same(a) /\ local'[a].name = mem.name
          /\ local'[a].next = local[a].next /\ pc'[a] = "write"
      BY <1>9, CloneEffect DEF Keeps
    <2> QED  BY <1>0, <2>1 DEF NameOnce, Same, Worker, Owes
  <1>10. ASSUME NEW a \in Actor, Write(a) PROVE NameOnce'
    <2>1. /\ mem' = mem /\ Same(a) /\ pc[a] = "write"
          /\ row'.name = IF local[a].saves THEN local[a].name ELSE row.name
      BY <1>10, WriteEffect
    <2>2. /\ pc'[a] \notin {"write", "generate", "name"}
          /\ local'[a].next = "spawn" => local[a].next = "spawn"
      BY <1>10, WriteEffect, NoLocalTyped, MemTyped
    <2> QED  BY <1>0, <2>1, <2>2 DEF NameOnce, Same, Worker, Owes
  <1>11. ASSUME NEW a \in Actor, Schedule(a) PROVE NameOnce'
    <2>1. CASE pc'[a] = "idle"
      <3>1. \A b \in Actor :
               /\ local'[b].next = "spawn" => local[b].next = "spawn"
               /\ pc'[b] = "generate" => pc[b] = "generate"
               /\ pc'[b] = "name" => pc[b] = "name"
               /\ pc'[b] = "write" => pc[b] = "write" /\ local'[b].name = local[b].name
        BY <1>11, <2>1, ScheduleEffect, NoLocalTyped DEF Same
      <3>2. mem'.name = mem.name /\ mem'.title = mem.title /\ row'.name = row.name
        BY <1>11, <2>1, ScheduleEffect
      <3> QED  BY <1>0, <3>1, <3>2, NameKept
    <2>2. CASE pc'[a] # "idle"
      <3>1. /\ mem.title.source = "default" /\ mem.title.status # "pending"
            /\ mem'.name = mem.name /\ row' = row /\ Same(a) /\ pc'[a] = "read"
        BY <1>11, <2>2, ScheduleEffect
      <3>2. mem.name = 0
        BY <1>0, <3>1 DEF NameOnce, Closed
      <3> QED  BY <1>0, <3>1, <3>2 DEF NameOnce, Same
    <2> QED  BY <2>1, <2>2
  <1>12. ASSUME NEW a \in Actor, Spawn(a) PROVE NameOnce'
    <2>1. PICK g \in Gens :
             /\ g \in Actor /\ local[a].next = "spawn"
             /\ pc'[a] = "idle" /\ pc'[g] = "generate"
             /\ \A b \in Actor : b \notin {a, g} => pc'[b] = pc[b] /\ local'[b] = local[b]
             /\ UNCHANGED <<mem, row>>
      BY <1>12, SpawnEffect
    <2>2. mem.name = 0
      BY <1>0, <2>1 DEF NameOnce, Worker, Owes
    <2> QED  BY <1>0, <2>1, <2>2 DEF NameOnce
  <1>13. ASSUME NEW a \in Actor, Generate(a) PROVE NameOnce'
    <2>1. pc[a] = "generate" /\ mem'.name = mem.name /\ row' = row /\ Same(a) /\ pc'[a] # "write"
      BY <1>13, GenerateEffect
    <2>2. mem.name = 0
      BY <1>0, <2>1 DEF NameOnce, Worker
    <2> QED  BY <1>0, <2>1, <2>2 DEF NameOnce, Same
  <1>14. ASSUME NEW a \in Actor, SetName(a) PROVE NameOnce'
    <2>1. /\ pc[a] = "name" /\ pc'[a] = "read" /\ local'[a].next = "idle"
          /\ mem'.title = mem.title /\ row' = row /\ Same(a)
      BY <1>14, SetNameEffect
    <2>2. mem.name = 0 /\ row.name = 0 /\ \A b \in Actor : pc[b] = "write" => local[b].name = 0
      BY <1>0, <2>1, Nameless DEF NameOnce
    <2>3. /\ mem.title.source = "ai" /\ \A b \in Actor : ~Worker(b)
          /\ \A b \in Actor : pc[b] = "name" => b = a
      BY <2>1 DEF WorkInv
    <2> QED  BY <2>1, <2>2, <2>3 DEF NameOnce, Same, Worker, Owes, Closed
  <1>15. ASSUME Crash PROVE NameOnce'
    <2>1. ~overtaken
      BY <1>15, CrashEffect DEF Live
    <2>2. row.name # 0 => Closed(row.state.synced)
      <3> SUFFICES ASSUME row.name # 0 PROVE Closed(row.state.synced)
        OBVIOUS
      <3> PICK t \in Title, u \in Title : t = row.state.synced /\ u = mem.title
        BY MemTyped
      <3>1. Since(t, u) /\ NotAfter(t, u)
        BY <2>1 DEF NameInv, AttemptSaved, Recent, CopyInv, Behind
      <3>2. Closed(u)
        BY <1>0 DEF NameOnce
      <3> QED  BY <3>1, <3>2, ClosedSince
    <2>3. /\ row' = row /\ mem'.title = row.state.synced /\ mem'.name = row.name
          /\ \A b \in Actor : pc'[b] = "idle" /\ local'[b].next = "idle"
      BY <1>15, CrashEffect, NoLocalTyped
    <2> QED  BY <2>2, <2>3 DEF NameOnce, Worker, Owes
  <1>16. CASE UNCHANGED vars
    BY <1>0, <1>16, Unchanged DEF NameOnce, Worker, Owes
  <1> QED
    BY <1>1, <1>2, <1>3, <1>4, <1>5, <1>6, <1>7, <1>8, <1>9, <1>10, <1>11, <1>12, <1>13, <1>14,
       <1>15, <1>16, NextCases

(* Who has saved the attempt of its generation in the control state.        *)
LEMMA ClonesKept ==
    ASSUME TypeInv, CloneInv, NEW a \in Actor, Same(a), pc[a] # "write"
    PROVE  \A i \in DOMAIN cloned : local'[cloned[i]] = local[cloned[i]]
  BY ClonedActors DEF CloneInv, Same

LEMMA SavedKept ==
    ASSUME AttemptSaved, mem'.name = mem.name, mem'.title = mem.title,
           mem'.state.synced = mem.state.synced,
           row'.name = row.name, row'.state = row.state, cloned' = cloned,
           \A i \in DOMAIN cloned : local'[cloned[i]] = local[cloned[i]],
           \A b \in Actor :
              /\ \/ pc'[b] \in {"spawn", "generate", "name"}
                 \/ local'[b].next = "spawn" /\ pc'[b] \in {"clone", "write"}
                 => Since(mem.state.synced, mem.title)
              /\ local'[b].next = "spawn" /\ pc'[b] = "sync" =>
                    Since(local'[b].title, mem.title)
    PROVE  AttemptSaved'
  BY DEF AttemptSaved, Recent, Owes

(* The same, said of the actors other than a.                              *)
LEMMA OthersSaved ==
    ASSUME AttemptSaved, NEW a \in Actor, Same(a)
    PROVE  \A b \in Actor : b # a =>
              /\ \/ pc'[b] \in {"spawn", "generate", "name"}
                 \/ local'[b].next = "spawn" /\ pc'[b] \in {"clone", "write"}
                 => Since(mem.state.synced, mem.title)
              /\ local'[b].next = "spawn" /\ pc'[b] = "sync" =>
                    Since(local'[b].title, mem.title)
  BY DEF AttemptSaved, Recent, Owes, Same

LEMMA SinceSelf ==
    ASSUME NEW t \in Title
    PROVE  Since(t, t)
  <1>1. t.attempts \in Nat
    BY SessionControlAssumption DEF Title
  <1> QED  BY <1>1 DEF Since, Version

LEMMA SinceLater ==
    ASSUME NEW t \in Title, NEW s \in Title, NEW u \in Title, Since(s, u),
           ~(Version(t) < Version(s))
    PROVE  Since(t, u)
  <1>1. u.attempts \in Nat /\ Version(t) \in Nat /\ Version(s) \in Nat
    BY SessionControlAssumption, Versions DEF Title
  <1> QED  BY <1>1 DEF Since

LEMMA SinceSame ==
    ASSUME NEW t, NEW u, NEW v, Since(t, u), v.attempts = u.attempts
    PROVE  Since(t, v)
  BY DEF Since

LEMMA SavedStep ==
    ASSUME TypeInv, WorkInv, CloneInv, NameInv, [Next]_vars, ~overtaken'
    PROVE  AttemptSaved'
  <1>0. AttemptSaved /\ NameOnce /\ ~overtaken
    BY LiveBack DEF NameInv, Live
  <1>1. ASSUME NEW a \in Task, NEW f \in Field, Update(a, f) PROVE AttemptSaved'
    <2>1. /\ mem'.name = mem.name /\ mem'.title = mem.title
          /\ mem'.state.synced = mem.state.synced
          /\ row'.name = row.name /\ row'.state = row.state /\ cloned' = cloned
          /\ Same(a) /\ pc[a] # "write" /\ a \in Actor
      BY <1>1, UpdateEffect DEF history
    <2>2. /\ \/ pc'[a] \in {"spawn", "generate", "name"}
             \/ local'[a].next = "spawn" /\ pc'[a] \in {"clone", "write"}
             => Since(mem.state.synced, mem.title)
          /\ local'[a].next = "spawn" /\ pc'[a] = "sync" =>
                Since(local'[a].title, mem.title)
      BY <1>1, UpdateEffect, NoLocalTyped DEF Same, Keeps
    <2>3. \A i \in DOMAIN cloned : local'[cloned[i]] = local[cloned[i]]
      BY <2>1, ClonesKept
    <2> QED  BY <1>0, <2>1, <2>2, <2>3, OthersSaved, SavedKept
  <1>2. ASSUME NEW a \in Task, NEW n \in Length, AppendMessage(a, n) PROVE AttemptSaved'
    <2>1. /\ mem'.name = mem.name /\ mem'.title = mem.title
          /\ mem'.state.synced = mem.state.synced
          /\ row'.name = row.name /\ row'.state = row.state /\ cloned' = cloned
          /\ Same(a) /\ pc[a] # "write" /\ a \in Actor
      BY <1>2, AppendMessageEffect DEF history
    <2>2. /\ \/ pc'[a] \in {"spawn", "generate", "name"}
             \/ local'[a].next = "spawn" /\ pc'[a] \in {"clone", "write"}
             => Since(mem.state.synced, mem.title)
          /\ local'[a].next = "spawn" /\ pc'[a] = "sync" =>
                Since(local'[a].title, mem.title)
      BY <1>2, AppendMessageEffect, NoLocalTyped DEF Same, Keeps
    <2>3. \A i \in DOMAIN cloned : local'[cloned[i]] = local[cloned[i]]
      BY <2>1, ClonesKept
    <2> QED  BY <1>0, <2>1, <2>2, <2>3, OthersSaved, SavedKept
  <1>3. ASSUME NEW a \in Actor, Apply(a) PROVE AttemptSaved'
    <2>1. /\ mem'.name = mem.name /\ mem'.title = mem.title
          /\ mem'.state.synced = mem.state.synced
          /\ row'.name = row.name /\ row'.state = row.state /\ cloned' = cloned
          /\ Same(a) /\ pc[a] # "write" /\ a \in Actor
      BY <1>3, ApplyEffect DEF history
    <2>2. /\ \/ pc'[a] \in {"spawn", "generate", "name"}
             \/ local'[a].next = "spawn" /\ pc'[a] \in {"clone", "write"}
             => Since(mem.state.synced, mem.title)
          /\ local'[a].next = "spawn" /\ pc'[a] = "sync" =>
                Since(local'[a].title, mem.title)
      BY <1>3, ApplyEffect, NoLocalTyped DEF Same, Keeps
    <2>3. \A i \in DOMAIN cloned : local'[cloned[i]] = local[cloned[i]]
      BY <2>1, ClonesKept
    <2> QED  BY <1>0, <2>1, <2>2, <2>3, OthersSaved, SavedKept
  <1>4. ASSUME NEW a \in Actor, ReadTitle(a) PROVE AttemptSaved'
    <2>1. /\ mem'.name = mem.name /\ mem'.title = mem.title
          /\ mem'.state.synced = mem.state.synced
          /\ row'.name = row.name /\ row'.state = row.state /\ cloned' = cloned
          /\ Same(a) /\ pc[a] # "write" /\ a \in Actor
      BY <1>4, ReadTitleEffect DEF history
    <2>2. /\ \/ pc'[a] \in {"spawn", "generate", "name"}
             \/ local'[a].next = "spawn" /\ pc'[a] \in {"clone", "write"}
             => Since(mem.state.synced, mem.title)
          /\ local'[a].next = "spawn" /\ pc'[a] = "sync" =>
                Since(local'[a].title, mem.title)
      BY <1>4, ReadTitleEffect, MemTyped, SinceSelf DEF Same, Keeps
    <2>3. \A i \in DOMAIN cloned : local'[cloned[i]] = local[cloned[i]]
      BY <2>1, ClonesKept
    <2> QED  BY <1>0, <2>1, <2>2, <2>3, OthersSaved, SavedKept
  <1>5. ASSUME NEW a \in Actor, Push(a) PROVE AttemptSaved'
    <2>1. /\ mem'.name = mem.name /\ mem'.title = mem.title
          /\ mem'.state.synced = mem.state.synced
          /\ row'.name = row.name /\ row'.state = row.state /\ cloned' = cloned
          /\ Same(a) /\ pc[a] # "write" /\ a \in Actor
      BY <1>5, PushEffect DEF history
    <2>2. /\ \/ pc'[a] \in {"spawn", "generate", "name"}
             \/ local'[a].next = "spawn" /\ pc'[a] \in {"clone", "write"}
             => Since(mem.state.synced, mem.title)
          /\ local'[a].next = "spawn" /\ pc'[a] = "sync" =>
                Since(local'[a].title, mem.title)
      BY <1>5, PushEffect, NoLocalTyped DEF Same, Keeps
    <2>3. \A i \in DOMAIN cloned : local'[cloned[i]] = local[cloned[i]]
      BY <2>1, ClonesKept
    <2> QED  BY <1>0, <2>1, <2>2, <2>3, OthersSaved, SavedKept
  <1>6. ASSUME NEW a \in Actor, SaveMessage(a) PROVE AttemptSaved'
    <2>1. /\ mem'.name = mem.name /\ mem'.title = mem.title
          /\ mem'.state.synced = mem.state.synced
          /\ row'.name = row.name /\ row'.state = row.state /\ cloned' = cloned
          /\ Same(a) /\ pc[a] # "write" /\ a \in Actor
      BY <1>6, SaveMessageEffect DEF history
    <2>2. /\ \/ pc'[a] \in {"spawn", "generate", "name"}
             \/ local'[a].next = "spawn" /\ pc'[a] \in {"clone", "write"}
             => Since(mem.state.synced, mem.title)
          /\ local'[a].next = "spawn" /\ pc'[a] = "sync" =>
                Since(local'[a].title, mem.title)
      BY <1>6, SaveMessageEffect, NoLocalTyped DEF Same, Keeps
    <2>3. \A i \in DOMAIN cloned : local'[cloned[i]] = local[cloned[i]]
      BY <2>1, ClonesKept
    <2> QED  BY <1>0, <2>1, <2>2, <2>3, OthersSaved, SavedKept
  <1>7. ASSUME NEW a \in Actor, Schedule(a) PROVE AttemptSaved'
    <2>1. /\ row' = row /\ cloned' = cloned /\ Same(a) /\ pc[a] = "schedule"
          /\ mem'.name = mem.name /\ mem'.state = mem.state
      BY <1>7, ScheduleEffect DEF history
    <2>2. \A i \in DOMAIN cloned : local'[cloned[i]] = local[cloned[i]]
      BY <2>1, ClonesKept
    <2>3. CASE pc'[a] = "idle"
      BY <1>0, <1>7, <2>1, <2>2, <2>3, OthersSaved, SavedKept, ScheduleEffect
    <2>4. CASE pc'[a] # "idle"
      <3>1. /\ mem.title.source = "default" /\ mem.title.status # "pending"
            /\ pc'[a] = "read"
        BY <1>7, <2>4, ScheduleEffect
      <3>2. /\ mem.name = 0 /\ row.name = 0
            /\ \A b \in Actor : pc[b] = "write" => local[b].name = 0
        BY <1>0, <3>1, Nameless DEF NameOnce, Closed
      <3>3. \A b \in Actor : ~Worker(b) /\ pc[b] \notin {"spawn", "name"}
        BY <3>1 DEF WorkInv, TypeInv, LocalFits, Worker, Owes
      <3>4. \A i \in DOMAIN cloned : local[cloned[i]].name = 0
        BY <3>2, ClonedActors DEF CloneInv
      <3> QED  BY <2>1, <2>2, <3>1, <3>2, <3>3, <3>4 DEF AttemptSaved, Same, Worker, Owes
    <2> QED  BY <2>3, <2>4
  <1>8. ASSUME NEW a \in Actor, Spawn(a) PROVE AttemptSaved'
    <2>1. PICK g \in Gens :
             /\ g \in Actor /\ pc[a] = "spawn" /\ pc[g] = "idle"
             /\ pc'[a] = "idle" /\ local'[a] = NoLocal
             /\ pc'[g] = "generate" /\ local'[g] = NoLocal
             /\ \A b \in Actor : b \notin {a, g} => pc'[b] = pc[b] /\ local'[b] = local[b]
             /\ UNCHANGED <<mem, row, cloned>>
      BY <1>8, SpawnEffect
    <2>2. Since(mem.state.synced, mem.title)
      BY <1>0, <2>1 DEF AttemptSaved, Recent
    <2>3. \A i \in DOMAIN cloned : cloned[i] \in Actor /\ cloned[i] \notin {a, g}
      BY <2>1, ClonedActors DEF CloneInv
    <2>4. \A b \in Actor : local'[b].next = "spawn" /\ pc'[b] = "sync" =>
             Since(local'[b].title, mem.title)
      BY <1>0, <2>1 DEF AttemptSaved, Recent, Owes
    <2>5. \A i \in DOMAIN cloned : local'[cloned[i]] = local[cloned[i]]
      BY <2>1, <2>3
    <2> QED  BY <1>0, <2>1, <2>2, <2>4, <2>5, SavedKept
  <1>9. ASSUME NEW a \in Actor, Sync(a) PROVE AttemptSaved'
    <2>1. /\ pc[a] = "sync" /\ pc'[a] = "clone" /\ Same(a) /\ local' = local
          /\ mem'.state.synced = local[a].title /\ mem'.title = mem.title
          /\ mem'.name = mem.name /\ row' = row /\ cloned' = cloned
          /\ ~(Version(local[a].title) < Version(mem.state.synced))
      BY <1>9, SyncEffect
    <2>2. Since(mem.state.synced, mem.title) => Since(local[a].title, mem.title)
      <3> PICK t \in Title, s \in Title, u \in Title :
             t = local[a].title /\ s = mem.state.synced /\ u = mem.title
        BY MemTyped
      <3> QED  BY <2>1, SinceLater
    <2>3. local[a].next = "spawn" => Since(local[a].title, mem.title)
      BY <1>0, <2>1 DEF AttemptSaved, Recent, Owes
    <2>4. ASSUME NEW b \in Actor,
                 \/ pc'[b] \in {"spawn", "generate", "name"}
                 \/ local'[b].next = "spawn" /\ pc'[b] \in {"clone", "write"}
          PROVE  Since(local[a].title, mem.title)
      <3>1. CASE b = a
        BY <2>1, <2>3, <2>4, <3>1
      <3>2. CASE b # a
        BY <1>0, <2>1, <2>2, <2>4, <3>2, OthersSaved
      <3> QED  BY <3>1, <3>2
    <2>5. \A b \in Actor : local'[b].next = "spawn" /\ pc'[b] = "sync" =>
             Since(local'[b].title, mem.title)
      BY <1>0, <2>1 DEF AttemptSaved, Recent, Owes, Same
    <2>6. mem'.name # 0 => Since(mem'.state.synced, mem'.title)
      BY <1>0, <2>1, <2>2 DEF AttemptSaved, Recent
    <2>7. /\ \A i \in DOMAIN cloned : local[cloned[i]].name # 0 =>
                Since(local[cloned[i]].snap.synced, mem.title)
          /\ row.name # 0 => Since(row.state.synced, mem.title)
          /\ row.name # 0 => \A i \in DOMAIN cloned : local[cloned[i]].name # 0
          /\ \A i, j \in DOMAIN cloned :
                i < j /\ local[cloned[i]].name # 0 => local[cloned[j]].name # 0
      BY <1>0 DEF AttemptSaved, Recent
    <2> QED  BY <2>1, <2>4, <2>5, <2>6, <2>7 DEF AttemptSaved, Recent, Owes
  <1>10. ASSUME NEW a \in Actor, Clone(a) PROVE AttemptSaved'
    <2>1. /\ pc[a] = "clone" /\ pc'[a] = "write" /\ Same(a) /\ mem' = mem /\ row' = row
          /\ local'[a].next = local[a].next
          /\ local'[a].snap = mem.state /\ local'[a].name = mem.name
      BY <1>10, CloneEffect DEF Keeps
    <2>2. PICK n \in Nat : /\ DOMAIN cloned = 1 .. n /\ DOMAIN cloned' = 1 .. n + 1
                           /\ cloned'[n + 1] = a
                           /\ \A i \in 1 .. n : cloned'[i] = cloned[i]
      BY <1>10, ClonedGrows
    <2>3. \A i \in 1 .. n : /\ local'[cloned'[i]] = local[cloned[i]]
                            /\ pc[cloned[i]] = "write" /\ cloned[i] \in Actor
      BY <2>1, <2>2, ClonesKept, ClonedActors DEF CloneInv
    <2>4. \A b \in Actor :
             /\ \/ pc'[b] \in {"spawn", "generate", "name"}
                \/ local'[b].next = "spawn" /\ pc'[b] \in {"clone", "write"}
                => Since(mem.state.synced, mem.title)
             /\ local'[b].next = "spawn" /\ pc'[b] = "sync" =>
                   Since(local'[b].title, mem.title)
      <3>1. local[a].next = "spawn" => Since(mem.state.synced, mem.title)
        BY <1>0, <2>1 DEF AttemptSaved, Recent, Owes
      <3> QED  BY <1>0, <2>1, <3>1, OthersSaved
    <2>5. mem.name # 0 => Since(mem.state.synced, mem.title)
      BY <1>0 DEF AttemptSaved, Recent
    <2>6. \A i \in 1 .. n + 1 : i \in 1 .. n \/ i = n + 1
      OBVIOUS
    <2>7. \A i \in 1 .. n + 1 : local'[cloned'[i]].name # 0 =>
             Since(local'[cloned'[i]].snap.synced, mem.title)
      <3>1. \A i \in 1 .. n : local[cloned[i]].name # 0 =>
               Since(local[cloned[i]].snap.synced, mem.title)
        BY <1>0, <2>2 DEF AttemptSaved, Recent
      <3> QED  BY <2>1, <2>2, <2>3, <2>5, <2>6, <3>1
    <2>8. row.name # 0 => \A i \in 1 .. n + 1 : local'[cloned'[i]].name # 0
      <3>1. row.name # 0 => mem.name # 0 /\ \A i \in 1 .. n : local[cloned[i]].name # 0
        BY <1>0, <2>2 DEF AttemptSaved, NameOnce
      <3> QED  BY <2>1, <2>2, <2>3, <2>6, <3>1
    <2>9. \A i, j \in 1 .. n + 1 :
             i < j /\ local'[cloned'[i]].name # 0 => local'[cloned'[j]].name # 0
      <3>1. \A i, j \in 1 .. n :
               i < j /\ local[cloned[i]].name # 0 => local[cloned[j]].name # 0
        BY <1>0, <2>2 DEF AttemptSaved
      <3>2. \A i \in 1 .. n : local[cloned[i]].name # 0 => mem.name # 0
        BY <1>0, <2>3 DEF NameOnce
      <3> TAKE i, j \in 1 .. n + 1
      <3>3. CASE j = n + 1
        BY <2>1, <2>2, <2>3, <2>6, <3>2, <3>3
      <3>4. CASE j \in 1 .. n
        <4>1. i < j => i \in 1 .. n
          BY <3>4
        <4> QED  BY <2>3, <3>1, <3>4, <4>1
      <3> QED  BY <2>6, <3>3, <3>4
    <2>10. row.name # 0 => Since(row.state.synced, mem.title)
      BY <1>0 DEF AttemptSaved, Recent
    <2> QED  BY <2>1, <2>2, <2>4, <2>5, <2>7, <2>8, <2>9, <2>10 DEF AttemptSaved, Recent, Owes
  <1>11. ASSUME NEW a \in Actor, Write(a) PROVE AttemptSaved'
    <2>1. /\ pc[a] = "write" /\ Same(a) /\ mem' = mem
          /\ row'.state = local[a].snap
          /\ row'.name = IF local[a].saves THEN local[a].name ELSE row.name
          /\ a \in ToSet(cloned)
      BY <1>0, <1>11, WriteEffect
    <2>2. PICK d \in Seq(Actor) :
             /\ d = cloned' /\ Thins(cloned, d) /\ \A i \in DOMAIN d : d[i] # a
             /\ \E p \in DOMAIN cloned :
                   /\ cloned[p] = a
                   /\ \A i \in DOMAIN d : \E j \in DOMAIN cloned : p < j /\ d[i] = cloned[j]
      BY <1>11, <2>1, WriteEffect, YoungerIs DEF TypeInv, CloneInv
    <2>3. /\ \A i \in DOMAIN d : d[i] \in Actor /\ d[i] # a
          /\ \A i \in DOMAIN d : \E j \in DOMAIN cloned : d[i] = cloned[j]
          /\ \A i, j \in DOMAIN d : i < j =>
                \E k, l \in DOMAIN cloned : k < l /\ d[i] = cloned[k] /\ d[j] = cloned[l]
      BY <2>2, ClonedThinned
    <2>4. \A i \in DOMAIN d : local'[d[i]] = local[d[i]]
      BY <2>1, <2>3 DEF Same
    <2>5. PICK p \in DOMAIN cloned :
             /\ cloned[p] = a
             /\ \A i \in DOMAIN d : \E j \in DOMAIN cloned : p < j /\ d[i] = cloned[j]
      BY <2>2
    <2>6. row'.name # 0 => local[a].name # 0
      BY <1>0, <2>1, <2>5 DEF AttemptSaved
    <2>7. local[a].name # 0 => /\ Since(local[a].snap.synced, mem.title)
                               /\ \A i \in DOMAIN d : local[d[i]].name # 0
      BY <1>0, <2>5 DEF AttemptSaved, Recent
    <2>8. \A i \in DOMAIN d : local[d[i]].name # 0 => Since(local[d[i]].snap.synced, mem.title)
      BY <1>0, <2>3 DEF AttemptSaved, Recent
    <2>9. \A i, j \in DOMAIN d : i < j /\ local[d[i]].name # 0 => local[d[j]].name # 0
      BY <1>0, <2>3 DEF AttemptSaved
    <2>10. \A b \in Actor :
             /\ \/ pc'[b] \in {"spawn", "generate", "name"}
                \/ local'[b].next = "spawn" /\ pc'[b] \in {"clone", "write"}
                => Since(mem.state.synced, mem.title)
             /\ local'[b].next = "spawn" /\ pc'[b] = "sync" =>
                   Since(local'[b].title, mem.title)
      <3>1. /\ pc'[a] \in {"idle", "schedule", "spawn"}
            /\ pc'[a] = "spawn" => local[a].next = "spawn"
        BY <1>11, WriteEffect, MemTyped
      <3>2. local[a].next = "spawn" => Since(mem.state.synced, mem.title)
        BY <1>0, <2>1 DEF AttemptSaved, Recent, Owes
      <3> QED  BY <1>0, <2>1, <3>1, <3>2, OthersSaved
    <2>11. mem.name # 0 => Since(mem.state.synced, mem.title)
      BY <1>0 DEF AttemptSaved, Recent
    <2> QED
      BY <2>1, <2>2, <2>4, <2>6, <2>7, <2>8, <2>9, <2>10, <2>11 DEF AttemptSaved, Recent, Owes
  <1>12. ASSUME NEW a \in Actor, Generate(a) PROVE AttemptSaved'
    <2>1. /\ row' = row /\ cloned' = cloned /\ Same(a) /\ pc[a] = "generate"
          /\ mem'.name = mem.name /\ mem'.state = mem.state
          /\ mem'.title.attempts = mem.title.attempts
          /\ pc'[a] \in {"name", "read"}
      BY <1>12, GenerateEffect DEF history
    <2>2. \A i \in DOMAIN cloned : local'[cloned[i]] = local[cloned[i]]
      BY <2>1, ClonesKept
    <2>3. Since(mem.state.synced, mem.title)
      BY <1>0, <2>1 DEF AttemptSaved, Recent
    <2>4. \A b \in Actor : b # a => (local'[b].next = "spawn" /\ pc'[b] = "sync" =>
                   Since(local'[b].title, mem.title))
      BY <1>0, <2>1, OthersSaved
    <2>5. \A t : Since(t, mem.title) => Since(t, mem'.title)
      BY <2>1, SinceSame
    <2> QED  BY <1>0, <2>1, <2>2, <2>3, <2>4, <2>5 DEF AttemptSaved, Recent, Owes
  <1>13. ASSUME NEW a \in Actor, SetName(a) PROVE AttemptSaved'
    <2>1. /\ pc[a] = "name" /\ pc'[a] = "read" /\ row' = row /\ cloned' = cloned /\ Same(a)
          /\ mem'.title = mem.title /\ mem'.state = mem.state
      BY <1>13, SetNameEffect DEF history
    <2>2. Since(mem.state.synced, mem.title)
      BY <1>0, <2>1 DEF AttemptSaved, Recent
    <2>3. \A i \in DOMAIN cloned : local'[cloned[i]] = local[cloned[i]]
      BY <2>1, ClonesKept
    <2>4. \A b \in Actor : local'[b].next = "spawn" /\ pc'[b] = "sync" =>
             Since(local'[b].title, mem.title)
      BY <1>0, <2>1, OthersSaved
    <2> QED  BY <1>0, <2>1, <2>2, <2>3, <2>4 DEF AttemptSaved, Recent, Owes
  <1>14. ASSUME NEW a \in Actor, StatementFails(a) PROVE AttemptSaved'
    <2>1. /\ Same(a) /\ mem' = mem /\ row' = row /\ pc'[a] = "idle"
      BY <1>14, FailsEffect
    <2>2. PICK d \in Seq(Actor) :
             d = cloned' /\ Thins(cloned, d) /\ \A i \in DOMAIN d : d[i] # a
      BY <1>14, FailsEffect, WithoutIs DEF TypeInv, CloneInv
    <2>3. /\ \A i \in DOMAIN d : d[i] \in Actor /\ d[i] # a
          /\ \A i \in DOMAIN d : \E j \in DOMAIN cloned : d[i] = cloned[j]
          /\ \A i, j \in DOMAIN d : i < j =>
                \E k, l \in DOMAIN cloned : k < l /\ d[i] = cloned[k] /\ d[j] = cloned[l]
      BY <2>2, ClonedThinned
    <2>4. \A i \in DOMAIN d : local'[d[i]] = local[d[i]]
      BY <2>1, <2>3 DEF Same
    <2>5. \A i \in DOMAIN d : local[d[i]].name # 0 => Since(local[d[i]].snap.synced, mem.title)
      BY <1>0, <2>3 DEF AttemptSaved, Recent
    <2>6. \A i, j \in DOMAIN d : i < j /\ local[d[i]].name # 0 => local[d[j]].name # 0
      BY <1>0, <2>3 DEF AttemptSaved
    <2>7. row.name # 0 => \A i \in DOMAIN d : local[d[i]].name # 0
      BY <1>0, <2>3 DEF AttemptSaved
    <2>8. /\ mem.name # 0 => Since(mem.state.synced, mem.title)
          /\ row.name # 0 => Since(row.state.synced, mem.title)
      BY <1>0 DEF AttemptSaved, Recent
    <2>9. \A b \in Actor :
             /\ \/ pc'[b] \in {"spawn", "generate", "name"}
                \/ local'[b].next = "spawn" /\ pc'[b] \in {"clone", "write"}
                => Since(mem.state.synced, mem.title)
             /\ local'[b].next = "spawn" /\ pc'[b] = "sync" =>
                   Since(local'[b].title, mem.title)
      BY <1>0, <2>1, OthersSaved
    <2> QED  BY <2>1, <2>2, <2>4, <2>5, <2>6, <2>7, <2>8, <2>9 DEF AttemptSaved, Recent, Owes
  <1>15. ASSUME Crash PROVE AttemptSaved'
    <2>1. Since(row.state.synced, row.state.synced)
      BY MemTyped, SinceSelf
    <2>2. /\ row' = row /\ mem'.title = row.state.synced /\ mem'.state = row.state
          /\ \A b \in Actor : pc'[b] = "idle"
          /\ cloned' = <<>>
      BY <1>15, CrashEffect
    <2> QED  BY <2>1, <2>2 DEF AttemptSaved, Recent, Owes
  <1>16. CASE UNCHANGED vars
    BY <1>0, <1>16, Unchanged DEF AttemptSaved, Recent, Owes
  <1> QED
    BY <1>1, <1>2, <1>3, <1>4, <1>5, <1>6, <1>7, <1>8, <1>9, <1>10, <1>11, <1>12, <1>13, <1>14,
       <1>15, <1>16, NextCases

(***************************************************************************)
(* What is saved.                                                          *)
(***************************************************************************)
LEMMA LastCloned ==
    ASSUME TypeInv, cloned # <<>>
    PROVE  Len(cloned) \in DOMAIN cloned /\ cloned[Len(cloned)] \in Actor
  <1> PICK c \in Seq(Actor) : c = cloned
    BY DEF TypeInv
  <1>1. Len(c) \in Nat \ {0} /\ DOMAIN c = 1 .. Len(c)
    BY EmptySeq, Domains
  <1> QED  BY <1>1, ElementOfSeq

LEMMA LatestKept ==
    ASSUME TypeInv, cloned' = cloned, row'.state = row.state,
           \A i \in DOMAIN cloned : local'[cloned[i]] = local[cloned[i]]
    PROVE  Latest' = Latest
  BY LastCloned DEF Latest

LEMMA StateKept ==
    ASSUME TypeInv, StateSaved, cloned' = cloned, row'.state = row.state,
           \A i \in DOMAIN cloned : local'[cloned[i]] = local[cloned[i]],
           mem'.state = mem.state,
           \A b \in Actor : pc[b] \in {"read", "sync", "clone"} =>
                               pc'[b] \in {"read", "sync", "clone"}
    PROVE  StateSaved'
  <1>1. Latest' = Latest
    BY LatestKept
  <1> QED  BY <1>1 DEF StateSaved, StateComing

LEMMA StateStep ==
    ASSUME TypeInv, WorkInv, CloneInv, StateSaved, [Next]_vars, ~overtaken', errors' = 0
    PROVE  StateSaved'
  <1>1. ASSUME NEW a \in Task, NEW f \in Field, Update(a, f) PROVE StateSaved'
    <2>1. /\ a \in Actor /\ pc[a] \notin Saving /\ Same(a)
          /\ row'.state = row.state /\ cloned' = cloned /\ mem'.state = mem.state
      BY <1>1, UpdateEffect DEF Saving, history
    <2>2. \A i \in DOMAIN cloned : local'[cloned[i]] = local[cloned[i]]
      BY <2>1, ClonesKept DEF Saving
    <2> QED  BY <2>1, <2>2, StateKept DEF Same, Saving
  <1>2. ASSUME NEW a \in Task, NEW n \in Length, AppendMessage(a, n) PROVE StateSaved'
    <2>1. /\ a \in Actor /\ pc[a] \notin Saving /\ Same(a)
          /\ row'.state = row.state /\ cloned' = cloned /\ mem'.state = mem.state
      BY <1>2, AppendMessageEffect DEF Saving, history
    <2>2. \A i \in DOMAIN cloned : local'[cloned[i]] = local[cloned[i]]
      BY <2>1, ClonesKept DEF Saving
    <2> QED  BY <2>1, <2>2, StateKept DEF Same, Saving
  <1>3. ASSUME NEW a \in Actor, Push(a) PROVE StateSaved'
    <2>1. /\ a \in Actor /\ pc[a] \notin Saving /\ Same(a)
          /\ row'.state = row.state /\ cloned' = cloned /\ mem'.state = mem.state
      BY <1>3, PushEffect DEF Saving, history
    <2>2. \A i \in DOMAIN cloned : local'[cloned[i]] = local[cloned[i]]
      BY <2>1, ClonesKept DEF Saving
    <2> QED  BY <2>1, <2>2, StateKept DEF Same, Saving
  <1>4. ASSUME NEW a \in Actor, Apply(a) PROVE StateSaved'
    BY <1>4, ApplyEffect DEF StateSaved, StateComing
  <1>5. ASSUME NEW a \in Actor, ReadTitle(a) PROVE StateSaved'
    BY <1>5, ReadTitleEffect DEF StateSaved, StateComing
  <1>6. ASSUME NEW a \in Actor, Sync(a) PROVE StateSaved'
    BY <1>6, SyncEffect DEF StateSaved, StateComing
  <1>7. ASSUME NEW a \in Actor, SaveMessage(a) PROVE StateSaved'
    BY <1>7, SaveMessageEffect DEF StateSaved, StateComing
  <1>8. ASSUME NEW a \in Actor, SetName(a) PROVE StateSaved'
    BY <1>8, SetNameEffect DEF StateSaved, StateComing
  <1>9. ASSUME NEW a \in Actor, Schedule(a) PROVE StateSaved'
    <2>1. CASE pc'[a] = "read"
      BY <1>9, <2>1 DEF StateSaved, StateComing
    <2>2. CASE pc'[a] # "read"
      <3>1. /\ pc[a] \notin Saving /\ Same(a)
            /\ row'.state = row.state /\ cloned' = cloned /\ mem'.state = mem.state
        BY <1>9, <2>2, ScheduleEffect DEF Saving, history
      <3>2. \A i \in DOMAIN cloned : local'[cloned[i]] = local[cloned[i]]
        BY <3>1, ClonesKept DEF Saving
      <3> QED  BY <3>1, <3>2, StateKept DEF Same, Saving
    <2> QED  BY <2>1, <2>2
  <1>10. ASSUME NEW a \in Actor, Generate(a) PROVE StateSaved'
    <2>1. CASE pc'[a] = "read"
      BY <1>10, <2>1 DEF StateSaved, StateComing
    <2>2. CASE pc'[a] # "read"
      <3>1. /\ pc[a] \notin Saving /\ Same(a)
            /\ row'.state = row.state /\ cloned' = cloned /\ mem'.state = mem.state
        BY <1>10, <2>2, GenerateEffect DEF Saving, history
      <3>2. \A i \in DOMAIN cloned : local'[cloned[i]] = local[cloned[i]]
        BY <3>1, ClonesKept DEF Saving
      <3> QED  BY <3>1, <3>2, StateKept DEF Same, Saving
    <2> QED  BY <2>1, <2>2
  <1>11. ASSUME NEW a \in Actor, Spawn(a) PROVE StateSaved'
    <2>1. PICK g \in Gens :
             /\ g \in Actor /\ pc[a] = "spawn" /\ pc[g] = "idle"
             /\ \A b \in Actor : b \notin {a, g} => pc'[b] = pc[b] /\ local'[b] = local[b]
             /\ UNCHANGED <<mem, row, cloned>>
      BY <1>11, SpawnEffect
    <2>2. \A i \in DOMAIN cloned : local'[cloned[i]] = local[cloned[i]]
      BY <2>1, ClonedActors DEF CloneInv
    <2> QED  BY <2>1, <2>2, StateKept
  <1>12. ASSUME NEW a \in Actor, Clone(a) PROVE StateSaved'
    BY <1>12, CloneEffect, ClonedGrows DEF StateSaved, Latest
  <1>13. ASSUME NEW a \in Actor, Write(a) PROVE StateSaved'
    <2>1. /\ pc[a] = "write" /\ Same(a) /\ mem' = mem
          /\ row'.state = local[a].snap /\ a \in ToSet(cloned)
      BY <1>13, WriteEffect
    <2>2. PICK d \in Seq(Actor) :
             /\ d = cloned' /\ Thins(cloned, d) /\ \A i \in DOMAIN d : d[i] # a
             /\ d # <<>> => cloned # <<>> /\ d[Len(d)] = cloned[Len(cloned)]
             /\ d = <<>> => cloned # <<>> /\ cloned[Len(cloned)] = a
      BY <1>13, <2>1, WriteEffect, YoungerIs DEF TypeInv, CloneInv
    <2>3. d # <<>> => d[Len(d)] \in Actor /\ d[Len(d)] # a
      <3> SUFFICES ASSUME d # <<>> PROVE d[Len(d)] \in Actor /\ d[Len(d)] # a
        OBVIOUS
      <3>1. Len(d) \in Nat \ {0} /\ DOMAIN d = 1 .. Len(d)
        BY EmptySeq, Domains
      <3>2. Len(d) \in DOMAIN d
        BY <3>1
      <3> QED  BY <2>2, <3>2, ClonedThinned
    <2>4. Latest' = Latest
      <3>1. CASE d = <<>>
        BY <2>1, <2>2, <3>1 DEF Latest
      <3>2. CASE d # <<>>
        BY <2>1, <2>2, <2>3, <3>2 DEF Latest, Same
      <3> QED  BY <3>1, <3>2
    <2> QED  BY <2>1, <2>4 DEF StateSaved, StateComing, Same
  <1>14. ASSUME NEW a \in Actor, StatementFails(a) PROVE StateSaved'
    BY <1>14, FailsEffect
  <1>15. ASSUME Crash PROVE StateSaved'
    BY <1>15, CrashEffect DEF StateSaved, Latest
  <1>16. CASE UNCHANGED vars
    BY <1>16, Unchanged DEF StateSaved, StateComing, Latest
  <1> QED
    BY <1>1, <1>2, <1>3, <1>4, <1>5, <1>6, <1>7, <1>8, <1>9, <1>10, <1>11, <1>12, <1>13, <1>14,
       <1>15, <1>16, NextCases

LEMMA TitleSavedStep ==
    ASSUME TypeInv, WorkInv, CopyInv, TitleSaved, [Next]_vars, ~overtaken', errors' = 0
    PROVE  TitleSaved'
  <1>1. ASSUME NEW a \in Task, NEW f \in Field, Update(a, f) PROVE TitleSaved'
    <2>1. /\ a \in Actor /\ pc[a] \notin {"read", "sync", "name"} /\ Same(a)
          /\ mem'.state = mem.state /\ mem'.title = mem.title
      BY <1>1, UpdateEffect
    <2> QED  BY <2>1 DEF TitleSaved, TitleComing, Same
  <1>2. ASSUME NEW a \in Task, NEW n \in Length, AppendMessage(a, n) PROVE TitleSaved'
    <2>1. /\ a \in Actor /\ pc[a] \notin {"read", "sync", "name"} /\ Same(a)
          /\ mem'.state = mem.state /\ mem'.title = mem.title
      BY <1>2, AppendMessageEffect
    <2> QED  BY <2>1 DEF TitleSaved, TitleComing, Same
  <1>3. ASSUME NEW a \in Actor, Push(a) PROVE TitleSaved'
    <2>1. /\ a \in Actor /\ pc[a] \notin {"read", "sync", "name"} /\ Same(a)
          /\ mem'.state = mem.state /\ mem'.title = mem.title
      BY <1>3, PushEffect
    <2> QED  BY <2>1 DEF TitleSaved, TitleComing, Same
  <1>4. ASSUME NEW a \in Actor, Clone(a) PROVE TitleSaved'
    <2>1. /\ a \in Actor /\ pc[a] \notin {"read", "sync", "name"} /\ Same(a)
          /\ mem'.state = mem.state /\ mem'.title = mem.title
      BY <1>4, CloneEffect
    <2> QED  BY <2>1 DEF TitleSaved, TitleComing, Same
  <1>5. ASSUME NEW a \in Actor, Write(a) PROVE TitleSaved'
    <2>1. /\ a \in Actor /\ pc[a] \notin {"read", "sync", "name"} /\ Same(a)
          /\ mem'.state = mem.state /\ mem'.title = mem.title
      BY <1>5, WriteEffect
    <2> QED  BY <2>1 DEF TitleSaved, TitleComing, Same
  <1>6. ASSUME NEW a \in Actor, Apply(a) PROVE TitleSaved'
    BY <1>6, ApplyEffect DEF TitleSaved, TitleComing
  <1>7. ASSUME NEW a \in Actor, SaveMessage(a) PROVE TitleSaved'
    BY <1>7, SaveMessageEffect DEF TitleSaved, TitleComing
  <1>8. ASSUME NEW a \in Actor, SetName(a) PROVE TitleSaved'
    BY <1>8, SetNameEffect DEF TitleSaved, TitleComing
  <1>9. ASSUME NEW a \in Actor, Generate(a) PROVE TitleSaved'
    BY <1>9, GenerateEffect DEF TitleSaved, TitleComing
  <1>10. ASSUME NEW a \in Actor, ReadTitle(a) PROVE TitleSaved'
    BY <1>10, ReadTitleEffect DEF TitleSaved, TitleComing
  <1>11. ASSUME NEW a \in Actor, Schedule(a) PROVE TitleSaved'
    <2>1. CASE pc'[a] = "read"
      BY <2>1 DEF TitleSaved, TitleComing
    <2>2. CASE pc'[a] # "read"
      <3>1. pc[a] = "schedule" /\ Same(a) /\ mem' = mem
        BY <1>11, <2>2, ScheduleEffect
      <3> QED  BY <3>1 DEF TitleSaved, TitleComing, Same
    <2> QED  BY <2>1, <2>2
  <1>12. ASSUME NEW a \in Actor, Spawn(a) PROVE TitleSaved'
    <2>1. PICK g \in Gens :
             /\ g \in Actor /\ pc[a] = "spawn" /\ pc[g] = "idle"
             /\ \A b \in Actor : b \notin {a, g} => pc'[b] = pc[b] /\ local'[b] = local[b]
             /\ UNCHANGED <<mem, row, cloned>>
      BY <1>12, SpawnEffect
    <2> QED  BY <2>1 DEF TitleSaved, TitleComing
  <1>13. ASSUME NEW a \in Actor, Sync(a) PROVE TitleSaved'
    <2>1. /\ pc[a] = "sync" /\ Same(a) /\ mem'.state.synced = local[a].title
          /\ mem'.title = mem.title
          /\ ~(Version(local[a].title) < Version(mem.state.synced))
      BY <1>13, SyncEffect
    <2>2. CASE local[a].title = mem.title
      BY <2>1, <2>2 DEF TitleSaved
    <2>3. CASE local[a].title # mem.title /\ mem.state.synced = mem.title
      <3>1. /\ NotAfter(local[a].title, mem.title)
            /\ Version(local[a].title) \in Nat /\ Version(mem.title) \in Nat
        BY <2>1, MemTyped, Versions DEF CopyInv, Behind
      <3> QED  BY <2>1, <2>3, <3>1 DEF NotAfter
    <2>4. CASE local[a].title # mem.title /\ TitleComing
      BY <2>1, <2>4 DEF TitleSaved, TitleComing, Same
    <2> QED  BY <2>2, <2>3, <2>4 DEF TitleSaved
  <1>14. ASSUME NEW a \in Actor, StatementFails(a) PROVE TitleSaved'
    BY <1>14, FailsEffect
  <1>15. ASSUME Crash PROVE TitleSaved'
    BY <1>15, CrashEffect DEF TitleSaved
  <1>16. CASE UNCHANGED vars
    BY <1>16, Unchanged DEF TitleSaved, TitleComing
  <1> QED
    BY <1>1, <1>2, <1>3, <1>4, <1>5, <1>6, <1>7, <1>8, <1>9, <1>10, <1>11, <1>12, <1>13, <1>14,
       <1>15, <1>16, NextCases

LEMMA NameSavedStep ==
    ASSUME TypeInv, WorkInv, CloneInv, NameInv, NameSaved, [Next]_vars, ~overtaken', errors' = 0
    PROVE  NameSaved'
  <1>1. ASSUME NEW a \in Task, NEW f \in Field, Update(a, f) PROVE NameSaved'
    <2>1. /\ a \in Actor /\ pc[a] \notin Saving /\ Same(a)
          /\ mem'.name = mem.name /\ row' = row
      BY <1>1, UpdateEffect DEF Saving
    <2> QED  BY <2>1 DEF NameSaved, NameComing, Same, Saving
  <1>2. ASSUME NEW a \in Task, NEW n \in Length, AppendMessage(a, n) PROVE NameSaved'
    <2>1. /\ a \in Actor /\ pc[a] \notin Saving /\ Same(a)
          /\ mem'.name = mem.name /\ row' = row
      BY <1>2, AppendMessageEffect DEF Saving
    <2> QED  BY <2>1 DEF NameSaved, NameComing, Same, Saving
  <1>3. ASSUME NEW a \in Actor, Push(a) PROVE NameSaved'
    <2>1. /\ a \in Actor /\ pc[a] \notin Saving /\ Same(a)
          /\ mem'.name = mem.name /\ row' = row
      BY <1>3, PushEffect DEF Saving
    <2> QED  BY <2>1 DEF NameSaved, NameComing, Same, Saving
  <1>4. ASSUME NEW a \in Actor, Apply(a) PROVE NameSaved'
    <2>1. /\ a \in Actor /\ pc[a] \notin Saving /\ Same(a)
          /\ mem'.name = mem.name /\ row' = row
      BY <1>4, ApplyEffect DEF Saving
    <2> QED  BY <2>1 DEF NameSaved, NameComing, Same, Saving
  <1>5. ASSUME NEW a \in Actor, Schedule(a) PROVE NameSaved'
    <2>1. /\ a \in Actor /\ pc[a] \notin Saving /\ Same(a)
          /\ mem'.name = mem.name /\ row' = row
      BY <1>5, ScheduleEffect DEF Saving
    <2> QED  BY <2>1 DEF NameSaved, NameComing, Same, Saving
  <1>6. ASSUME NEW a \in Actor, ReadTitle(a) PROVE NameSaved'
    <2>1. /\ pc'[a] \in {"sync", "clone"} /\ local'[a].saves = local[a].saves /\ Same(a)
          /\ mem'.name = mem.name /\ row' = row /\ pc[a] # "write"
      BY <1>6, ReadTitleEffect DEF Keeps
    <2> QED  BY <2>1 DEF NameSaved, NameComing, Same
  <1>7. ASSUME NEW a \in Actor, Sync(a) PROVE NameSaved'
    <2>1. /\ pc'[a] \in {"sync", "clone"} /\ local'[a].saves = local[a].saves /\ Same(a)
          /\ mem'.name = mem.name /\ row' = row /\ pc[a] # "write"
      BY <1>7, SyncEffect DEF Keeps
    <2> QED  BY <2>1 DEF NameSaved, NameComing, Same
  <1>8. ASSUME NEW a \in Actor, SaveMessage(a) PROVE NameSaved'
    BY <1>8, SaveMessageEffect DEF NameSaved, NameComing
  <1>9. ASSUME NEW a \in Actor, SetName(a) PROVE NameSaved'
    BY <1>9, SetNameEffect DEF NameSaved, NameComing
  <1>10. ASSUME NEW a \in Actor, Generate(a) PROVE NameSaved'
    <2>1. CASE pc'[a] = "read"
      BY <1>10, <2>1, GenerateEffect DEF NameSaved, NameComing
    <2>2. CASE pc'[a] # "read"
      <3>1. pc[a] = "generate" /\ Same(a) /\ mem'.name = mem.name /\ row' = row
        BY <1>10, <2>2, GenerateEffect
      <3> QED  BY <3>1 DEF NameSaved, NameComing, Same
    <2> QED  BY <2>1, <2>2
  <1>11. ASSUME NEW a \in Actor, Clone(a) PROVE NameSaved'
    <2>1. /\ pc'[a] = "write" /\ local'[a].saves = local[a].saves /\ Same(a)
          /\ local'[a].name = mem.name /\ mem' = mem /\ row' = row
      BY <1>11, CloneEffect DEF Keeps
    <2> QED  BY <2>1 DEF NameSaved, NameComing, Same
  <1>12. ASSUME NEW a \in Actor, Spawn(a) PROVE NameSaved'
    <2>1. PICK g \in Gens :
             /\ g \in Actor /\ pc[a] = "spawn" /\ pc[g] = "idle"
             /\ \A b \in Actor : b \notin {a, g} => pc'[b] = pc[b] /\ local'[b] = local[b]
             /\ UNCHANGED <<mem, row, cloned>>
      BY <1>12, SpawnEffect
    <2> QED  BY <2>1 DEF NameSaved, NameComing
  <1>13. ASSUME NEW a \in Actor, Write(a) PROVE NameSaved'
    <2>1. /\ pc[a] = "write" /\ Same(a) /\ mem' = mem /\ ~overtaken
          /\ row'.name = IF local[a].saves THEN local[a].name ELSE row.name
          /\ a \in ToSet(cloned)
      BY <1>13, WriteEffect
    <2>2. CASE ~local[a].saves
      BY <2>1, <2>2 DEF NameSaved, NameComing, Same
    <2>3. CASE local[a].saves /\ local[a].name = mem.name
      BY <2>1, <2>3 DEF NameSaved
    <2>4. CASE local[a].saves /\ local[a].name # mem.name
      <3>1. local[a].name = 0 /\ mem.name # 0
        BY <2>1, <2>4 DEF NameInv, Live, NameOnce
      <3>2. row.name = 0
        BY <2>1, <3>1, ClonedActors DEF NameInv, AttemptSaved
      <3>3. NameComing
        BY <3>1, <3>2 DEF NameSaved
      <3> QED  BY <2>1, <2>4, <3>3 DEF NameSaved, NameComing, Same
    <2> QED  BY <2>2, <2>3, <2>4
  <1>14. ASSUME NEW a \in Actor, StatementFails(a) PROVE NameSaved'
    BY <1>14, FailsEffect
  <1>15. ASSUME Crash PROVE NameSaved'
    BY <1>15, CrashEffect DEF NameSaved
  <1>16. CASE UNCHANGED vars
    BY <1>16, Unchanged DEF NameSaved, NameComing
  <1> QED
    BY <1>1, <1>2, <1>3, <1>4, <1>5, <1>6, <1>7, <1>8, <1>9, <1>10, <1>11, <1>12, <1>13, <1>14,
       <1>15, <1>16, NextCases

LEMMA SaveStep ==
    ASSUME TypeInv, WorkInv, CopyInv, CloneInv, NameInv, SaveInv, [Next]_vars
    PROVE  SaveInv'
  <1> SUFFICES ASSUME errors' = 0, ~overtaken'
               PROVE  (StateSaved /\ TitleSaved /\ NameSaved)'
    BY DEF SaveInv
  <1>1. errors = 0
    <2>1. ASSUME NEW a \in Actor, Spawn(a) PROVE errors' = errors
      BY <2>1, SpawnEffect
    <2>2. errors' = errors \/ errors' # 0
      BY <2>1, NextCases, UpdateEffect, AppendMessageEffect, ApplyEffect, ReadTitleEffect,
         SyncEffect, CloneEffect, WriteEffect, PushEffect, SaveMessageEffect, ScheduleEffect,
         GenerateEffect, SetNameEffect, FailsEffect, CrashEffect, Unchanged
    <2> QED  BY <2>2
  <1>2. ~overtaken
    BY LiveBack
  <1>3. StateSaved /\ TitleSaved /\ NameSaved
    BY <1>1, <1>2 DEF SaveInv
  <1> QED  BY <1>3, StateStep, TitleSavedStep, NameSavedStep

(***************************************************************************)
(* The invariant.                                                          *)
(***************************************************************************)
LEMMA SavedInit == Init => SavedInv
  <1> SUFFICES ASSUME Init PROVE SavedInv
    OBVIOUS
  <1>1. NoTitle \in Title /\ NoTitle.attempts = 0 /\ MaxAttempts \in Nat /\ MaxCrashes \in Nat
    BY SessionControlAssumption DEF NoTitle, Title, Source, Status
  <1>2. Blank \in State /\ Blank.synced = NoTitle
    BY <1>1 DEF Blank, State, Control
  <1>3. /\ mem \in Object /\ row \in Row /\ row.state = Blank /\ row.name = 0
        /\ mem.state = Blank /\ mem.title = NoTitle /\ mem.name = 0
    BY <1>1, <1>2 DEF Init, Load, Fresh, Object, Row, Name
  <1>4. /\ pc \in [Actor -> Label] /\ local \in [Actor -> Local]
        /\ \A a \in Actor : pc[a] = "idle" /\ local[a] = NoLocal
    BY NoLocalTyped DEF Init, Label
  <1>5. /\ calls \in 0 .. MaxCalls /\ started = 0 /\ cloned = <<>> /\ overtaken = FALSE
        /\ acked \in [Field -> {0} \cup Call] /\ \A f \in Field : acked[f] = 0
        /\ errors = 0 /\ crashes = 0
    BY SessionControlAssumption DEF Init
  <1>6. TypeInv
    <2>1. \A a \in Actor : LocalFits(a)
      BY <1>4, NoLocalTyped DEF LocalFits
    <2>2. cloned \in Seq(Actor) /\ crashes \in 0 .. MaxCrashes
      BY <1>1, <1>5, EmptySeq
    <2> QED  BY <1>3, <1>4, <1>5, <2>1, <2>2 DEF TypeInv
  <1>7. WorkInv
    <2>1. \A a \in Actor : ~Worker(a) /\ ~Owes(a) /\ pc[a] # "name"
      BY <1>4, NoLocalTyped DEF Worker, Owes
    <2>2. started <= crashes * MaxAttempts + mem.title.attempts
      BY <1>1, <1>3, <1>5
    <2> QED  BY <2>1, <2>2 DEF WorkInv
  <1>8. CopyInv /\ CloneInv
    BY <1>1, <1>2, <1>3, <1>4, <1>5, NotAfterSelf DEF CopyInv, Behind, CloneInv
  <1>9. NameInv
    BY <1>3, <1>4, <1>5, NoLocalTyped DEF NameInv, NameOnce, AttemptSaved, Owes
  <1>10. SaveInv
    BY <1>2, <1>3, <1>5 DEF SaveInv, StateSaved, TitleSaved, NameSaved, Latest
  <1>11. CountInv
    BY <1>4, <1>5 DEF CountInv, CountsKept, Counted, Saving, Field
  <1> QED  BY <1>6, <1>7, <1>8, <1>9, <1>10, <1>11 DEF SavedInv

LEMMA SavedNext == SavedInv /\ [Next]_vars => SavedInv'
  <1> SUFFICES ASSUME SavedInv, [Next]_vars PROVE SavedInv'
    OBVIOUS
  <1>1. TypeInv /\ WorkInv /\ CopyInv /\ CloneInv /\ NameInv /\ SaveInv /\ CountInv
    BY DEF SavedInv
  <1>2. TypeInv' /\ WorkInv' /\ CopyInv' /\ CloneInv'
    BY <1>1, TypeStep, WorkStep, CopyStep, CloneStep
  <1>3. NameInv'
    BY <1>1, NameStep, SavedStep DEF NameInv
  <1>4. SaveInv' /\ CountInv'
    BY <1>1, SaveStep, CountStep
  <1> QED  BY <1>2, <1>3, <1>4 DEF SavedInv

THEOREM SavedAlways == Spec => []SavedInv
  <1> QED  BY SavedInit, SavedNext, PTL DEF Spec

LEMMA TypesFit ==
    ASSUME TypeInv, WorkInv
    PROVE  TypeOK
  <1>1. started \in 0 .. Cardinality(Gen)
    <2>1. MaxAttempts \in Nat /\ 1 + MaxCrashes \in Nat
      BY SessionControlAssumption
    <2> PICK n \in Nat : n = MaxAttempts * (1 + MaxCrashes)
      BY <2>1, Times
    <2>2. Cardinality(Gen) = n
      BY FS_Interval DEF Gen
    <2>3. started \in Nat /\ started <= n
      BY GenRoom DEF TypeInv
    <2> QED  BY <2>2, <2>3
  <1> QED  BY <1>1, MemTyped DEF TypeInv, TypeOK

(* What is stored is what the object holds, whatever calls, saves and title *)
(* requests interleave, and no acknowledged count is lost.                 *)
THEOREM SavesKeepTheRow == Spec => []RowKept
  <1>1. SavedInv => RowKept
    <2> SUFFICES ASSUME SavedInv PROVE RowKept
      OBVIOUS
    <2>1. TypeOK /\ CountsKept
      BY TypesFit DEF SavedInv, CountInv
    <2>2. RowAgrees
      <3> SUFFICES ASSUME Quiet, ~overtaken, errors = 0
                   PROVE  row.state = Synced(mem.state, mem.title) /\ row.name = mem.name
        BY DEF RowAgrees
      <3>1. StateSaved /\ TitleSaved /\ NameSaved
        BY DEF SavedInv, SaveInv
      <3>2. ~StateComing /\ ~TitleComing /\ ~NameComing
        BY DEF StateComing, TitleComing, NameComing, Quiet
      <3>3. cloned = <<>>
        BY LastCloned DEF SavedInv, CloneInv, Quiet
      <3>4. row.state = mem.state /\ mem.state.synced = mem.title /\ row.name = mem.name
        BY <3>1, <3>2, <3>3 DEF StateSaved, TitleSaved, NameSaved, Latest
      <3>5. mem.state \in State
        BY MemTyped DEF SavedInv
      <3>6. Synced(mem.state, mem.title) = mem.state
        BY <3>4, <3>5 DEF Synced, State
      <3> QED  BY <3>4, <3>6
    <2> QED  BY <2>1, <2>2 DEF RowKept
  <1> QED  BY <1>1, SavedAlways, PTL

(* A session that was named by a generation keeps its name: no later one    *)
(* renames it in the process, nor after a restart if no save was overtaken. *)
THEOREM NamesAreKept == Spec => NamedOnce
  <1>1. ASSUME SavedInv, [Next]_vars, crashes' = crashes, mem.name # 0,
               overtaken => crashes = 0
        PROVE  mem'.name = mem.name
    <2>1. TypeInv /\ WorkInv /\ NameOnce
      BY <1>1 DEF SavedInv, NameInv, Live
    <2>2. \A a \in Actor : ~SetName(a)
      BY <1>1, <2>1 DEF NameOnce, SetName
    <2>3. ~Crash
      BY <1>1, <2>1, CrashEffect
    <2>4. ASSUME NEW a \in Actor, Spawn(a) PROVE mem'.name = mem.name
      BY <2>1, <2>4, SpawnEffect
    <2> QED
      BY <1>1, <2>1, <2>2, <2>3, <2>4, NextCases, UpdateEffect, AppendMessageEffect,
         ApplyEffect, ReadTitleEffect, SyncEffect, CloneEffect, WriteEffect, PushEffect,
         SaveMessageEffect, ScheduleEffect, GenerateEffect, FailsEffect, Unchanged
  <1>2. SavedInv /\ [Next]_vars =>
           [crashes' = crashes /\ mem.name # 0 /\ (overtaken => crashes = 0) =>
               mem'.name = mem.name]_vars
    BY <1>1
  <1> QED  BY <1>2, SavedAlways, PTL DEF Spec, NamedOnce
=============================================================================
