------------------------- MODULE SessionTreeProofs -------------------------
(***************************************************************************)
(* Proofs about SessionTree: sessions that sub-agents make, clients delete  *)
(* and restarts forget stay one tree, in the rows and in the objects.       *)
(***************************************************************************)
EXTENDS SessionTree, Recursion, FiniteSetTheorems

TaskLabel   == {"idle", "resolveRoot", "resolveChain", "saveRow", "insert", "pushChild",
                "run", "saveMessage", "persist"}
ClientLabel == {"idle", "collect", "deleteRows", "evict", "visit", "failed"}
HasChild    == {"insert", "pushChild", "run", "saveMessage", "persist"}
DeleteLabel == {"collect", "deleteRows", "evict"}

Sess(t)   == local[t].session
Child(t)  == local[t].child
Caller(t) == local[t].caller
Found(c)  == ToSet(local[c].found)

(***************************************************************************)
(* Types.                                                                  *)
(***************************************************************************)
Locals ==
    [caller : Task \cup {Turn}, session : Id \cup {NoId}, child : Id \cup {NoId},
     chain : Seq(Id), found : Seq(Id), stack : Seq(Id) \cup Seq(Id \X Nat),
     before : {<<>>} \cup (Nat \X SUBSET Id)]

(* A parent is made before its child.                                       *)
Older(p, m) == \A i \in Id : p[i] = NoId \/ (p[i] \in 0 .. i - 1 /\ i < m)

TreeTyped ==
    /\ made \in Start .. MaxSessions
    /\ parent \in [Id -> Id \cup {NoId}] /\ Older(parent, made)
    /\ chain \in [Id -> Seq(Id) \cup {NoChain}]
    /\ rows \in SUBSET (0 .. made - 1)
MemTyped ==
    /\ cached \in SUBSET (0 .. made - 1)
    /\ kids \in [Id -> Seq(Id)] /\ \A i \in Id : IsInjective(kids[i])
CountTyped ==
    deletes \in 0 .. MaxDeletes /\ reads \in 0 .. MaxReads /\ crashes \in 0 .. MaxCrashes
ClientTyped(c) ==
    /\ pc[c] \in ClientLabel
    /\ pc[c] = "collect" => local[c].stack \in Seq(Id)
    /\ pc[c] = "visit" => local[c].stack \in Seq(Id \X Nat)
    /\ pc[c] \in DeleteLabel => local[c].found # <<>> /\ Found(c) \subseteq 0 .. made - 1
TaskTyped(t) ==
    /\ pc[t] \in TaskLabel
    /\ pc[t] # "idle" => Sess(t) \in 0 .. made - 1
    /\ pc[t] \in HasChild => Child(t) \in Start .. made - 1 /\ parent[Child(t)] = Sess(t)
    /\ pc[t] \notin HasChild => Child(t) = NoId
ActorsTyped ==
    /\ pc \in [Actor -> TaskLabel \cup ClientLabel] /\ local \in [Actor -> Locals]
    /\ \A a \in Actor : pc[a] = "idle" => local[a] = NoLocal
    /\ \A t \in Task : TaskTyped(t)
    /\ \A c \in Client : ClientTyped(c)
TypeInv == TreeTyped /\ MemTyped /\ CountTyped /\ ActorsTyped

LEMMA Bounds ==
    /\ Start \in Nat /\ Start >= 1 /\ MaxSessions \in Nat /\ Start <= MaxSessions
    /\ NoId \notin Id /\ NoId \in Nat /\ Depth \in Nat
    /\ \A i : i \in Id <=> i \in Nat /\ i < MaxSessions
    /\ \A m \in Start .. MaxSessions : 0 .. m - 1 \subseteq Id /\ m \in Nat
    /\ \A m \in Start .. MaxSessions : m < MaxSessions => m \in Id
    /\ Actor = Task \cup Client /\ Task \cap Client = {}
BY SessionTreeAssumption DEF Id, NoId, Actor

(***************************************************************************)
(* The children of a session, in order.                                    *)
(***************************************************************************)
Lists(s, C) == ToSet(s) = C /\ \A m, n \in DOMAIN s : m < n => s[m] < s[n]

LEMMA Listable ==
    ASSUME NEW n \in Nat, NEW C \in SUBSET (0 .. n - 1)
    PROVE  \E s \in [1 .. Cardinality(C) -> C] : Lists(s, C)
<1> DEFINE Fine(D) == IsFiniteSet(D) /\ \E s \in [1 .. Cardinality(D) -> D] : Lists(s, D)
           S == {m \in Nat : \A D \in SUBSET (0 .. m - 1) : Fine(D)}
<1>1. 0 \in S
  <2>1. IsFiniteSet({}) /\ Cardinality({}) = 0
    BY FS_EmptySet
  <2> DEFINE e == [i \in 1 .. 0 |-> i]
  <2>2. e \in [1 .. Cardinality({}) -> {}] /\ Lists(e, {})
    BY <2>1 DEF Lists, ToSet
  <2>3. \A D \in SUBSET (0 .. 0 - 1) : D = {}
    OBVIOUS
  <2> HIDE DEF e
  <2>4. QED
    BY <2>1, <2>2, <2>3
<1>2. ASSUME NEW m \in S PROVE m + 1 \in S
  <2> m \in Nat
    OBVIOUS
  <2> SUFFICES ASSUME NEW D \in SUBSET (0 .. m) PROVE Fine(D)
    <3>1. (m + 1) - 1 = m /\ m + 1 \in Nat
      OBVIOUS
    <3>2. QED
      BY <3>1
  <2> DEFINE E == D \ {m}
  <2>1. E \in SUBSET (0 .. m - 1) /\ Fine(E)
    <3>1. \A D2 \in SUBSET (0 .. m - 1) : Fine(D2)
      BY DEF S
    <3>2. E \in SUBSET (0 .. m - 1)
      OBVIOUS
    <3> HIDE DEF E, Fine
    <3>3. QED
      BY <3>1, <3>2
  <2>2. CASE m \notin D
    BY <2>1, <2>2
  <2>3. CASE m \in D
    <3>1. PICK s \in [1 .. Cardinality(E) -> E] : Lists(s, E)
      BY <2>1
    <3> DEFINE k == Cardinality(E)
               r == [i \in 1 .. k + 1 |-> IF i = k + 1 THEN m ELSE s[i]]
    <3>2. IsFiniteSet(D) /\ Cardinality(D) = k + 1 /\ k \in Nat
      <4>1. D = E \cup {m} /\ m \notin E
        BY <2>3
      <4> HIDE DEF E
      <4>2. QED
        BY <2>1, <4>1, FS_AddElement, FS_CardinalityType
    <3> HIDE DEF k
    <3>0. D = E \cup {m} /\ \A x \in E : x \in Nat /\ x < m
      BY <2>3
    <3> HIDE DEF E
    <3>3. s \in [1 .. k -> E]
      BY <3>1 DEF k
    <3>4. r \in [1 .. k + 1 -> D]
      <4>1. \A j \in 1 .. k + 1 : j # k + 1 => j \in 1 .. k
        BY <3>2
      <4>2. \A j \in 1 .. k : s[j] \in D
        BY <3>0, <3>3
      <4>3. QED
        BY <2>3, <4>1, <4>2
    <3>5. ToSet(r) = D
      <4>1. ToSet(s) = {s[i] : i \in 1 .. k} /\ ToSet(s) = E
        BY <3>1, <3>3 DEF ToSet, Lists
      <4>2. r[k + 1] = m /\ \A i \in 1 .. k : r[i] = s[i] /\ i \in 1 .. k + 1
        BY <3>2
      <4>3. ToSet(r) = {r[i] : i \in 1 .. k + 1} /\ k + 1 \in 1 .. k + 1
        BY <3>2 DEF ToSet
      <4>4. \A i \in 1 .. k + 1 : i = k + 1 \/ i \in 1 .. k
        BY <3>2
      <4> HIDE DEF r
      <4>5. QED
        BY <3>0, <4>1, <4>2, <4>3, <4>4
    <3>6. \A i, j \in 1 .. k + 1 : i < j => r[i] < r[j]
      <4>1. TAKE i, j \in 1 .. k + 1
      <4>2. HAVE i < j
      <4>3. i \in 1 .. k /\ r[i] = s[i] /\ s[i] \in E
        <5>1. i # k + 1 /\ i \in 1 .. k
          BY <3>2, <4>2
        <5>2. QED
          BY <3>3, <5>1
      <4>4. CASE j = k + 1
        <5>1. r[j] = m /\ s[i] < m
          BY <3>0, <4>3, <4>4
        <5>2. QED
          BY <4>3, <5>1
      <4>5. CASE j # k + 1
        <5>1. j \in 1 .. k /\ r[j] = s[j] /\ DOMAIN s = 1 .. k
          BY <3>2, <3>3, <4>5
        <5>2. s[i] < s[j]
          BY <3>1, <4>2, <4>3, <5>1 DEF Lists
        <5>3. QED
          BY <4>3, <5>1, <5>2
      <4>6. QED
        BY <4>4, <4>5
    <3>7. Lists(r, D)
      <4>1. DOMAIN r = 1 .. k + 1
        OBVIOUS
      <4> HIDE DEF r
      <4>2. QED
        BY <3>5, <3>6, <4>1 DEF Lists
    <3> HIDE DEF r
    <3>8. QED
      BY <3>2, <3>4, <3>7
  <2>4. QED
    BY <2>2, <2>3
<1> HIDE DEF Fine
<1>3. S = Nat
  <2>1. S \in SUBSET Nat
    OBVIOUS
  <2> HIDE DEF S
  <2>2. QED
    BY <1>1, <1>2, <2>1, SetInduction
<1>4. Fine(C)
  BY <1>3
<1>5. QED
  BY <1>4 DEF Fine

LEMMA ChildRowsList ==
    ASSUME TreeTyped, NEW i
    PROVE  /\ ChildRows(i) \in Seq(Id) /\ IsInjective(ChildRows(i))
           /\ ToSet(ChildRows(i)) = Children(i)
           /\ ChildRows(i) = <<>> <=> Children(i) = {}
<1> DEFINE C == Children(i)
           s == ChildRows(i)
<1>1. C \in SUBSET (0 .. made - 1) /\ made \in Nat /\ C \subseteq Id
  BY Bounds DEF TreeTyped, Children
<1>2. \E r \in [1 .. Cardinality(C) -> C] : Lists(r, C)
  BY <1>1, Listable
<1>3. s \in [1 .. Cardinality(C) -> C] /\ Lists(s, C)
  BY <1>2 DEF Lists, ChildRows
<1>4. Cardinality(C) \in Nat
  <2>1. IsFiniteSet(0 .. made - 1)
    BY <1>1, FS_Interval
  <2>2. QED
    BY <1>1, <2>1, FS_Subset, FS_CardinalityType
<1> HIDE DEF C, s
<1>5. s \in Seq(Id) /\ DOMAIN s = 1 .. Cardinality(C) /\ Len(s) = Cardinality(C)
  <2>1. PICK k \in Nat : k = Cardinality(C)
    BY <1>4
  <2>2. s \in [1 .. k -> Id]
    BY <1>1, <1>3, <2>1
  <2>3. s \in Seq(Id) /\ Len(s) = k /\ DOMAIN s = 1 .. k
    BY <2>2
  <2>4. QED
    BY <2>1, <2>3
<1>6. IsInjective(s)
  <2>1. \A m \in DOMAIN s : s[m] \in Nat
    <3>1. ASSUME NEW m \in DOMAIN s PROVE s[m] \in C
      BY <1>3, <1>5
    <3>2. \A x \in C : x \in Nat
      BY <1>1
    <3>3. QED
      BY <3>1, <3>2
  <2>2. \A m, n \in DOMAIN s : m < n \/ n < m \/ m = n
    BY <1>4, <1>5
  <2>3. \A m, n \in DOMAIN s : m < n => s[m] # s[n]
    BY <1>3, <2>1 DEF Lists
  <2>4. QED
    BY <2>2, <2>3 DEF IsInjective
<1>7. s = <<>> <=> C = {}
  <2>1. CASE Cardinality(C) = 0
    <3>1. s = <<>> /\ DOMAIN s = {}
      BY <1>5, <2>1, EmptySeq
    <3>2. C = {s[m] : m \in DOMAIN s}
      BY <1>3 DEF Lists, ToSet
    <3>3. QED
      BY <3>1, <3>2
  <2>2. CASE Cardinality(C) # 0
    <3>1. 1 \in DOMAIN s /\ s # <<>>
      BY <1>4, <1>5, <2>2
    <3>2. s[1] \in C
      BY <1>3, <3>1 DEF Lists, ToSet
    <3>3. QED
      BY <3>1, <3>2
  <2>3. QED
    BY <2>1, <2>2
<1>8. QED
  BY <1>3, <1>5, <1>6, <1>7 DEF C, s, Lists

(***************************************************************************)
(* The ancestors along the parents.                                        *)
(***************************************************************************)
Ids == Id \cup {NoId}
WalkOf(p) ==
    LET w[i \in Ids] == IF i = NoId THEN <<>> ELSE Append(w[p[i]], i) IN w
Walks(p, w, n) == w[NoId] = <<>> /\ \A i \in Id : i < n => w[i] = Append(w[p[i]], i)

LEMMA OlderBelow ==
    ASSUME NEW m, NEW p \in [Id -> Ids], Older(p, m), NEW i \in Id
    PROVE  /\ p[i] \in Ids /\ p[i] # i
           /\ p[i] = NoId \/ (p[i] \in Id /\ p[i] < i /\ i < m)
<1>1. i \in Nat /\ i < MaxSessions /\ MaxSessions \in Nat /\ i # NoId
  BY Bounds
<1>2. p[i] = NoId \/ (p[i] \in 0 .. i - 1 /\ i < m)
  BY DEF Older
<1>3. p[i] = NoId \/ (p[i] \in Nat /\ p[i] < i /\ p[i] < MaxSessions)
  BY <1>1, <1>2
<1>4. p[i] \in Nat /\ p[i] < MaxSessions => p[i] \in Id
  BY Bounds
<1>5. QED
  BY <1>1, <1>2, <1>3, <1>4 DEF Ids

LEMMA WalkIs == Walk = WalkOf(parent)
BY DEF Walk, WalkOf, Ids

LEMMA WalkExists ==
    ASSUME NEW m, NEW p \in [Id -> Ids], Older(p, m)
    PROVE  \E w \in [Ids -> Seq(Id)] : Walks(p, w, MaxSessions)
<1> DEFINE S == {n \in Nat : \E w \in [Ids -> Seq(Id)] : Walks(p, w, n)}
<1>1. 0 \in S
  <2> DEFINE e == [i \in Ids |-> <<>>]
  <2>1. e \in [Ids -> Seq(Id)] /\ Walks(p, e, 0)
    <3>1. <<>> \in Seq(Id)
      OBVIOUS
    <3>2. \A i \in Id : ~(i < 0)
      BY Bounds
    <3>3. QED
      BY <3>1, <3>2 DEF Walks, Ids
  <2>2. QED
    BY <2>1
<1>2. ASSUME NEW n \in S PROVE n + 1 \in S
  <2>1. PICK w \in [Ids -> Seq(Id)] : Walks(p, w, n)
    OBVIOUS
  <2>2. n \in Nat /\ n + 1 \in Nat
    OBVIOUS
  <2>3. CASE n \notin Id
    <3>1. \A i \in Id : i < n + 1 => i < n
      BY <2>2, <2>3, Bounds
    <3>2. Walks(p, w, n + 1)
      BY <2>1, <3>1 DEF Walks
    <3>3. QED
      BY <2>2, <3>2
  <2>4. CASE n \in Id
    <3> DEFINE a == Append(w[p[n]], n)
               v == [w EXCEPT ![n] = a]
    <3>1. a \in Seq(Id)
      <4>1. w[p[n]] \in Seq(Id)
        BY <2>4 DEF Ids
      <4>2. QED
        BY <2>4, <4>1
    <3>2. v \in [Ids -> Seq(Id)] /\ v[n] = a /\ \A i \in Ids : i # n => v[i] = w[i]
      BY <2>4, <3>1 DEF Ids
    <3>3. \A i \in Id : i <= n => p[i] \in Ids /\ p[i] # n
      <4>1. TAKE i \in Id
      <4>2. HAVE i <= n
      <4>3. i \in Nat /\ (p[i] \in Id => p[i] \in Nat) /\ NoId \notin Id
        BY Bounds
      <4>4. /\ p[i] \in Ids
            /\ p[i] = NoId \/ (p[i] \in Id /\ p[i] < i)
        BY OlderBelow
      <4>5. CASE p[i] = NoId
        BY <2>4, <4>3, <4>4, <4>5
      <4>6. CASE p[i] \in Id /\ p[i] < i
        <5>1. p[i] < n
          BY <2>2, <4>2, <4>3, <4>6
        <5>2. QED
          BY <2>2, <4>3, <4>4, <4>6, <5>1
      <4>7. QED
        BY <4>4, <4>5, <4>6
    <3>4. NoId # n /\ NoId \in Ids /\ v[NoId] = <<>>
      BY <2>1, <2>4, <3>2, Bounds DEF Ids, Walks
    <3>5. ASSUME NEW i \in Id, i < n + 1 PROVE v[i] = Append(v[p[i]], i)
      <4>1. i <= n /\ v[p[i]] = w[p[i]] /\ i \in Ids
        BY <2>2, <3>2, <3>3, <3>5, Bounds DEF Ids
      <4>2. CASE i = n
        BY <3>2, <4>1, <4>2
      <4>3. CASE i # n
        <5>1. i < n /\ v[i] = w[i]
          BY <2>2, <3>2, <4>1, <4>3, Bounds
        <5>2. QED
          BY <2>1, <4>1, <5>1 DEF Walks
      <4>4. QED
        BY <4>2, <4>3
    <3> HIDE DEF v
    <3>6. Walks(p, v, n + 1)
      BY <3>4, <3>5 DEF Walks
    <3>7. QED
      BY <2>2, <3>2, <3>6
  <2>5. QED
    BY <2>3, <2>4
<1>3. S = Nat
  <2>1. S \in SUBSET Nat
    OBVIOUS
  <2> HIDE DEF S
  <2>2. QED
    BY <1>1, <1>2, <2>1, SetInduction
<1>4. MaxSessions \in S
  BY <1>3, Bounds
<1>5. QED
  BY <1>4

LEMMA WalkUnfolds ==
    ASSUME NEW m, NEW p \in [Id -> Ids], Older(p, m)
    PROVE  /\ WalkOf(p)[NoId] = <<>>
           /\ \A i \in Id : WalkOf(p)[i] = Append(WalkOf(p)[p[i]], i)
           /\ \A i \in Ids : WalkOf(p)[i] \in Seq(Id)
<1> DEFINE Is(w) == w = [i \in Ids |-> IF i = NoId THEN <<>> ELSE Append(w[p[i]], i)]
           W == CHOOSE w : Is(w)
<1>1. PICK w \in [Ids -> Seq(Id)] : Walks(p, w, MaxSessions)
  BY WalkExists
<1>2. \A i \in Id : i < MaxSessions /\ i # NoId
  BY Bounds
<1>3. Is(w)
  <2> DEFINE v == [i \in Ids |-> IF i = NoId THEN <<>> ELSE Append(w[p[i]], i)]
  <2>1. ASSUME NEW i \in Ids PROVE w[i] = v[i]
    BY <1>1, <1>2 DEF Walks, Ids
  <2>2. w = v
    <3>1. DOMAIN w = Ids /\ DOMAIN v = Ids
      OBVIOUS
    <3> HIDE DEF v
    <3>2. v = [i \in Ids |-> v[i]] /\ w = [i \in Ids |-> w[i]]
      BY DEF v
    <3>3. QED
      BY <2>1, <3>2
  <2>3. QED
    BY <2>2
<1>4. Is(W)
  <2> HIDE DEF Is
  <2>1. QED
    BY <1>3
<1>5. WalkOf(p) = W
  BY DEF WalkOf
<1> HIDE DEF W
<1>6. W[NoId] = <<>> /\ \A i \in Id : W[i] = Append(W[p[i]], i)
  BY <1>2, <1>4 DEF Ids
<1> DEFINE S == {n \in Nat : \A i \in Id : i < n => W[i] \in Seq(Id)}
<1>7. 0 \in S
  BY Bounds
<1>8. ASSUME NEW n \in S PROVE n + 1 \in S
  <2>1. n \in Nat /\ n + 1 \in Nat
    OBVIOUS
  <2>2. ASSUME NEW i \in Id, i < n + 1 PROVE W[i] \in Seq(Id)
    <3>1. p[i] = NoId \/ (p[i] \in Id /\ p[i] < n)
      <4>1. i \in Nat /\ (p[i] \in Id => p[i] \in Nat)
        BY Bounds
      <4>2. QED
        BY <2>1, <2>2, <4>1, OlderBelow
    <3>2. W[p[i]] \in Seq(Id)
      <4>1. \A j \in Id : j < n => W[j] \in Seq(Id)
        OBVIOUS
      <4>2. CASE p[i] = NoId
        <5>1. <<>> \in Seq(Id)
          OBVIOUS
        <5>2. QED
          BY <1>6, <4>2, <5>1
      <4>3. CASE p[i] \in Id /\ p[i] < n
        BY <4>1, <4>3
      <4>4. QED
        BY <3>1, <4>2, <4>3
    <3>3. W[i] = Append(W[p[i]], i)
      BY <1>6
    <3> HIDE DEF Is
    <3>4. QED
      BY <3>2, <3>3
  <2>3. QED
    BY <2>1, <2>2
<1>9. S = Nat
  <2>1. S \in SUBSET Nat
    OBVIOUS
  <2> HIDE DEF S
  <2>2. QED
    BY <1>7, <1>8, <2>1, SetInduction
<1>10. \A i \in Id : W[i] \in Seq(Id)
  <2>1. MaxSessions \in S
    BY <1>9, Bounds
  <2>2. QED
    BY <1>2, <2>1
<1>11. \A i \in Ids : W[i] \in Seq(Id)
  <2>1. <<>> \in Seq(Id)
    OBVIOUS
  <2>2. QED
    BY <1>6, <1>10, <2>1 DEF Ids
<1>12. QED
  BY <1>5, <1>6, <1>11

(* The walk from a session depends on the parents of older ones alone.      *)
LEMMA WalkSame ==
    ASSUME NEW m \in Nat, NEW k, NEW l, NEW p \in [Id -> Ids], NEW q \in [Id -> Ids],
           Older(p, k), Older(q, l), \A i \in Id : i < m => p[i] = q[i]
    PROVE  \A i \in Id : i < m => WalkOf(p)[i] = WalkOf(q)[i]
<1> DEFINE V == WalkOf(p)
           W == WalkOf(q)
           S == {n \in Nat : \A i \in Id : i < n /\ i < m => V[i] = W[i]}
<1>1. /\ V[NoId] = <<>> /\ \A i \in Id : V[i] = Append(V[p[i]], i)
      /\ W[NoId] = <<>> /\ \A i \in Id : W[i] = Append(W[q[i]], i)
  BY WalkUnfolds
<1> HIDE DEF V, W
<1>2. 0 \in S
  BY Bounds
<1>3. ASSUME NEW n \in S PROVE n + 1 \in S
  <2>1. n \in Nat /\ n + 1 \in Nat /\ \A i \in Id : i < n /\ i < m => V[i] = W[i]
    OBVIOUS
  <2>2. ASSUME NEW i \in Id, i < n + 1, i < m PROVE V[i] = W[i]
    <3>1. p[i] = q[i] /\ (p[i] = NoId \/ (p[i] \in Id /\ p[i] < n /\ p[i] < m))
      <4>1. i \in Nat /\ (p[i] \in Id => p[i] \in Nat)
        BY Bounds
      <4>2. QED
        BY <2>1, <2>2, <4>1, OlderBelow
    <3>2. V[p[i]] = W[q[i]]
      BY <1>1, <2>1, <3>1
    <3>3. QED
      BY <1>1, <3>2
  <2>3. QED
    BY <2>1, <2>2
<1>4. S = Nat
  <2>1. S \in SUBSET Nat
    OBVIOUS
  <2> HIDE DEF S
  <2>2. QED
    BY <1>2, <1>3, <2>1, SetInduction
<1>5. m \in S
  BY <1>4
<1>6. QED
  BY <1>5 DEF V, W

(***************************************************************************)
(* What each step does to the state.                                       *)
(***************************************************************************)
Still(a) == \A b \in Actor \ {a} : pc'[b] = pc[b] /\ local'[b] = local[b]
Grows == made' \in made .. MaxSessions /\ \A i \in 0 .. made - 1 : parent'[i] = parent[i]
ActorTyped(a) ==
    /\ pc[a] \in TaskLabel \cup ClientLabel /\ local[a] \in Locals
    /\ pc[a] = "idle" => local[a] = NoLocal
    /\ a \in Task => TaskTyped(a)
    /\ a \in Client => ClientTyped(a)

LEMMA ActorsAll ==
    ActorsTyped <=> /\ pc \in [Actor -> TaskLabel \cup ClientLabel]
                    /\ local \in [Actor -> Locals]
                    /\ \A a \in Actor : ActorTyped(a)
BY Bounds DEF ActorsTyped, ActorTyped

LEMMA NoLocalTyped ==
    /\ NoLocal \in Locals /\ NoLocal.child = NoId /\ NoLocal.session = NoId
    /\ NoLocal.caller = Turn /\ NoLocal.found = <<>>
<1>1. <<>> \in Seq(Id)
  OBVIOUS
<1>2. QED
  BY <1>1 DEF NoLocal, Locals

LEMMA Wider ==
    ASSUME NEW k \in Nat, NEW m \in Nat, NEW n \in Nat, m <= n
    PROVE  k .. m - 1 \subseteq k .. n - 1 /\ k .. m - 1 \subseteq 0 .. m - 1
OBVIOUS

LEMMA StaysTyped ==
    ASSUME TreeTyped, Grows, NEW a \in Actor, ActorTyped(a), pc'[a] = pc[a], local'[a] = local[a]
    PROVE  ActorTyped(a)'
<1>0. made \in Nat /\ made' \in Nat /\ made <= made' /\ Start \in Nat
  <2>1. made \in Nat /\ Start \in Nat /\ MaxSessions \in Nat /\ made' \in made .. MaxSessions
    BY Bounds DEF Grows, TreeTyped
  <2>2. QED
    BY <2>1
<1>1. \A i \in 0 .. made - 1 : i \in 0 .. made' - 1
  <2>1. 0 .. made - 1 \subseteq 0 .. made' - 1
    BY <1>0, Wider
  <2>2. QED
    BY <2>1
<1>2. \A i \in Start .. made - 1 : i \in Start .. made' - 1 /\ i \in 0 .. made - 1
  <2>1. /\ Start .. made - 1 \subseteq Start .. made' - 1
        /\ Start .. made - 1 \subseteq 0 .. made - 1
    BY <1>0, Wider
  <2>2. QED
    BY <2>1
<1>3. ASSUME a \in Task PROVE TaskTyped(a)'
  BY <1>1, <1>2, <1>3 DEF ActorTyped, TaskTyped, Child, Sess, Grows
<1>4. ASSUME a \in Client PROVE ClientTyped(a)'
  <2>1. Found(a)' = Found(a)
    BY DEF Found
  <2>2. QED
    BY <1>1, <1>4, <2>1 DEF ActorTyped, ClientTyped
<1>5. QED
  BY <1>3, <1>4 DEF ActorTyped

LEMMA OneTyped ==
    ASSUME TreeTyped, ActorsTyped, Grows, NEW a \in Actor, Still(a), ActorTyped(a)',
           DOMAIN pc' = Actor, DOMAIN local' = Actor,
           pc' = [b \in DOMAIN pc' |-> pc'[b]], local' = [b \in DOMAIN local' |-> local'[b]]
    PROVE  ActorsTyped'
<1>1. ASSUME NEW b \in Actor PROVE ActorTyped(b)'
  BY ActorsAll, StaysTyped DEF Still
<1>2. /\ pc' \in [Actor -> TaskLabel \cup ClientLabel]
      /\ local' \in [Actor -> Locals]
  <2>1. \A b \in Actor : pc'[b] \in TaskLabel \cup ClientLabel /\ local'[b] \in Locals
    BY <1>1 DEF ActorTyped
  <2>2. QED
    BY <2>1
<1>3. QED
  BY <1>1, <1>2, Bounds DEF ActorsTyped, ActorTyped

(* An actor goes to a label, and its local variables become x.              *)
Sets(a, l, x) ==
    /\ pc'[a] = l /\ local'[a] = x /\ Still(a)
    /\ DOMAIN pc' = Actor /\ DOMAIN local' = Actor
    /\ pc' = [b \in DOMAIN pc' |-> pc'[b]] /\ local' = [b \in DOMAIN local' |-> local'[b]]

LEMMA SetsTyped ==
    ASSUME TreeTyped, ActorsTyped, Grows, NEW a \in Actor, NEW l, NEW x, Sets(a, l, x),
           ActorTyped(a)'
    PROVE  ActorsTyped'
BY OneTyped DEF Sets

LEMMA GotoSets ==
    ASSUME ActorsTyped, NEW a \in Actor, NEW l, Goto(a, l)
    PROVE  /\ UNCHANGED local => Sets(a, l, local[a])
           /\ \A x : local' = [local EXCEPT ![a] = x] => Sets(a, l, x)
BY DEF Goto, Sets, Still, ActorsTyped

LEMMA KeepsSets ==
    ASSUME ActorsTyped, NEW a \in Actor, UNCHANGED pc, NEW x, local' = [local EXCEPT ![a] = x]
    PROVE  Sets(a, pc[a], x)
BY DEF Sets, Still, ActorsTyped

LEMMA ReturnSets ==
    ASSUME ActorsTyped, NEW a \in Actor, Return(a)
    PROVE  Sets(a, "idle", NoLocal)
BY GotoSets DEF Return

(* The local variables of a task, its session, child and chain replaced.    *)
Stacks == Seq(Id) \cup Seq(Id \X Nat)
LEMMA LocalOf ==
    ASSUME NEW x \in Locals
    PROVE  /\ \A u \in Task \cup {Turn}, s \in Ids : [x EXCEPT !.caller = u, !.session = s] \in Locals
           /\ \A q \in Seq(Id) : [x EXCEPT !.chain = q] \in Locals
           /\ \A s \in Ids : [x EXCEPT !.child = s] \in Locals
           /\ \A r \in Seq(Id) : [x EXCEPT !.found = r] \in Locals
           /\ \A r \in Seq(Id), k \in Stacks : [x EXCEPT !.found = r, !.stack = k] \in Locals
           /\ \A s \in Ids, k \in Stacks, b \in {<<>>} \cup (Nat \X SUBSET Id) :
                 [x EXCEPT !.session = s, !.stack = k, !.before = b] \in Locals
BY DEF Locals, Ids, Stacks

LEMMA QuietTyped ==
    ASSUME TypeInv, UNCHANGED <<tree, mem>>, CountTyped',
           NEW a \in Actor, NEW l, NEW x, Sets(a, l, x), ActorTyped(a)'
    PROVE  TypeInv'
<1>1. TreeTyped' /\ MemTyped'
  BY DEF TypeInv, TreeTyped, MemTyped, Older, tree, mem
<1>2. Grows
  BY Bounds DEF TypeInv, TreeTyped, Grows, tree
<1>3. ActorsTyped'
  BY <1>2, SetsTyped DEF TypeInv
<1>4. QED
  BY <1>1, <1>3 DEF TypeInv

LEMMA SpawnDoes ==
    ASSUME TypeInv, NEW t \in Task, NEW u \in (Task \ {t}) \cup {Turn}, NEW s \in Id, Spawn(t, u, s)
    PROVE  /\ Sets(t, "resolveRoot", [local[t] EXCEPT !.caller = u, !.session = s])
           /\ pc[t] = "idle" /\ local[t] = NoLocal /\ s \in 0 .. made - 1
           /\ \/ s < Start /\ s \in cached
              \/ u \in Task /\ pc[u] = "run" /\ s = Child(u)
<1>1. t \in Actor /\ ActorsTyped /\ pc[t] = "idle" /\ local[t] = NoLocal
  BY Bounds DEF TypeInv, Spawn, ActorsTyped
<1>2. Sets(t, "resolveRoot", [local[t] EXCEPT !.caller = u, !.session = s])
  <2>1. local' = [local EXCEPT ![t] = [local[t] EXCEPT !.caller = u, !.session = s]]
    BY <1>1 DEF Spawn, ActorsTyped
  <2>2. QED
    BY <1>1, <2>1, GotoSets DEF Spawn
<1>3. \/ s < Start /\ s \in cached
      \/ u \in Task /\ pc[u] = "run" /\ s = Child(u)
  BY DEF Spawn, Running, Child
<1>4. s \in 0 .. made - 1
  <2>1. CASE s \in cached
    BY <2>1 DEF TypeInv, MemTyped
  <2>2. CASE u \in Task /\ pc[u] = "run" /\ s = Child(u)
    <3>1. s \in Start .. made - 1 /\ made \in Nat /\ Start \in Nat
      BY <2>2, Bounds DEF TypeInv, ActorsTyped, TaskTyped, HasChild, TreeTyped
    <3>2. QED
      BY <3>1, Wider
  <2>3. QED
    BY <1>3, <2>1, <2>2
<1>5. QED
  BY <1>1, <1>2, <1>3, <1>4

LEMMA SpawnTyped ==
    ASSUME TypeInv, NEW t \in Task, NEW u \in (Task \ {t}) \cup {Turn}, NEW s \in Id, Spawn(t, u, s)
    PROVE  TypeInv'
<1>1. /\ Sets(t, "resolveRoot", [local[t] EXCEPT !.caller = u, !.session = s])
      /\ pc[t] = "idle" /\ local[t] = NoLocal /\ s \in 0 .. made - 1
  BY SpawnDoes
<1> DEFINE x == [local[t] EXCEPT !.caller = u, !.session = s]
<1>2. x \in Locals /\ x.session = s /\ x.child = NoId
  <2>1. NoLocal \in Locals /\ s \in Ids /\ u \in Task \cup {Turn}
    BY NoLocalTyped DEF Ids
  <2>2. x \in Locals
    BY <1>1, <2>1, LocalOf
  <2>3. QED
    BY <1>1, <2>2 DEF NoLocal
<1> HIDE DEF x
<1>3. pc'[t] = "resolveRoot" /\ local'[t] = x /\ t \in Actor /\ t \notin Client
  BY <1>1, Bounds DEF Sets, x
<1>4. UNCHANGED <<tree, mem>> /\ CountTyped'
  BY DEF Spawn, TypeInv, CountTyped, count
<1>5. ActorTyped(t)'
  BY <1>1, <1>2, <1>3, <1>4
     DEF ActorTyped, TaskTyped, TaskLabel, ClientLabel, HasChild, Sess, Child, tree
<1>6. QED
  BY <1>1, <1>3, <1>4, <1>5, QuietTyped

(* The steps of a sub-agent that ends, and nothing is written.              *)
LEMMA ReturnTyped ==
    ASSUME TypeInv, NEW a \in Actor, Return(a), UNCHANGED <<tree, mem, count>>
    PROVE  TypeInv'
<1>1. Sets(a, "idle", NoLocal)
  BY ReturnSets DEF TypeInv
<1>2. CountTyped' /\ pc'[a] = "idle" /\ local'[a] = NoLocal
  BY <1>1 DEF TypeInv, CountTyped, count, Sets
<1>3. ActorTyped(a)'
  BY <1>2, NoLocalTyped
     DEF ActorTyped, TaskTyped, ClientTyped, TaskLabel, ClientLabel, HasChild, DeleteLabel, Child
<1>4. QED
  BY <1>1, <1>2, <1>3, QuietTyped

LEMMA IdleTyped ==
    ASSUME NEW a \in Actor, pc[a] = "idle", local[a] = NoLocal
    PROVE  ActorTyped(a)
BY NoLocalTyped
   DEF ActorTyped, TaskTyped, ClientTyped, TaskLabel, ClientLabel, HasChild, DeleteLabel, Child

LEMMA ResolveRootTyped ==
    ASSUME TypeInv, NEW t \in Task, ResolveRoot(t)
    PROVE  /\ TypeInv'
           /\ Sets(t, "resolveChain", local[t]) \/ Sets(t, "idle", NoLocal)
<1>1. t \in Actor /\ t \notin Client /\ ActorsTyped /\ pc[t] = "resolveRoot"
  BY Bounds DEF TypeInv, ResolveRoot
<1>2. CASE Return(t)
  BY <1>1, <1>2, ReturnSets, ReturnTyped DEF ResolveRoot
<1>3. CASE Goto(t, "resolveChain") /\ UNCHANGED local
  <2>1. Sets(t, "resolveChain", local[t])
    BY <1>1, <1>3, GotoSets
  <2>2. UNCHANGED <<tree, mem>> /\ CountTyped'
    BY DEF ResolveRoot, TypeInv, CountTyped, count
  <2>3. ActorTyped(t)'
    BY <1>1, <2>1, <2>2
       DEF Sets, ActorsTyped, ActorTyped, TaskTyped, TaskLabel, ClientLabel, HasChild, Sess, Child, tree
  <2>4. QED
    BY <1>1, <2>1, <2>2, <2>3, QuietTyped
<1>4. QED
  BY <1>2, <1>3 DEF ResolveRoot

LEMMA WalkTyped ==
    ASSUME TreeTyped
    PROVE  /\ Walk[NoId] = <<>>
           /\ \A i \in Id : Walk[i] = Append(Walk[parent[i]], i)
           /\ \A i \in Ids : Walk[i] \in Seq(Id)
<1>1. parent \in [Id -> Ids] /\ Older(parent, made)
  BY DEF TreeTyped, Ids
<1>2. QED
  BY <1>1, WalkUnfolds, WalkIs

LEMMA ChainUnderTyped ==
    ASSUME TreeTyped, NEW s \in Id
    PROVE  ChainUnder(s) \in Seq(Id)
<1>1. Walk[parent[s]] \in Seq(Id)
  BY WalkTyped DEF TreeTyped, Ids
<1>2. chain[s] # NoChain => chain[s] \in Seq(Id)
  BY DEF TreeTyped
<1>3. QED
  BY <1>1, <1>2 DEF ChainUnder

LEMMA ResolveChainTyped ==
    ASSUME TypeInv, NEW t \in Task, ResolveChain(t)
    PROVE  /\ TypeInv' /\ Sess(t) \in 0 .. made - 1 /\ Sess(t) \in Id
           /\ \/ Sets(t, "saveRow", [local[t] EXCEPT !.chain = ChainUnder(Sess(t))]) /\ Sess(t) \in rows
              \/ Sets(t, "idle", NoLocal)
<1>1. t \in Actor /\ t \notin Client /\ ActorsTyped /\ TreeTyped /\ pc[t] = "resolveChain"
  BY Bounds DEF TypeInv, ResolveChain
<1>2. Sess(t) \in 0 .. made - 1 /\ Sess(t) \in Id /\ Child(t) = NoId /\ local[t] \in Locals
  <2>1. 0 .. made - 1 \subseteq Id
    BY <1>1, Bounds DEF TreeTyped
  <2>2. QED
    BY <1>1, <2>1 DEF ActorsTyped, TaskTyped, HasChild
<1>3. CASE Return(t)
  BY <1>1, <1>2, <1>3, ReturnSets, ReturnTyped DEF ResolveChain
<1>4. CASE /\ Known(local[t].session)
           /\ Goto(t, "saveRow")
           /\ local' = [local EXCEPT ![t].chain = ChainUnder(local[t].session)]
  <2> DEFINE q == ChainUnder(local[t].session)
             x == [local[t] EXCEPT !.chain = q]
  <2>1. q \in Seq(Id)
    BY <1>1, <1>2, ChainUnderTyped DEF Sess
  <2> HIDE DEF q
  <2>2. x \in Locals /\ x.session = Sess(t) /\ x.child = NoId
    <3>1. x \in Locals
      BY <1>2, <2>1, LocalOf
    <3>2. QED
      BY <1>2, <2>1 DEF Locals, Sess, Child
  <2>3. Sets(t, "saveRow", x)
    <3>1. local' = [local EXCEPT ![t] = x]
      BY <1>1, <1>4 DEF ActorsTyped, q
    <3> HIDE DEF x
    <3>2. QED
      BY <1>1, <1>4, <3>1, GotoSets
  <2>4. UNCHANGED <<tree, mem>> /\ CountTyped'
    BY DEF ResolveChain, TypeInv, CountTyped, count
  <2>5. ActorTyped(t)'
    <3> HIDE DEF x
    <3>1. QED
      BY <1>1, <1>2, <2>2, <2>3, <2>4
         DEF Sets, ActorTyped, TaskTyped, TaskLabel, ClientLabel, HasChild, Sess, Child, tree
  <2>6. Sess(t) \in rows
    BY <1>4 DEF Known, Sess
  <2>7. TypeInv'
    <3> HIDE DEF x
    <3>1. QED
      BY <1>1, <2>3, <2>4, <2>5, QuietTyped
  <2>8. QED
    BY <1>2, <2>3, <2>6, <2>7 DEF q, Sess
<1>5. QED
  BY <1>3, <1>4 DEF ResolveChain

LEMMA SaveMessageTyped ==
    ASSUME TypeInv, NEW t \in Task, SaveMessage(t)
    PROVE  /\ TypeInv'
           /\ \/ Sets(t, "persist", local[t]) /\ Child(t) \in rows
              \/ Sets(t, "idle", NoLocal)
<1>1. t \in Actor /\ t \notin Client /\ ActorsTyped /\ pc[t] = "saveMessage"
  BY Bounds DEF TypeInv, SaveMessage
<1>2. CASE Return(t)
  BY <1>1, <1>2, ReturnSets, ReturnTyped DEF SaveMessage
<1>3. CASE local[t].child \in rows /\ Goto(t, "persist") /\ UNCHANGED local
  <2>1. Sets(t, "persist", local[t]) /\ Child(t) \in rows
    BY <1>1, <1>3, GotoSets DEF Child
  <2>2. UNCHANGED <<tree, mem>> /\ CountTyped'
    BY DEF SaveMessage, TypeInv, CountTyped, count
  <2>3. ActorTyped(t)'
    BY <1>1, <2>1, <2>2
       DEF Sets, ActorsTyped, ActorTyped, TaskTyped, TaskLabel, ClientLabel, HasChild, Sess, Child, tree
  <2>4. QED
    BY <1>1, <2>1, <2>2, <2>3, QuietTyped
<1>4. QED
  BY <1>2, <1>3 DEF SaveMessage

LEMMA TurnFailsTyped ==
    ASSUME TypeInv, NEW t \in Task, TurnFails(t)
    PROVE  TypeInv' /\ Sets(t, "idle", NoLocal)
<1>1. t \in Actor /\ ActorsTyped
  BY Bounds DEF TypeInv
<1>2. QED
  BY <1>1, ReturnSets, ReturnTyped DEF TurnFails

(* The calls that are dropped are those of tasks.                           *)
LEMMA DropTyped ==
    ASSUME TypeInv, NEW t \in Task, Drop(t)
    PROVE  /\ TypeInv' /\ UNCHANGED <<tree, mem>>
           /\ \A a \in Actor : \/ pc'[a] = pc[a] /\ local'[a] = local[a]
                               \/ a \in Task /\ pc'[a] = "idle" /\ local'[a] = NoLocal
<1>1. \A a \in Actor : \/ pc'[a] = pc[a] /\ local'[a] = local[a]
                       \/ a \in Task /\ pc'[a] = "idle" /\ local'[a] = NoLocal
  BY DEF Drop, Below
<1>2. UNCHANGED <<tree, mem>> /\ CountTyped' /\ TreeTyped' /\ MemTyped'
  BY DEF Drop, TypeInv, CountTyped, count, TreeTyped, MemTyped, Older, tree, mem
<1>3. Grows /\ TreeTyped /\ ActorsTyped
  BY <1>2, Bounds DEF TypeInv, TreeTyped, Grows, tree
<1>4. ASSUME NEW a \in Actor PROVE ActorTyped(a)'
  <2>1. CASE pc'[a] = pc[a] /\ local'[a] = local[a]
    BY <1>3, <2>1, ActorsAll, StaysTyped
  <2>2. CASE a \in Task /\ pc'[a] = "idle" /\ local'[a] = NoLocal
    BY <2>2, NoLocalTyped, Bounds
       DEF ActorTyped, TaskTyped, ClientTyped, TaskLabel, ClientLabel, HasChild, DeleteLabel, Child
  <2>3. QED
    BY <1>1, <2>1, <2>2
<1>5. pc' \in [Actor -> TaskLabel \cup ClientLabel] /\ local' \in [Actor -> Locals]
  <2>1. \A a \in Actor : pc'[a] \in TaskLabel \cup ClientLabel /\ local'[a] \in Locals
    BY <1>4 DEF ActorTyped
  <2>2. pc' = [a \in Actor |-> pc'[a]] /\ local' = [a \in Actor |-> local'[a]]
    BY DEF Drop
  <2>3. QED
    BY <2>1, <2>2
<1>6. ActorsTyped'
  BY <1>4, <1>5, Bounds DEF ActorsTyped, ActorTyped
<1>7. QED
  BY <1>1, <1>2, <1>6 DEF TypeInv

LEMMA DeleteTyped ==
    ASSUME TypeInv, NEW c \in Client, NEW i \in Id, Delete(c, i)
    PROVE  /\ TypeInv' /\ UNCHANGED <<tree, mem>>
           /\ \/ UNCHANGED <<pc, local>>
              \/ /\ Sets(c, "deleteRows", [local[c] EXCEPT !.found = <<i>>]) /\ Children(i) = {}
                 /\ pc[c] = "idle" /\ Found(c)' = {i}
<1>1. c \in Actor /\ c \notin Task /\ ActorsTyped /\ TreeTyped /\ pc[c] = "idle"
      /\ local[c] \in Locals
  BY Bounds DEF TypeInv, Delete, ActorsTyped
<1>2. UNCHANGED <<tree, mem>> /\ CountTyped'
  BY Bounds, SessionTreeAssumption DEF Delete, TypeInv, CountTyped
<1>3. CASE UNCHANGED <<pc, local>>
  <2>1. TypeInv'
    BY <1>2, <1>3 DEF TypeInv, TreeTyped, MemTyped, ActorsTyped, TaskTyped, ClientTyped, Older,
                      Sess, Child, Found, tree, mem
  <2>2. QED
    BY <1>2, <1>3, <2>1
<1>4. CASE ~Refused(i) /\ Goto(c, "deleteRows") /\ local' = [local EXCEPT ![c].found = <<i>>]
  <2> DEFINE x == [local[c] EXCEPT !.found = <<i>>]
  <2>1. x \in Locals /\ x.found = <<i>>
    <3>1. <<i>> \in Seq(Id)
      OBVIOUS
    <3>2. x \in Locals
      BY <1>1, <3>1, LocalOf
    <3>3. QED
      BY <1>1, <3>2 DEF Locals
  <2>2. Sets(c, "deleteRows", x)
    <3>1. local' = [local EXCEPT ![c] = x]
      BY <1>1, <1>4 DEF ActorsTyped
    <3> HIDE DEF x
    <3>2. QED
      BY <1>1, <1>4, <3>1, GotoSets
  <2>3. Found(c)' = {i}
    <3>1. local'[c].found = <<i>>
      BY <2>1, <2>2 DEF Sets
    <3>2. QED
      BY <3>1 DEF Found, ToSet
  <2>4. i \in 0 .. made - 1
    <3>1. i < made /\ i \in Nat /\ made \in Nat
      BY <1>1, Bounds DEF Delete, TreeTyped
    <3>2. QED
      BY <3>1
  <2>5. ActorTyped(c)'
    <3> HIDE DEF x
    <3>1. local'[c].found # <<>> /\ Found(c)' \subseteq 0 .. made' - 1
      <4>1. <<i>> # <<>>
        OBVIOUS
      <4>2. local'[c].found # <<>>
        BY <2>1, <2>2, <4>1 DEF Sets
      <4>3. made' = made
        BY <1>2 DEF tree
      <4>4. QED
        BY <2>3, <2>4, <4>2, <4>3
    <3>2. QED
      BY <1>1, <2>1, <2>2, <3>1 DEF Sets, ActorTyped, ClientTyped, ClientLabel, DeleteLabel
  <2>6. Children(i) = {}
    BY <1>1, <1>4, ChildRowsList DEF Refused
  <2>7. TypeInv'
    <3> HIDE DEF x
    <3>1. QED
      BY <1>1, <1>2, <2>2, <2>5, QuietTyped
  <2>8. QED
    BY <1>1, <1>2, <2>2, <2>3, <2>6, <2>7
<1>5. QED
  BY <1>3, <1>4 DEF Delete

LEMMA DeleteTreeTyped ==
    ASSUME TypeInv, NEW c \in Client, NEW i \in Id, DeleteTree(c, i)
    PROVE  /\ TypeInv' /\ UNCHANGED <<tree, mem>> /\ pc[c] = "idle"
           /\ pc'[c] = "collect" /\ Still(c)
           /\ Found(c)' = {i} /\ ToSet(local'[c].stack) = {i}
<1>1. c \in Actor /\ c \notin Task /\ ActorsTyped /\ TreeTyped /\ pc[c] = "idle"
      /\ local[c] \in Locals
  BY Bounds DEF TypeInv, DeleteTree, ActorsTyped
<1>2. UNCHANGED <<tree, mem>> /\ CountTyped'
  BY Bounds, SessionTreeAssumption DEF DeleteTree, TypeInv, CountTyped
<1> DEFINE x == [local[c] EXCEPT !.found = <<i>>, !.stack = <<i>>]
<1>3. <<i>> \in Seq(Id) /\ <<i>> \in Stacks
  BY DEF Stacks
<1>4. x \in Locals /\ x.found = <<i>> /\ x.stack = <<i>>
  <2>1. x \in Locals
    BY <1>1, <1>3, LocalOf
  <2>2. QED
    BY <1>1, <2>1 DEF Locals
<1>5. Sets(c, "collect", x)
  <2>1. local' = [local EXCEPT ![c] = x]
    BY <1>1 DEF ActorsTyped, DeleteTree
  <2> HIDE DEF x
  <2>2. QED
    BY <1>1, <2>1, GotoSets DEF DeleteTree
<1>6. Found(c)' = {i} /\ ToSet(local'[c].stack) = {i}
  <2>1. local'[c].found = <<i>> /\ local'[c].stack = <<i>>
    BY <1>4, <1>5 DEF Sets
  <2>2. QED
    BY <2>1 DEF Found, ToSet
<1>7. i \in 0 .. made - 1
  BY <1>1 DEF DeleteTree, TreeTyped
<1>8. ActorTyped(c)'
  <2> HIDE DEF x
  <2>1. local'[c].found # <<>> /\ Found(c)' \subseteq 0 .. made' - 1
    <3>1. <<i>> # <<>>
      OBVIOUS
    <3>2. local'[c].found # <<>>
      BY <1>4, <1>5, <3>1 DEF Sets
    <3>3. made' = made
      BY <1>2 DEF tree
    <3>4. QED
      BY <1>6, <1>7, <3>2, <3>3
  <2>2. QED
    BY <1>1, <1>3, <1>4, <1>5, <2>1 DEF Sets, ActorTyped, ClientTyped, ClientLabel, DeleteLabel
<1>9. TypeInv'
  <2> HIDE DEF x
  <2>1. QED
    BY <1>1, <1>2, <1>5, <1>8, QuietTyped
<1>10. QED
  <2> HIDE DEF x
  <2>1. QED
    BY <1>1, <1>2, <1>5, <1>6, <1>9 DEF Sets

(* A step of the search: the children of the last session of the stack are  *)
(* found, and take its place.                                              *)
LEMMA CollectTyped ==
    ASSUME TypeInv, NEW c \in Client, Collect(c)
    PROVE  /\ TypeInv' /\ UNCHANGED <<tree, mem, pc>> /\ Still(c) /\ pc[c] = "collect"
           /\ \E i \in Id : /\ i \in ToSet(local[c].stack)
                            /\ Found(c)' = Found(c) \cup Children(i)
                            /\ ToSet(local[c].stack) \subseteq ToSet(local'[c].stack) \cup {i}
                            /\ Children(i) \subseteq ToSet(local'[c].stack)
<1> DEFINE f == local[c].found
           s == local[c].stack
           r == ChildRows(Last(s))
           g == f \o r
           k == Front(s) \o r
           x == [local[c] EXCEPT !.found = g, !.stack = k]
<1>1. c \in Actor /\ c \notin Task /\ ActorsTyped /\ TreeTyped /\ pc[c] = "collect"
      /\ local[c] \in Locals /\ s \in Seq(Id) /\ s # <<>>
  BY Bounds DEF TypeInv, Collect, ActorsTyped, ClientTyped
<1>2. f \in Seq(Id) /\ f # <<>> /\ Found(c) \subseteq 0 .. made - 1
  BY <1>1 DEF ActorsTyped, ClientTyped, Locals, DeleteLabel
<1>3. r \in Seq(Id) /\ ToSet(r) = Children(Last(s)) /\ Children(Last(s)) \subseteq 0 .. made - 1
  BY <1>1, ChildRowsList DEF TreeTyped, Children
<1>4. /\ Last(s) \in Id /\ Front(s) \in Seq(Id) /\ Last(s) \in ToSet(s)
      /\ ToSet(s) \subseteq ToSet(Front(s)) \cup {Last(s)}
  <2>1. Len(s) \in Nat /\ Len(s) > 0 /\ Len(s) \in 1 .. Len(s)
    BY <1>1
  <2>2. Last(s) = s[Len(s)] /\ Front(s) \in Seq(Id) /\ Len(Front(s)) = Len(s) - 1
        /\ \A j \in 1 .. Len(s) - 1 : Front(s)[j] = s[j]
    BY <1>1, <2>1 DEF Last, Front
  <2> HIDE DEF s
  <2>3. ToSet(s) = {s[j] : j \in 1 .. Len(s)}
        /\ ToSet(Front(s)) = {Front(s)[j] : j \in 1 .. Len(s) - 1}
    BY <1>1, <2>2, SetOf
  <2>4. \A j \in 1 .. Len(s) : j = Len(s) \/ j \in 1 .. Len(s) - 1
    BY <2>1
  <2>5. QED
    BY <1>1, <2>1, <2>2, <2>3, <2>4
<1> HIDE DEF r
<1>5. g \in Seq(Id) /\ g # <<>> /\ k \in Seq(Id)
      /\ ToSet(g) = ToSet(f) \cup ToSet(r) /\ ToSet(k) = ToSet(Front(s)) \cup ToSet(r)
  <2>1. Len(f) \in Nat /\ Len(f) > 0 /\ Len(r) \in Nat
    BY <1>2, <1>3
  <2>2. g \in Seq(Id) /\ k \in Seq(Id) /\ Len(g) > 0
    BY <1>2, <1>3, <1>4, <2>1, ConcatProperties
  <2>3. QED
    BY <1>2, <1>3, <1>4, <2>2, SetOfConcat
<1>6. x \in Locals /\ x.found = g /\ x.stack = k
  <2> HIDE DEF g, k
  <2>1. k \in Stacks
    BY <1>5 DEF Stacks
  <2>2. x \in Locals
    BY <1>1, <1>5, <2>1, LocalOf
  <2>3. QED
    BY <1>1, <2>2 DEF Locals
<1>7. Sets(c, pc[c], x) /\ UNCHANGED <<tree, mem, pc>> /\ CountTyped'
  <2>1. local' = [local EXCEPT ![c] = x]
    BY <1>1 DEF ActorsTyped, Collect, r
  <2> HIDE DEF x
  <2>2. QED
    BY <1>1, <2>1, KeepsSets DEF Collect, CountTyped, TypeInv, count
<1>8. /\ Found(c)' = Found(c) \cup Children(Last(s))
      /\ ToSet(local'[c].stack) = ToSet(Front(s)) \cup Children(Last(s))
  <2> HIDE DEF x
  <2>1. local'[c].found = g /\ local'[c].stack = k
    BY <1>6, <1>7 DEF Sets
  <2>2. QED
    BY <1>3, <1>5, <2>1 DEF Found
<1>9. ActorTyped(c)'
  <2> HIDE DEF x, g, k
  <2>1. /\ local'[c].found # <<>> /\ local'[c].stack \in Seq(Id)
        /\ local'[c] \in Locals /\ pc'[c] = "collect"
    BY <1>1, <1>5, <1>6, <1>7 DEF Sets
  <2>2. Found(c)' \subseteq 0 .. made' - 1
    BY <1>2, <1>3, <1>7, <1>8 DEF tree
  <2>3. QED
    BY <1>1, <2>1, <2>2 DEF ActorTyped, ClientTyped, ClientLabel, DeleteLabel
<1>10. TypeInv'
  <2> HIDE DEF x
  <2>1. QED
    BY <1>1, <1>7, <1>9, QuietTyped
<1>11. QED
  <2> HIDE DEF x
  <2>1. QED
    BY <1>1, <1>4, <1>7, <1>8, <1>10 DEF Sets

LEMMA CollectedTyped ==
    ASSUME TypeInv, NEW c \in Client, Collected(c)
    PROVE  /\ TypeInv' /\ UNCHANGED <<tree, mem>> /\ Sets(c, "deleteRows", local[c])
           /\ pc[c] = "collect" /\ ToSet(local[c].stack) = {}
<1>1. c \in Actor /\ c \notin Task /\ ActorsTyped /\ pc[c] = "collect"
  BY Bounds DEF TypeInv, Collected
<1>2. Sets(c, "deleteRows", local[c])
  BY <1>1, GotoSets DEF Collected
<1>3. UNCHANGED <<tree, mem>> /\ CountTyped'
  BY DEF Collected, TypeInv, CountTyped, count
<1>4. ActorTyped(c)'
  <2>1. Found(c)' = Found(c)
    BY <1>2 DEF Sets, Found
  <2>2. QED
    BY <1>1, <1>2, <1>3, <2>1
       DEF Sets, ActorsTyped, ActorTyped, ClientTyped, ClientLabel, DeleteLabel, tree
<1>5. ToSet(local[c].stack) = {}
  BY DEF Collected, ToSet
<1>6. QED
  BY <1>1, <1>2, <1>3, <1>4, <1>5, QuietTyped

LEMMA GetTreeTyped ==
    ASSUME TypeInv, NEW c \in Client, NEW i \in Id, GetTree(c, i)
    PROVE  /\ TypeInv' /\ UNCHANGED <<tree, mem>> /\ pc[c] = "idle" /\ pc'[c] = "visit" /\ Still(c)
<1>1. c \in Actor /\ c \notin Task /\ ActorsTyped /\ TreeTyped /\ pc[c] = "idle"
      /\ local[c] \in Locals
  BY Bounds DEF TypeInv, GetTree, ActorsTyped
<1>2. UNCHANGED <<tree, mem>> /\ CountTyped'
  BY Bounds, SessionTreeAssumption DEF GetTree, TypeInv, CountTyped
<1> DEFINE k == <<<<i, Depth>>>>
           b == IF Others(c) THEN <<made, rows>> ELSE <<>>
           x == [local[c] EXCEPT !.session = i, !.stack = k, !.before = b]
<1>3. k \in Seq(Id \X Nat) /\ k \in Stacks
  <2>1. <<i, Depth>> \in Id \X Nat
    BY Bounds
  <2>2. QED
    BY <2>1 DEF Stacks
<1>4. b \in {<<>>} \cup (Nat \X SUBSET Id)
  <2>1. made \in Nat /\ rows \in SUBSET Id
    BY <1>1, Bounds DEF TreeTyped
  <2>2. QED
    BY <2>1
<1> HIDE DEF k, b
<1>5. x \in Locals /\ x.stack = k
  <2>1. x \in Locals
    BY <1>1, <1>3, <1>4, LocalOf DEF Ids
  <2>2. QED
    BY <1>1, <2>1 DEF Locals
<1>6. Sets(c, "visit", x)
  <2>1. local' = [local EXCEPT ![c] = x]
    BY <1>1 DEF ActorsTyped, GetTree, k, b
  <2> HIDE DEF x
  <2>2. QED
    BY <1>1, <2>1, GotoSets DEF GetTree
<1>7. ActorTyped(c)'
  <2> HIDE DEF x
  <2>1. QED
    BY <1>1, <1>3, <1>5, <1>6 DEF Sets, ActorTyped, ClientTyped, ClientLabel, DeleteLabel
<1>8. QED
  <2> HIDE DEF x
  <2>1. QED
    BY <1>1, <1>2, <1>6, <1>7, QuietTyped DEF Sets

LEMMA AnsweredTyped ==
    ASSUME TypeInv, NEW c \in Client, Answered(c)
    PROVE  TypeInv' /\ UNCHANGED <<tree, mem>> /\ Sets(c, "idle", NoLocal) /\ pc[c] \notin DeleteLabel
<1>1. c \in Actor /\ ActorsTyped /\ pc[c] \in {"visit", "failed"}
  BY Bounds DEF TypeInv, Answered
<1>2. QED
  BY <1>1, ReturnSets, ReturnTyped DEF Answered, DeleteLabel

(***************************************************************************)
(* The steps that write rows or objects.                                   *)
(***************************************************************************)
LEMMA WriteTyped ==
    ASSUME TypeInv, TreeTyped', MemTyped', Grows, UNCHANGED count,
           NEW a \in Actor, NEW l, NEW x, Sets(a, l, x), ActorTyped(a)'
    PROVE  TypeInv'
<1>1. CountTyped'
  BY DEF TypeInv, CountTyped, count
<1>2. ActorsTyped'
  BY SetsTyped DEF TypeInv
<1>3. QED
  BY <1>1, <1>2 DEF TypeInv

(* A session is made.                                                      *)
Makes(s, q) ==
    /\ made \in Id /\ made' = made + 1 /\ rows' = rows \cup {made}
    /\ parent' = [parent EXCEPT ![made] = s] /\ chain' = [chain EXCEPT ![made] = q]

LEMMA MakesTyped ==
    ASSUME TreeTyped, NEW s \in (0 .. made - 1) \cup {NoId}, NEW q \in Seq(Id), Makes(s, q)
    PROVE  /\ TreeTyped' /\ Grows /\ made \in Nat /\ made \in Id /\ made \notin rows
           /\ parent'[made] = s /\ chain'[made] = q /\ made \in Start .. made' - 1
           /\ \A i \in Id : i # made => parent'[i] = parent[i] /\ chain'[i] = chain[i]
           /\ \A i \in 0 .. made - 1 : i \in Id /\ i # made /\ i \in 0 .. made' - 1
<1>1. made \in Nat /\ made \in Id /\ made < MaxSessions /\ MaxSessions \in Nat
      /\ Start \in Nat /\ Start <= made /\ 0 .. made - 1 \subseteq Id
  <2>1. made \in Start .. MaxSessions
    BY DEF TreeTyped
  <2>2. QED
    BY <2>1, Bounds DEF Makes
<1>2. made' = made + 1 /\ made' \in Start .. MaxSessions /\ made \in Start .. made' - 1
      /\ made' \in made .. MaxSessions
  BY <1>1 DEF Makes
<1>3. \A i \in 0 .. made - 1 : i \in Id /\ i # made /\ i \in 0 .. made' - 1
  BY <1>1, <1>2
<1>4. made \notin rows /\ s \in Ids
  BY <1>1, <1>3 DEF TreeTyped, Ids
<1>5. parent'[made] = s /\ chain'[made] = q
      /\ \A i \in Id : i # made => parent'[i] = parent[i] /\ chain'[i] = chain[i]
  BY <1>1 DEF Makes, TreeTyped
<1>6. /\ parent' \in [Id -> Id \cup {NoId}]
      /\ chain' \in [Id -> Seq(Id) \cup {NoChain}]
  BY <1>4 DEF Makes, TreeTyped, Ids
<1>7. Older(parent', made')
  <2>1. ASSUME NEW i \in Id
        PROVE  parent'[i] = NoId \/ (parent'[i] \in 0 .. i - 1 /\ i < made')
    <3>1. CASE i = made
      BY <1>1, <1>2, <1>5, <3>1
    <3>2. CASE i # made
      <4>1. parent'[i] = NoId \/ (parent'[i] \in 0 .. i - 1 /\ i < made)
        BY <1>5, <3>2 DEF TreeTyped, Older
      <4>2. i \in Nat
        BY Bounds
      <4>3. QED
        BY <1>1, <1>2, <4>1, <4>2
    <3>3. QED
      BY <3>1, <3>2
  <2>2. QED
    BY <2>1 DEF Older
<1>8. rows' \in SUBSET (0 .. made' - 1)
  <2>1. made \in 0 .. made' - 1
    BY <1>1, <1>2
  <2>2. QED
    BY <1>3, <2>1 DEF Makes, TreeTyped
<1>9. Grows
  BY <1>2, <1>3, <1>5 DEF Grows
<1>10. QED
  BY <1>1, <1>2, <1>3, <1>4, <1>5, <1>6, <1>7, <1>8, <1>9 DEF TreeTyped

LEMMA SaveRowTyped ==
    ASSUME TypeInv, NEW t \in Task, SaveRow(t)
    PROVE  /\ TypeInv' /\ pc[t] = "saveRow" /\ Sess(t) \in 0 .. made - 1
           /\ Makes(Sess(t), local[t].chain) /\ local[t].chain \in Seq(Id) /\ UNCHANGED mem
           /\ Sets(t, "insert", [local[t] EXCEPT !.child = made])
           /\ Child(t)' = made /\ Sess(t)' = Sess(t) /\ Caller(t)' = Caller(t)
<1>1. t \in Actor /\ t \notin Client /\ ActorsTyped /\ TreeTyped /\ MemTyped /\ pc[t] = "saveRow"
      /\ local[t] \in Locals
  BY Bounds DEF TypeInv, SaveRow, ActorsTyped
<1>2. Sess(t) \in 0 .. made - 1 /\ local[t].chain \in Seq(Id)
  BY <1>1 DEF ActorsTyped, TaskTyped, Locals
<1>3. Makes(Sess(t), local[t].chain)
  BY <1>1, Bounds DEF SaveRow, Makes, Sess, TreeTyped
<1>4. /\ TreeTyped' /\ Grows /\ made \in Id /\ parent'[made] = Sess(t) /\ made \in Start .. made' - 1
      /\ \A i \in 0 .. made - 1 : i \in Id /\ i # made /\ i \in 0 .. made' - 1
  BY <1>1, <1>2, <1>3, MakesTyped
<1> DEFINE x == [local[t] EXCEPT !.child = made]
<1>5. x \in Locals /\ x.child = made /\ x.session = Sess(t) /\ x.caller = Caller(t)
  <2>1. x \in Locals
    BY <1>1, <1>4, LocalOf DEF Ids
  <2>2. QED
    BY <1>1, <2>1 DEF Locals, Sess, Caller
<1>6. Sets(t, "insert", x)
  <2>1. local' = [local EXCEPT ![t] = x]
    BY <1>1 DEF ActorsTyped, SaveRow
  <2> HIDE DEF x
  <2>2. QED
    BY <1>1, <2>1, GotoSets DEF SaveRow
<1>7. MemTyped' /\ UNCHANGED mem /\ UNCHANGED count
  BY <1>1, <1>4 DEF SaveRow, MemTyped, mem
<1> HIDE DEF x
<1>8. pc'[t] = "insert" /\ local'[t] = x /\ Child(t)' = made /\ Sess(t)' = Sess(t) /\ Caller(t)' = Caller(t)
  BY <1>5, <1>6 DEF Sets, Child, Sess, Caller
<1>9. ActorTyped(t)'
  BY <1>1, <1>2, <1>4, <1>5, <1>8 DEF ActorTyped, TaskTyped, TaskLabel, HasChild
<1>10. TypeInv'
  BY <1>1, <1>4, <1>6, <1>7, <1>9, WriteTyped
<1>11. QED
  BY <1>1, <1>2, <1>3, <1>6, <1>7, <1>8, <1>10 DEF x

LEMMA SameTree ==
    ASSUME TypeInv, UNCHANGED <<made, parent, chain>>, rows' \in SUBSET (0 .. made - 1)
    PROVE  TreeTyped' /\ Grows
BY Bounds DEF TypeInv, TreeTyped, Grows, Older

LEMMA InsertTyped ==
    ASSUME TypeInv, NEW t \in Task, Insert(t)
    PROVE  /\ TypeInv' /\ pc[t] = "insert" /\ UNCHANGED tree /\ cached' = cached \cup {Child(t)}
           /\ Sets(t, "pushChild", local[t]) /\ Child(t) \in Id
           /\ kids'[Child(t)] = <<>> /\ \A i \in Id : i # Child(t) => kids'[i] = kids[i]
<1>1. t \in Actor /\ t \notin Client /\ ActorsTyped /\ TreeTyped /\ MemTyped /\ pc[t] = "insert"
  BY Bounds DEF TypeInv, Insert
<1>2. Child(t) \in 0 .. made - 1 /\ Child(t) \in Id
  <2>1. Child(t) \in Start .. made - 1 /\ made \in Nat /\ Start \in Nat
    BY <1>1, Bounds DEF ActorsTyped, TaskTyped, HasChild, TreeTyped
  <2>2. Child(t) \in 0 .. made - 1
    BY <2>1, Wider
  <2>3. QED
    BY <1>1, <2>2, Bounds DEF TreeTyped
<1>3. Sets(t, "pushChild", local[t])
  BY <1>1, GotoSets DEF Insert
<1>4. TreeTyped' /\ Grows /\ UNCHANGED tree /\ UNCHANGED count
  <2>1. rows' \in SUBSET (0 .. made - 1)
    BY <1>1 DEF TreeTyped, Insert, tree
  <2>2. QED
    BY <2>1, SameTree DEF Insert, tree
<1>5. kids'[Child(t)] = <<>> /\ \A i \in Id : i # Child(t) => kids'[i] = kids[i]
  BY <1>1, <1>2 DEF Insert, MemTyped, Child
<1>6. MemTyped'
  <2>1. <<>> \in Seq(Id) /\ IsInjective(<<>>)
    BY DEF IsInjective
  <2>2. cached' \in SUBSET (0 .. made' - 1)
    BY <1>1, <1>2, <1>4 DEF Insert, MemTyped, Child, tree
  <2>3. kids' \in [Id -> Seq(Id)]
    BY <1>1, <2>1 DEF Insert, MemTyped
  <2>4. QED
    BY <1>1, <1>5, <2>1, <2>2, <2>3 DEF MemTyped
<1>7. ActorTyped(t)'
  BY <1>1, <1>3, <1>4
     DEF Sets, ActorsTyped, ActorTyped, TaskTyped, TaskLabel, HasChild, Sess, Child, tree
<1>8. TypeInv'
  BY <1>1, <1>3, <1>4, <1>6, <1>7, WriteTyped
<1>9. QED
  BY <1>1, <1>2, <1>3, <1>4, <1>5, <1>8 DEF Insert, Child

LEMMA PushChildTyped ==
    ASSUME TypeInv, NEW t \in Task, PushChild(t)
    PROVE  /\ TypeInv' /\ pc[t] = "pushChild" /\ UNCHANGED tree /\ UNCHANGED cached
           /\ Sets(t, "run", local[t]) /\ Sess(t) \in Id
           /\ \A i \in Id : ToSet(kids[i]) \subseteq ToSet(kids'[i])
           /\ \A i \in Id : \/ ToSet(kids'[i]) = ToSet(kids[i])
                            \/ i = Sess(t) /\ ToSet(kids'[i]) = ToSet(kids[i]) \cup {Child(t)}
           /\ Sess(t) \in cached => Child(t) \in ToSet(kids'[Sess(t)])
<1> DEFINE p == Sess(t)
           c == Child(t)
<1>1. t \in Actor /\ t \notin Client /\ ActorsTyped /\ TreeTyped /\ MemTyped /\ pc[t] = "pushChild"
  BY Bounds DEF TypeInv, PushChild
<1>2. p \in Id /\ c \in Id
  <2>1. c \in Start .. made - 1 /\ made \in Nat /\ Start \in Nat /\ p \in 0 .. made - 1
    BY <1>1, Bounds DEF ActorsTyped, TaskTyped, HasChild, TreeTyped
  <2>2. c \in 0 .. made - 1
    BY <2>1, Wider
  <2>3. QED
    BY <1>1, <2>1, <2>2, Bounds DEF TreeTyped
<1>3. Sets(t, "run", local[t])
  BY <1>1, GotoSets DEF PushChild
<1>4. TreeTyped' /\ Grows /\ UNCHANGED tree /\ UNCHANGED count
  <2>1. rows' \in SUBSET (0 .. made - 1)
    BY <1>1 DEF TreeTyped, PushChild, tree
  <2>2. QED
    BY <2>1, SameTree DEF PushChild, tree
<1> DEFINE k == IF p \in cached /\ ~Contains(kids[p], c) THEN Append(kids[p], c) ELSE kids[p]
<1>5. kids' = [kids EXCEPT ![p] = k]
  BY <1>1, <1>2 DEF PushChild, Sess, Child, MemTyped
<1>6. /\ k \in Seq(Id) /\ IsInjective(k) /\ ToSet(kids[p]) \subseteq ToSet(k)
      /\ ToSet(k) = ToSet(kids[p]) \/ ToSet(k) = ToSet(kids[p]) \cup {c}
      /\ p \in cached => c \in ToSet(k)
  <2>1. kids[p] \in Seq(Id) /\ IsInjective(kids[p])
    BY <1>1, <1>2 DEF MemTyped
  <2>2. Contains(kids[p], c) <=> c \in ToSet(kids[p])
    BY <2>1, SetOf DEF Contains
  <2>3. /\ ToSet(Append(kids[p], c)) = ToSet(kids[p]) \cup {c}
        /\ IsInjective(Append(kids[p], c)) <=> IsInjective(kids[p]) /\ c \notin ToSet(kids[p])
        /\ Append(kids[p], c) \in Seq(Id)
    BY <1>2, <2>1, SetOfAppend
  <2>4. QED
    BY <2>1, <2>2, <2>3
<1> HIDE DEF k
<1>7. kids'[p] = k /\ kids' \in [Id -> Seq(Id)] /\ \A i \in Id : i # p => kids'[i] = kids[i]
  BY <1>1, <1>2, <1>5, <1>6 DEF MemTyped
<1>8. MemTyped' /\ UNCHANGED cached
  BY <1>1, <1>4, <1>6, <1>7 DEF MemTyped, PushChild, tree
<1>9. ActorTyped(t)'
  BY <1>1, <1>3, <1>4
     DEF Sets, ActorsTyped, ActorTyped, TaskTyped, TaskLabel, HasChild, Sess, Child, tree
<1>10. TypeInv'
  BY <1>1, <1>3, <1>4, <1>8, <1>9, WriteTyped
<1>11. QED
  BY <1>1, <1>2, <1>3, <1>4, <1>6, <1>7, <1>8, <1>10

LEMMA CacheTyped ==
    ASSUME TypeInv, NEW i \in cached \cup rows, CacheFromRow(i), UNCHANGED tree
    PROVE  /\ MemTyped' /\ TreeTyped' /\ Grows /\ cached' = cached \cup {i} /\ i \in Id
           /\ \A j \in Id : \/ kids'[j] = kids[j] /\ (j \in cached <=> j \in cached')
                            \/ /\ j = i /\ i \notin cached /\ i \in rows
                               /\ ToSet(kids'[j]) = Children(j)
<1>1. TreeTyped /\ MemTyped /\ i \in 0 .. made - 1 /\ i \in Id
  BY Bounds DEF TypeInv, TreeTyped, MemTyped
<1>2. TreeTyped' /\ Grows /\ made' = made
  <2>1. rows' \in SUBSET (0 .. made - 1)
    BY <1>1 DEF TreeTyped, tree
  <2>2. QED
    BY <2>1, SameTree DEF tree
<1>3. /\ ChildRows(i) \in Seq(Id) /\ IsInjective(ChildRows(i))
      /\ ToSet(ChildRows(i)) = Children(i)
  BY <1>1, ChildRowsList
<1>4. CASE i \in cached
  BY <1>1, <1>2, <1>4 DEF CacheFromRow, MemTyped
<1>5. CASE i \notin cached
  <2>1. kids'[i] = ChildRows(i) /\ \A j \in Id : j # i => kids'[j] = kids[j]
    BY <1>1, <1>5 DEF CacheFromRow, MemTyped
  <2>2. kids' \in [Id -> Seq(Id)]
    BY <1>1, <1>3, <1>5 DEF CacheFromRow, MemTyped
  <2>3. cached' = cached \cup {i} /\ cached' \in SUBSET (0 .. made' - 1)
    BY <1>1, <1>2 DEF CacheFromRow, MemTyped
  <2>4. QED
    BY <1>1, <1>2, <1>3, <1>5, <2>1, <2>2, <2>3 DEF MemTyped
<1>6. QED
  BY <1>4, <1>5

(* What CacheFromRow leaves in memory.                                     *)
Loads(i) ==
    /\ i \in cached \cup rows /\ i \in Id /\ cached' = cached \cup {i}
    /\ \A j \in Id : \/ kids'[j] = kids[j] /\ (j \in cached <=> j \in cached')
                     \/ j = i /\ i \notin cached /\ i \in rows /\ ToSet(kids'[j]) = Children(j)

LEMMA FindChildTyped ==
    ASSUME TypeInv, NEW t \in Task, FindChild(t)
    PROVE  /\ TypeInv' /\ pc[t] = "run" /\ UNCHANGED tree
           /\ \/ Loads(Child(t)) /\ Sets(t, "saveMessage", local[t])
              \/ UNCHANGED mem /\ Sets(t, "idle", NoLocal)
           /\ \A u \in Task : pc[u] # "idle" => Caller(u) # t
<1>1. t \in Actor /\ t \notin Client /\ ActorsTyped /\ pc[t] = "run" /\ UNCHANGED <<tree, count>>
      /\ \A u \in Task : pc[u] # "idle" => Caller(u) # t
  BY Bounds DEF TypeInv, FindChild, Running, Alone, Caller
<1>2. CASE Return(t) /\ UNCHANGED mem
  <2>1. TypeInv' /\ Sets(t, "idle", NoLocal)
    BY <1>1, <1>2, ReturnSets, ReturnTyped
  <2>2. QED
    BY <1>1, <1>2, <2>1
<1>3. CASE /\ Child(t) \in cached \cup rows /\ CacheFromRow(Child(t))
           /\ Goto(t, "saveMessage") /\ UNCHANGED local
  <2>1. Sets(t, "saveMessage", local[t])
    BY <1>1, <1>3, GotoSets
  <2>2. MemTyped' /\ TreeTyped' /\ Grows /\ Loads(Child(t))
    BY <1>1, <1>3, CacheTyped DEF Loads
  <2>3. ActorTyped(t)'
    BY <1>1, <2>1
       DEF Sets, ActorsTyped, ActorTyped, TaskTyped, TaskLabel, HasChild, Sess, Child, tree
  <2>4. TypeInv'
    BY <1>1, <2>1, <2>2, <2>3, WriteTyped
  <2>5. QED
    BY <1>1, <2>1, <2>2, <2>4
<1>4. QED
  BY <1>2, <1>3 DEF FindChild, Child

LEMMA PersistTyped ==
    ASSUME TypeInv, NEW t \in Task, Persist(t)
    PROVE  /\ TypeInv' /\ pc[t] = "persist" /\ UNCHANGED <<made, parent, chain, mem>>
           /\ Child(t) \in Id /\ rows' = rows \cup {Child(t)} /\ Sets(t, "idle", NoLocal)
<1>1. t \in Actor /\ ActorsTyped /\ TreeTyped /\ MemTyped /\ pc[t] = "persist"
  BY Bounds DEF TypeInv, Persist
<1>2. Child(t) \in 0 .. made - 1 /\ Child(t) \in Id
  <2>1. Child(t) \in Start .. made - 1 /\ made \in Nat /\ Start \in Nat
    BY <1>1, Bounds DEF ActorsTyped, TaskTyped, HasChild, TreeTyped
  <2>2. Child(t) \in 0 .. made - 1
    BY <2>1, Wider
  <2>3. QED
    BY <1>1, <2>2, Bounds DEF TreeTyped
<1>3. rows' = rows \cup {Child(t)} /\ UNCHANGED <<made, parent, chain, mem, count>>
  BY DEF Persist, Child
<1>4. TreeTyped' /\ Grows
  <2>1. rows' \in SUBSET (0 .. made - 1)
    BY <1>1, <1>2, <1>3 DEF TreeTyped
  <2>2. QED
    BY <1>3, <2>1, SameTree
<1>5. MemTyped'
  BY <1>1, <1>3 DEF MemTyped, mem
<1>6. Sets(t, "idle", NoLocal) /\ pc'[t] = "idle" /\ local'[t] = NoLocal
  BY <1>1, ReturnSets DEF Persist, Sets
<1>7. ActorTyped(t)'
  BY <1>1, <1>6, NoLocalTyped
     DEF ActorTyped, TaskTyped, ClientTyped, TaskLabel, ClientLabel, HasChild, DeleteLabel, Child
<1>8. TypeInv'
  BY <1>1, <1>3, <1>4, <1>5, <1>6, <1>7, WriteTyped
<1>9. QED
  BY <1>1, <1>2, <1>3, <1>6, <1>8

LEMMA DeleteRowsTyped ==
    ASSUME TypeInv, NEW c \in Client, DeleteRows(c)
    PROVE  /\ TypeInv' /\ pc[c] = "deleteRows" /\ UNCHANGED <<made, parent, chain, mem>>
           /\ rows' = rows \ Found(c) /\ Sets(c, "evict", local[c])
<1>1. c \in Actor /\ c \notin Task /\ ActorsTyped /\ TreeTyped /\ MemTyped /\ pc[c] = "deleteRows"
  BY Bounds DEF TypeInv, DeleteRows
<1>2. rows' = rows \ Found(c) /\ UNCHANGED <<made, parent, chain, mem, count>>
  BY DEF DeleteRows, Found
<1>3. TreeTyped' /\ Grows
  <2>1. rows' \in SUBSET (0 .. made - 1)
    BY <1>1, <1>2 DEF TreeTyped
  <2>2. QED
    BY <1>2, <2>1, SameTree
<1>4. MemTyped'
  BY <1>1, <1>2 DEF MemTyped, mem
<1>5. Sets(c, "evict", local[c])
  BY <1>1, GotoSets DEF DeleteRows
<1>6. ActorTyped(c)'
  <2>1. Found(c)' = Found(c)
    BY <1>5 DEF Sets, Found
  <2>2. QED
    BY <1>1, <1>2, <1>5, <2>1
       DEF Sets, ActorsTyped, ActorTyped, ClientTyped, ClientLabel, DeleteLabel
<1>7. TypeInv'
  BY <1>1, <1>2, <1>3, <1>4, <1>5, <1>6, WriteTyped
<1>8. QED
  BY <1>1, <1>2, <1>5, <1>7

LEMMA SetOfTail ==
    ASSUME NEW T, NEW s \in Seq(T), s # <<>>
    PROVE  /\ Len(s) \in Nat /\ Len(s) > 0 /\ Head(s) \in ToSet(s)
           /\ Len(s) = 1 => ToSet(s) = {Head(s)}
           /\ Tail(s) \in Seq(T) /\ (Len(s) # 1 => Tail(s) # <<>>)
           /\ ToSet(Tail(s)) \subseteq ToSet(s) /\ ToSet(s) \subseteq ToSet(Tail(s)) \cup {Head(s)}
<1>1. Len(s) \in Nat /\ Len(s) > 0 /\ Head(s) = s[1] /\ 1 \in 1 .. Len(s)
  OBVIOUS
<1>2. /\ Tail(s) \in Seq(T) /\ Len(Tail(s)) = Len(s) - 1
      /\ \A i \in 1 .. Len(s) - 1 : Tail(s)[i] = s[i + 1]
  BY HeadTailProperties
<1> DEFINE r == Tail(s)
<1>3. r \in Seq(T) /\ Len(r) = Len(s) - 1 /\ \A i \in 1 .. Len(s) - 1 : r[i] = s[i + 1]
  BY <1>2
<1> HIDE DEF r
<1>4. /\ ToSet(r) = {r[i] : i \in 1 .. Len(s) - 1}
      /\ ToSet(s) = {s[i] : i \in 1 .. Len(s)}
  BY <1>3, SetOf
<1>5. \A i \in 1 .. Len(s) - 1 : i + 1 \in 1 .. Len(s)
  BY <1>1
<1>6. \A i \in 1 .. Len(s) : i = 1 \/ (i - 1 \in 1 .. Len(s) - 1 /\ (i - 1) + 1 = i)
  BY <1>1
<1>7. ToSet(r) \subseteq ToSet(s)
  BY <1>3, <1>4, <1>5
<1>8. ToSet(s) \subseteq ToSet(r) \cup {s[1]}
  <2>1. ASSUME NEW i \in 1 .. Len(s) PROVE s[i] \in ToSet(r) \cup {s[1]}
    <3>1. CASE i = 1
      BY <3>1
    <3>2. CASE i - 1 \in 1 .. Len(s) - 1 /\ (i - 1) + 1 = i
      <4>1. r[i - 1] = s[i]
        BY <1>3, <3>2
      <4>2. QED
        BY <1>4, <3>2, <4>1
    <3>3. QED
      BY <1>6, <3>1, <3>2
  <2>2. QED
    BY <1>4, <2>1
<1>9. Len(s) = 1 => ToSet(s) = {s[1]}
  BY <1>1, <1>4
<1>10. s[1] \in ToSet(s)
  BY <1>1, <1>4
<1>11. Len(s) # 1 => r # <<>>
  <2>1. r = <<>> => Len(r) = 0
    OBVIOUS
  <2>2. QED
    BY <1>1, <1>3, <2>1
<1>12. QED
  BY <1>1, <1>3, <1>7, <1>8, <1>9, <1>10, <1>11 DEF r

LEMMA EvictTyped ==
    ASSUME TypeInv, NEW c \in Client, Evict(c)
    PROVE  /\ TypeInv' /\ pc[c] = "evict" /\ UNCHANGED tree /\ UNCHANGED kids /\ Still(c)
           /\ \E h \in Found(c) :
                 /\ cached' = cached \ {h}
                 /\ \/ pc'[c] = "idle" /\ Found(c) = {h}
                    \/ /\ pc'[c] = "evict" /\ Found(c)' \subseteq Found(c)
                       /\ Found(c) \subseteq Found(c)' \cup {h}
<1> DEFINE f == local[c].found
<1>1. c \in Actor /\ c \notin Task /\ ActorsTyped /\ TreeTyped /\ MemTyped /\ pc[c] = "evict"
      /\ local[c] \in Locals
  BY Bounds DEF TypeInv, Evict, ActorsTyped
<1>2. f \in Seq(Id) /\ f # <<>> /\ Found(c) \subseteq 0 .. made - 1
  BY <1>1 DEF ActorsTyped, ClientTyped, Locals, DeleteLabel
<1>3. cached' = cached \ {Head(f)} /\ UNCHANGED <<tree, kids, count>>
  BY DEF Evict
<1>4. TreeTyped' /\ Grows /\ MemTyped'
  <2>1. rows' \in SUBSET (0 .. made - 1)
    BY <1>1, <1>3 DEF TreeTyped, tree
  <2>2. TreeTyped' /\ Grows
    BY <1>3, <2>1, SameTree DEF tree
  <2>3. QED
    BY <1>1, <1>3, <2>2 DEF MemTyped, tree
<1>5. /\ Len(f) \in Nat /\ Len(f) > 0 /\ Head(f) \in Found(c)
      /\ Len(f) = 1 => Found(c) = {Head(f)}
      /\ Tail(f) \in Seq(Id) /\ (Len(f) # 1 => Tail(f) # <<>>)
      /\ ToSet(Tail(f)) \subseteq Found(c) /\ Found(c) \subseteq ToSet(Tail(f)) \cup {Head(f)}
  <2> HIDE DEF f
  <2>1. QED
    BY <1>2, SetOfTail DEF Found, f
<1>6. CASE Len(f) = 1 /\ Return(c)
  <2>1. Sets(c, "idle", NoLocal) /\ pc'[c] = "idle" /\ local'[c] = NoLocal
    BY <1>1, <1>6, ReturnSets DEF Sets
  <2>2. ActorTyped(c)'
    BY <1>1, <2>1, NoLocalTyped
       DEF ActorTyped, ClientTyped, ClientLabel, DeleteLabel
  <2>3. TypeInv'
    BY <1>1, <1>3, <1>4, <2>1, <2>2, WriteTyped
  <2>4. Found(c) = {Head(f)}
    BY <1>5, <1>6
  <2>5. QED
    BY <1>1, <1>3, <1>5, <2>1, <2>3, <2>4 DEF Sets
<1>7. CASE Len(f) # 1 /\ local' = [local EXCEPT ![c].found = Tail(@)] /\ UNCHANGED pc
  <2> DEFINE x == [local[c] EXCEPT !.found = Tail(f)]
  <2>1. Tail(f) \in Seq(Id) /\ Tail(f) # <<>>
    BY <1>5, <1>7
  <2>3. x \in Locals /\ x.found = Tail(f)
    <3>1. x \in Locals
      BY <1>1, <2>1, LocalOf
    <3>2. QED
      BY <1>1, <3>1 DEF Locals
  <2>4. Sets(c, pc[c], x)
    <3>1. local' = [local EXCEPT ![c] = x]
      BY <1>1, <1>7 DEF ActorsTyped
    <3> HIDE DEF x
    <3>2. QED
      BY <1>1, <1>7, <3>1, KeepsSets
  <2>5. Found(c)' = ToSet(Tail(f)) /\ local'[c] = x /\ pc'[c] = "evict"
    <3> HIDE DEF x
    <3>1. local'[c] = x /\ pc'[c] = "evict"
      BY <1>1, <2>4 DEF Sets
    <3>2. QED
      BY <2>3, <3>1 DEF Found
  <2>6. Found(c)' \subseteq Found(c) /\ Found(c) \subseteq Found(c)' \cup {Head(f)}
    BY <1>5, <2>5
  <2>7. ActorTyped(c)'
    <3> HIDE DEF x
    <3>1. local'[c].found # <<>> /\ made' = made
      BY <1>3, <2>1, <2>3, <2>5 DEF tree
    <3>2. QED
      BY <1>1, <1>2, <2>3, <2>5, <2>6, <3>1 DEF ActorTyped, ClientTyped, ClientLabel, DeleteLabel
  <2>8. TypeInv'
    <3> HIDE DEF x
    <3>1. QED
      BY <1>1, <1>3, <1>4, <2>4, <2>7, WriteTyped
  <2>9. QED
    BY <1>1, <1>3, <1>5, <2>4, <2>5, <2>6, <2>8 DEF Sets
<1>8. QED
  BY <1>6, <1>7 DEF Evict

LEMMA ExpandTyped ==
    ASSUME NEW node \in Id \X Nat, NEW list \in Seq(Id)
    PROVE  Expand(node, list) \in Seq(Id \X Nat)
<1>1. CASE node[2] = 0
  <2>1. <<>> \in Seq(Id \X Nat)
    OBVIOUS
  <2>2. QED
    BY <1>1, <2>1 DEF Expand
<1>2. CASE node[2] # 0
  <2>1. DOMAIN list = 1 .. Len(list) /\ Len(list) \in Nat /\ \A n \in 1 .. Len(list) : list[n] \in Id
    OBVIOUS
  <2>2. node[2] \in Nat /\ node[2] - 1 \in Nat
    BY <1>2
  <2>3. \A n \in 1 .. Len(list) : <<list[n], node[2] - 1>> \in Id \X Nat
    BY <2>1, <2>2
  <2>4. Expand(node, list) = [n \in 1 .. Len(list) |-> <<list[n], node[2] - 1>>]
    BY <1>2, <2>1 DEF Expand
  <2>5. QED
    BY <2>1, <2>3, <2>4
<1>3. QED
  BY <1>1, <1>2

LEMMA VisitTyped ==
    ASSUME TypeInv, NEW c \in Client, Visit(c)
    PROVE  /\ TypeInv' /\ pc[c] = "visit" /\ UNCHANGED tree /\ Still(c)
           /\ \/ pc'[c] = "visit" /\ \E i \in Id : Loads(i)
              \/ pc'[c] = "failed" /\ UNCHANGED mem
<1> DEFINE k == local[c].stack
           node == Head(k)
           i == node[1]
           list == IF i \in cached THEN kids[i] ELSE ChildRows(i)
           e == Expand(node, list)
<1>1. c \in Actor /\ c \notin Task /\ ActorsTyped /\ TreeTyped /\ MemTyped /\ pc[c] = "visit"
      /\ local[c] \in Locals /\ k \in Seq(Id \X Nat) /\ k # <<>> /\ UNCHANGED <<tree, count>>
  BY Bounds DEF TypeInv, Visit, ActorsTyped, ClientTyped
<1>2. node \in Id \X Nat /\ i \in Id /\ Tail(k) \in Seq(Id \X Nat)
  <2>1. node \in Id \X Nat /\ Tail(k) \in Seq(Id \X Nat)
    BY <1>1, HeadTailProperties
  <2> HIDE DEF node
  <2>2. QED
    BY <2>1
<1>3. list \in Seq(Id)
  BY <1>1, <1>2, ChildRowsList DEF MemTyped
<1> HIDE DEF list
<1>4. e \in Seq(Id \X Nat)
  BY <1>2, <1>3, ExpandTyped
<1>5. CASE Goto(c, "failed") /\ UNCHANGED <<mem, local>>
  <2>1. Sets(c, "failed", local[c])
    BY <1>1, <1>5, GotoSets
  <2>2. CountTyped'
    BY <1>1 DEF TypeInv, CountTyped, count
  <2>3. ActorTyped(c)'
    BY <1>1, <2>1 DEF Sets, ActorTyped, ClientTyped, ClientLabel, DeleteLabel
  <2>4. TypeInv'
    BY <1>1, <1>5, <2>1, <2>2, <2>3, QuietTyped
  <2>5. QED
    BY <1>1, <1>5, <2>1, <2>4 DEF Sets
<1>6. CASE /\ i \in cached \cup rows /\ CacheFromRow(i)
           /\ local' = [local EXCEPT ![c].found = Append(@, i), ![c].stack = e \o Tail(k)]
           /\ UNCHANGED pc
  <2> DEFINE f == Append(local[c].found, i)
             g == e \o Tail(k)
             x == [local[c] EXCEPT !.found = f, !.stack = g]
  <2>1. f \in Seq(Id) /\ g \in Seq(Id \X Nat)
    <3>1. local[c].found \in Seq(Id)
      BY <1>1 DEF Locals
    <3> HIDE DEF i, e
    <3>2. QED
      BY <1>2, <1>4, <3>1, ConcatProperties
  <2>2. local' = [local EXCEPT ![c] = x]
    BY <1>1, <1>6 DEF ActorsTyped
  <2> HIDE DEF f, g
  <2>3. x \in Locals /\ x.stack = g
    <3>1. g \in Stacks
      BY <2>1 DEF Stacks
    <3>2. x \in Locals
      BY <1>1, <2>1, <3>1, LocalOf
    <3>3. QED
      BY <1>1, <3>2 DEF Locals
  <2> HIDE DEF x
  <2>4. Sets(c, pc[c], x)
    BY <1>1, <1>6, <2>2, KeepsSets
  <2>5. MemTyped' /\ TreeTyped' /\ Grows /\ Loads(i)
    BY <1>1, <1>6, CacheTyped DEF Loads
  <2>6. ActorTyped(c)'
    BY <1>1, <2>1, <2>3, <2>4 DEF Sets, ActorTyped, ClientTyped, ClientLabel, DeleteLabel
  <2>7. TypeInv'
    BY <1>1, <2>4, <2>5, <2>6, WriteTyped
  <2>8. QED
    BY <1>1, <1>2, <2>4, <2>5, <2>7 DEF Sets
<1>7. QED
  BY <1>5, <1>6 DEF Visit, list

LEMMA AllStayTyped ==
    ASSUME TypeInv, Grows, UNCHANGED <<pc, local>>
    PROVE  ActorsTyped'
<1>1. \A a \in Actor : ActorTyped(a)'
  BY ActorsAll, StaysTyped DEF TypeInv
<1>2. QED
  BY <1>1, Bounds DEF TypeInv, ActorsTyped, ActorTyped

LEMMA CopyTyped ==
    ASSUME TypeInv, NEW c \in Client, NEW i \in Id, Copy(c, i)
    PROVE  /\ TypeInv' /\ UNCHANGED <<pc, local>> /\ Makes(NoId, <<>>)
           /\ i \in cached \cup rows /\ cached' = cached \cup {made, i}
           /\ \A j \in Id : IF j = i /\ i \notin cached THEN ToSet(kids'[j]) = Children(j)
                                                       ELSE kids'[j] = kids[j]
<1>1. TreeTyped /\ MemTyped /\ UNCHANGED <<parent, pc, local>> /\ i \in cached \cup rows
      /\ made < MaxSessions
  BY DEF TypeInv, Copy
<1>2. made \in Id /\ parent[made] = NoId
  <2>1. made \in Id /\ ~(made < made)
    BY <1>1, Bounds DEF TreeTyped
  <2>2. QED
    BY <1>1, <2>1 DEF TreeTyped, Older
<1>3. Makes(NoId, <<>>)
  <2>1. parent' = [parent EXCEPT ![made] = NoId]
    BY <1>1, <1>2 DEF TreeTyped
  <2>2. QED
    BY <1>2, <2>1 DEF Copy, Makes
<1>4. TreeTyped' /\ Grows /\ made \in Start .. made' - 1 /\ made \in Nat
      /\ \A j \in 0 .. made - 1 : j \in 0 .. made' - 1
  <2>1. <<>> \in Seq(Id)
    OBVIOUS
  <2>2. QED
    BY <1>1, <1>3, <2>1, MakesTyped
<1>5. cached' = cached \cup {made, i} /\ i \in 0 .. made - 1
  BY <1>1 DEF Copy, TreeTyped, MemTyped
<1>6. /\ ChildRows(i) \in Seq(Id) /\ IsInjective(ChildRows(i))
      /\ ToSet(ChildRows(i)) = Children(i)
  BY <1>1, ChildRowsList
<1>7. /\ kids' \in [Id -> Seq(Id)]
      /\ \A j \in Id : kids'[j] = IF j = i /\ i \notin cached THEN ChildRows(i) ELSE kids[j]
  BY <1>1, <1>6 DEF Copy, MemTyped
<1>8. MemTyped'
  <2>1. made \in 0 .. made' - 1
    BY <1>4, Bounds DEF Makes
  <2>2. cached' \in SUBSET (0 .. made' - 1)
    BY <1>1, <1>4, <1>5, <2>1 DEF MemTyped
  <2>3. QED
    BY <1>1, <1>6, <1>7, <2>2 DEF MemTyped
<1>9. CountTyped'
  BY Bounds, SessionTreeAssumption DEF Copy, TypeInv, CountTyped
<1>10. ActorsTyped'
  BY <1>1, <1>4, AllStayTyped
<1>11. QED
  BY <1>1, <1>3, <1>4, <1>5, <1>6, <1>7, <1>8, <1>9, <1>10 DEF TypeInv

LEMMA CrashTyped ==
    ASSUME TypeInv, Crash
    PROVE  /\ TypeInv' /\ UNCHANGED tree /\ cached' = rows
           /\ \A a \in Actor : pc'[a] = "idle" /\ local'[a] = NoLocal
           /\ \A i \in Id : ToSet(kids'[i]) = Children(i)
<1>1. TreeTyped /\ UNCHANGED tree /\ cached' = rows /\ kids' = [i \in Id |-> ChildRows(i)]
  BY DEF TypeInv, Crash
<1>2. TreeTyped' /\ Grows
  <2>1. rows' \in SUBSET (0 .. made - 1)
    BY <1>1 DEF TreeTyped, tree
  <2>2. QED
    BY <1>1, <2>1, SameTree DEF tree
<1>3. \A i \in Id : /\ kids'[i] \in Seq(Id) /\ IsInjective(kids'[i])
                    /\ ToSet(kids'[i]) = Children(i)
  BY <1>1, ChildRowsList
<1>4. MemTyped'
  <2>1. kids' \in [Id -> Seq(Id)]
    BY <1>1, <1>3
  <2>2. QED
    BY <1>1, <1>3, <2>1 DEF MemTyped, TreeTyped, tree
<1>5. CountTyped'
  BY Bounds, SessionTreeAssumption DEF Crash, TypeInv, CountTyped
<1>6. \A a \in Actor : pc'[a] = "idle" /\ local'[a] = NoLocal
  BY DEF Crash
<1>7. ActorsTyped'
  <2>1. \A a \in Actor : ActorTyped(a)'
    BY <1>6, NoLocalTyped
       DEF ActorTyped, TaskTyped, ClientTyped, TaskLabel, ClientLabel, HasChild, DeleteLabel, Child
  <2>2. /\ pc' \in [Actor -> TaskLabel \cup ClientLabel]
        /\ local' \in [Actor -> Locals]
    BY <1>6, NoLocalTyped DEF Crash, TaskLabel
  <2>3. QED
    BY <2>1, <2>2, Bounds DEF ActorsTyped, ActorTyped
<1>8. QED
  BY <1>1, <1>2, <1>3, <1>4, <1>5, <1>6, <1>7 DEF TypeInv

(***************************************************************************)
(* Every step keeps the types.                                             *)
(***************************************************************************)
LEMMA InitTyped == Init => TypeInv
<1> SUFFICES ASSUME Init PROVE TypeInv
  OBVIOUS
<1>1. made = Start /\ made \in Nat /\ made >= 1 /\ made <= MaxSessions /\ MaxSessions \in Nat
      /\ 0 .. made - 1 \subseteq Id
  <2>1. made = Start /\ made \in Nat /\ made >= 1 /\ made <= MaxSessions /\ MaxSessions \in Nat
    BY Bounds DEF Init
  <2>2. made \in Start .. MaxSessions
    BY <2>1
  <2>3. QED
    BY <2>1, <2>2, Bounds
<1>2. TreeTyped
  <2>1. ASSUME NEW i \in Id
        PROVE  /\ parent[i] \in Id \cup {NoId}
               /\ parent[i] = NoId \/ (parent[i] \in 0 .. i - 1 /\ i < made)
    <3>1. CASE i \in 1 .. Start - 1
      <4>1. parent[i] = i - 1 /\ i - 1 \in 0 .. i - 1 /\ i < made /\ i - 1 \in 0 .. made - 1
        BY <1>1, <3>1 DEF Init
      <4>2. QED
        BY <1>1, <4>1
    <3>2. CASE i \notin 1 .. Start - 1
      BY <3>2 DEF Init
    <3>3. QED
      BY <3>1, <3>2
  <2>2. parent \in [Id -> Id \cup {NoId}] /\ Older(parent, made)
    <3>1. parent = [i \in Id |-> parent[i]]
      BY DEF Init
    <3>2. QED
      BY <2>1, <3>1 DEF Older
  <2>3. chain \in [Id -> Seq(Id) \cup {NoChain}]
    <3>1. PICK k \in 0 .. Start :
             chain = [i \in Id |-> IF i < k \/ i >= Start THEN NoChain ELSE [n \in 1 .. i |-> n - 1]]
      BY DEF Init
    <3>2. ASSUME NEW i \in Id, ~(i >= Start) PROVE [n \in 1 .. i |-> n - 1] \in Seq(Id)
      <4>1. i \in Nat /\ i < made
        BY <1>1, <3>2, Bounds
      <4>2. ASSUME NEW n \in 1 .. i PROVE n - 1 \in Id
        <5>1. n - 1 \in 0 .. made - 1
          BY <1>1, <4>1
        <5>2. QED
          BY <1>1, <5>1
      <4>3. QED
        BY <4>1, <4>2
    <3>3. QED
      BY <3>1, <3>2
  <2>4. QED
    BY <1>1, <2>2, <2>3 DEF TreeTyped, Init
<1>3. MemTyped
  <2>1. \A i \in Id : i + 1 < Start => i + 1 \in Id
    BY Bounds
  <2>2. <<>> \in Seq(Id) /\ IsInjective(<<>>)
    BY DEF IsInjective
  <2>3. \A x \in Id : <<x>> \in Seq(Id) /\ IsInjective(<<x>>)
    BY DEF IsInjective
  <2>4. ASSUME NEW i \in Id PROVE kids[i] \in Seq(Id) /\ IsInjective(kids[i])
    <3>1. kids[i] = IF i + 1 < Start THEN <<i + 1>> ELSE <<>>
      BY DEF Init
    <3>2. QED
      BY <2>1, <2>2, <2>3, <3>1
  <2>5. kids = [i \in Id |-> kids[i]] /\ cached \in SUBSET (0 .. made - 1)
    BY <1>1 DEF Init
  <2>6. QED
    BY <2>4, <2>5 DEF MemTyped
<1>4. CountTyped
  BY SessionTreeAssumption DEF Init, CountTyped
<1>5. ActorsTyped
  <2>1. \A a \in Actor : pc[a] = "idle" /\ local[a] = NoLocal
    BY DEF Init
  <2>2. \A a \in Actor : ActorTyped(a)
    BY <2>1, NoLocalTyped
       DEF ActorTyped, TaskTyped, ClientTyped, TaskLabel, ClientLabel, HasChild, DeleteLabel, Child
  <2>3. /\ pc \in [Actor -> TaskLabel \cup ClientLabel]
        /\ local \in [Actor -> Locals]
    BY NoLocalTyped DEF Init, TaskLabel
  <2>4. QED
    BY <2>2, <2>3, ActorsAll
<1>6. QED
  BY <1>2, <1>3, <1>4, <1>5 DEF TypeInv

LEMMA TypeStep == TypeInv /\ [Next]_vars => TypeInv'
<1> SUFFICES ASSUME TypeInv, [Next]_vars PROVE TypeInv'
  OBVIOUS
<1>1. CASE UNCHANGED vars
  BY <1>1 DEF vars, tree, mem, count, TypeInv, TreeTyped, MemTyped, CountTyped, ActorsTyped,
              TaskTyped, ClientTyped, Older, Sess, Child, Found
<1>2. ASSUME NEW t \in Task, Step(t) PROVE TypeInv'
  BY <1>2, ResolveRootTyped, ResolveChainTyped, SaveRowTyped, InsertTyped, PushChildTyped,
     TurnFailsTyped, FindChildTyped, SaveMessageTyped, PersistTyped, DropTyped DEF Step
<1>3. ASSUME NEW t \in Task, NEW u \in (Task \ {t}) \cup {Turn}, NEW s \in Id, Spawn(t, u, s)
      PROVE  TypeInv'
  BY <1>3, SpawnTyped
<1>4. ASSUME NEW c \in Client, Request(c) PROVE TypeInv'
  BY <1>4, DeleteTyped, DeleteTreeTyped, GetTreeTyped, CopyTyped, CollectTyped, CollectedTyped,
     DeleteRowsTyped, EvictTyped, VisitTyped, AnsweredTyped DEF Request
<1>5. CASE Crash
  BY <1>5, CrashTyped
<1>6. QED
  BY <1>1, <1>2, <1>3, <1>4, <1>5 DEF Next

(***************************************************************************)
(* Calls.  No two sub-agents have one child; one that runs for a session a  *)
(* sub-agent made was called by it, and it waits; nothing is below a child  *)
(* that its parent does not list yet.                                      *)
(***************************************************************************)
New == {"insert", "pushChild"}
CallInv ==
    /\ \A t, u \in Task : t # u /\ Child(t) # NoId => Child(t) # Child(u)
    /\ \A t, u \in Task : pc[t] # "idle" /\ pc[u] \in HasChild /\ Child(u) = Sess(t)
                          => Caller(t) = u /\ pc[u] = "run"
    /\ \A t \in Task : pc[t] \in New => \A i \in Id : parent[i] # Child(t)

(* Every task goes on, or is where it was, or is idle.                      *)
Calm ==
    \A t \in Task : \/ pc'[t] = pc[t] /\ local'[t] = local[t]
                    \/ pc'[t] = "idle" /\ local'[t] = NoLocal

LEMMA CalmCalls == ASSUME TypeInv, CallInv, Calm, UNCHANGED parent PROVE CallInv'
<1>1. \A t \in Task : \/ pc'[t] = pc[t] /\ local'[t] = local[t]
                      \/ pc'[t] = "idle" /\ Child(t)' = NoId
  BY NoLocalTyped DEF Calm, Child
<1>2. ASSUME NEW t \in Task, NEW u \in Task, t # u, Child(t)' # NoId PROVE Child(t)' # Child(u)'
  BY <1>1, <1>2 DEF CallInv, Child
<1>3. ASSUME NEW t \in Task, NEW u \in Task, pc'[t] # "idle", pc'[u] \in HasChild,
             Child(u)' = Sess(t)'
      PROVE  Caller(t)' = u /\ pc'[u] = "run"
  BY <1>1, <1>3 DEF CallInv, Child, Sess, Caller, HasChild
<1>4. ASSUME NEW t \in Task, pc'[t] \in New PROVE \A i \in Id : parent'[i] # Child(t)'
  BY <1>1, <1>4 DEF CallInv, Child, New
<1>5. QED
  BY <1>2, <1>3, <1>4 DEF CallInv

LEMMA SetsCalm ==
    ASSUME NEW a \in Actor, Sets(a, "idle", NoLocal)
    PROVE  Calm
BY Bounds DEF Sets, Still, Calm

LEMMA ClientCalm ==
    ASSUME NEW c \in Client, Still(c)
    PROVE  Calm
BY Bounds DEF Still, Calm

(* A call that goes on keeps its session and child.                         *)
LEMMA GoesOnCalls ==
    ASSUME TypeInv, CallInv, NEW t \in Task, NEW l, Sets(t, l, local[t]), UNCHANGED parent,
           pc[t] # "run" \/ \A u \in Task : pc[u] # "idle" => Caller(u) # t,
           l \in HasChild => pc[t] \in HasChild, l \in New => pc[t] \in New, pc[t] # "idle"
    PROVE  CallInv'
<1>1. pc'[t] = l /\ local'[t] = local[t]
      /\ \A u \in Task : u # t => pc'[u] = pc[u] /\ local'[u] = local[u]
  BY Bounds DEF Sets, Still
<1>2. \A u \in Task : Child(u)' = Child(u) /\ Sess(u)' = Sess(u) /\ Caller(u)' = Caller(u)
  BY <1>1 DEF Child, Sess, Caller
<1>3. ASSUME NEW u \in Task, NEW v \in Task, pc'[u] # "idle", pc'[v] \in HasChild,
             Child(v) = Sess(u)
      PROVE  Caller(u) = v /\ pc'[v] = "run"
  <2>1. pc[u] # "idle" /\ pc[v] \in HasChild
    BY <1>1, <1>3
  <2>2. Caller(u) = v /\ pc[v] = "run"
    BY <1>3, <2>1 DEF CallInv
  <2>3. QED
    BY <1>1, <2>1, <2>2
<1>4. ASSUME NEW u \in Task, pc'[u] \in New PROVE \A i \in Id : parent'[i] # Child(u)
  BY <1>1, <1>4 DEF CallInv
<1>5. QED
  BY <1>2, <1>3, <1>4 DEF CallInv

LEMMA ChildBelow ==
    ASSUME TypeInv, NEW t \in Task
    PROVE  /\ Child(t) = NoId \/ (Child(t) \in Id /\ Child(t) < made /\ Child(t) >= Start)
           /\ pc[t] # "idle" => Sess(t) \in Id /\ Sess(t) < made
           /\ made \in Nat /\ (made \in Id \/ made = NoId)
<1>1. TreeTyped /\ TaskTyped(t) /\ made \in Nat /\ Start \in Nat /\ 0 .. made - 1 \subseteq Id
      /\ made <= MaxSessions
  <2>1. TreeTyped /\ TaskTyped(t) /\ made \in Start .. MaxSessions
    BY DEF TypeInv, ActorsTyped, TreeTyped
  <2>2. QED
    BY <2>1, Bounds
<1>2. ASSUME pc[t] \in HasChild PROVE Child(t) \in Id /\ Child(t) < made /\ Child(t) >= Start
  <2>1. Child(t) \in Start .. made - 1
    BY <1>1, <1>2 DEF TaskTyped
  <2>2. Child(t) \in 0 .. made - 1 /\ Child(t) < made /\ Child(t) >= Start
    BY <1>1, <2>1
  <2>3. QED
    BY <1>1, <2>2
<1>3. ASSUME pc[t] # "idle" PROVE Sess(t) \in Id /\ Sess(t) < made
  <2>1. Sess(t) \in 0 .. made - 1
    BY <1>1, <1>3 DEF TaskTyped
  <2>2. QED
    BY <1>1, <2>1
<1>4. made \in Id \/ made = NoId
  BY <1>1, Bounds DEF NoId
<1>5. QED
  BY <1>1, <1>2, <1>3, <1>4 DEF TaskTyped

LEMMA SpawnCalls ==
    ASSUME TypeInv, CallInv, NEW t \in Task, NEW u \in (Task \ {t}) \cup {Turn}, NEW s \in Id,
           Spawn(t, u, s)
    PROVE  /\ CallInv'
           /\ pc'[t] = "resolveRoot" /\ Child(t)' = NoId /\ Child(t) = NoId /\ Sess(t)' = s
           /\ \A v \in Task : v # t => pc'[v] = pc[v] /\ local'[v] = local[v]
           /\ \/ s < Start /\ s \in cached
              \/ \E v \in Task : pc[v] = "run" /\ s = Child(v)
<1> DEFINE x == [local[t] EXCEPT !.caller = u, !.session = s]
<1>1. /\ Sets(t, "resolveRoot", x) /\ pc[t] = "idle" /\ local[t] = NoLocal
      /\ \/ s < Start /\ s \in cached
         \/ u \in Task /\ pc[u] = "run" /\ s = Child(u)
  BY SpawnDoes
<1>2. x.session = s /\ x.caller = u /\ x.child = NoId
  BY <1>1 DEF NoLocal
<1> HIDE DEF x
<1>3. /\ pc'[t] = "resolveRoot" /\ local'[t] = x
      /\ \A v \in Task : v # t => pc'[v] = pc[v] /\ local'[v] = local[v]
  BY <1>1, Bounds DEF Sets, Still
<1>4. /\ Child(t)' = NoId /\ Child(t) = NoId /\ Sess(t)' = s /\ Caller(t)' = u
      /\ \A v \in Task : v # t => Child(v)' = Child(v) /\ Sess(v)' = Sess(v) /\ Caller(v)' = Caller(v)
  BY <1>1, <1>2, <1>3, NoLocalTyped DEF Child, Sess, Caller
<1>5. UNCHANGED parent
  BY DEF Spawn, tree
<1>6. ASSUME NEW v \in Task, pc'[v] \in HasChild, Child(v)' = s PROVE u = v /\ pc'[v] = "run"
  <2>1. v # t /\ pc[v] \in HasChild /\ Child(v) = s
    BY <1>3, <1>4, <1>6 DEF HasChild
  <2>2. Child(v) \in Id /\ Child(v) >= Start /\ Child(v) # NoId
    BY <2>1, ChildBelow, Bounds
  <2>3. ~(s < Start)
    BY <2>1, <2>2, Bounds
  <2>4. u \in Task /\ pc[u] = "run" /\ s = Child(u)
    BY <1>1, <2>3
  <2>5. u = v
    BY <2>1, <2>2, <2>4 DEF CallInv
  <2>6. QED
    BY <1>3, <2>1, <2>4, <2>5
<1>7. ASSUME NEW v \in Task, NEW w \in Task, pc'[v] # "idle", pc'[w] \in HasChild, Child(w)' = Sess(v)'
      PROVE  Caller(v)' = w /\ pc'[w] = "run"
  <2>1. CASE v = t
    BY <1>4, <1>6, <1>7, <2>1
  <2>2. CASE v # t
    <3>1. w # t
      BY <1>3, <1>7 DEF HasChild
    <3>2. QED
      BY <1>3, <1>4, <1>7, <2>2, <3>1 DEF CallInv
  <2>3. QED
    BY <2>1, <2>2
<1>8. ASSUME NEW v \in Task, NEW w \in Task, v # w, Child(v)' # NoId PROVE Child(v)' # Child(w)'
  BY <1>4, <1>8 DEF CallInv
<1>9. ASSUME NEW v \in Task, pc'[v] \in New PROVE \A i \in Id : parent'[i] # Child(v)'
  BY <1>3, <1>4, <1>5, <1>9 DEF CallInv, New
<1>10. CallInv'
  BY <1>7, <1>8, <1>9 DEF CallInv
<1>11. QED
  BY <1>1, <1>3, <1>4, <1>10

LEMMA SaveRowCalls ==
    ASSUME TypeInv, CallInv, NEW t \in Task, SaveRow(t)
    PROVE  CallInv'
<1>1. /\ pc[t] = "saveRow" /\ Sess(t) \in 0 .. made - 1 /\ TreeTyped
      /\ Makes(Sess(t), local[t].chain) /\ local[t].chain \in Seq(Id)
      /\ pc'[t] = "insert" /\ Child(t)' = made /\ Sess(t)' = Sess(t) /\ Caller(t)' = Caller(t)
      /\ \A v \in Task : v # t => pc'[v] = pc[v] /\ local'[v] = local[v]
  BY SaveRowTyped, Bounds DEF Sets, Still, TypeInv
<1>2. /\ made \in Nat /\ made \in Id /\ made \notin rows /\ parent'[made] = Sess(t)
      /\ \A i \in Id : i # made => parent'[i] = parent[i]
  BY <1>1, MakesTyped
<1>3. \A v \in Task : v # t => Child(v)' = Child(v) /\ Sess(v)' = Sess(v) /\ Caller(v)' = Caller(v)
  BY <1>1 DEF Child, Sess, Caller
<1>4. \A v \in Task : Child(v) # made /\ (pc[v] # "idle" => Sess(v) # made)
  <2>1. TAKE v \in Task
  <2>2. \A i \in Id : i \in Nat /\ (i < made => i # made)
    BY <1>2, Bounds
  <2>3. QED
    BY <1>2, <2>2, ChildBelow, Bounds
<1>5. \A i \in Id : parent[i] # made
  <2>1. TAKE i \in Id
  <2>2. i \in Nat /\ made # NoId
    BY <1>2, Bounds
  <2>3. parent[i] = NoId \/ (parent[i] \in 0 .. i - 1 /\ i < made)
    BY <1>1 DEF TreeTyped, Older
  <2>4. QED
    BY <1>2, <2>2, <2>3
<1>6. ASSUME NEW v \in Task, NEW w \in Task, v # w, Child(v)' # NoId PROVE Child(v)' # Child(w)'
  <2>1. CASE v = t
    BY <1>1, <1>3, <1>4, <1>6, <2>1
  <2>2. CASE w = t
    BY <1>1, <1>3, <1>4, <1>6, <2>2
  <2>3. CASE v # t /\ w # t
    BY <1>3, <1>6, <2>3 DEF CallInv
  <2>4. QED
    BY <2>1, <2>2, <2>3
<1>7. \A v \in Task : (pc'[v] # "idle" => pc[v] # "idle") /\ Sess(v)' = Sess(v) /\ Caller(v)' = Caller(v)
  BY <1>1, <1>3
<1>8. ASSUME NEW v \in Task, NEW w \in Task, pc'[v] # "idle", pc'[w] \in HasChild, Child(w)' = Sess(v)'
      PROVE  Caller(v)' = w /\ pc'[w] = "run"
  <2>1. w # t
    BY <1>1, <1>4, <1>7, <1>8
  <2>2. QED
    BY <1>1, <1>3, <1>7, <1>8, <2>1 DEF CallInv
<1>9. ASSUME NEW v \in Task, pc'[v] \in New, NEW i \in Id PROVE parent'[i] # Child(v)'
  <2>1. CASE v = t
    <3>1. Sess(t) # made
      BY <1>1, <1>4
    <3>2. QED
      BY <1>1, <1>2, <1>5, <2>1, <3>1
  <2>2. CASE v # t
    <3>1. pc[v] \in New /\ Child(v)' = Child(v) /\ pc[v] \in HasChild /\ pc[v] # "run"
      BY <1>1, <1>3, <1>9, <2>2 DEF New, HasChild
    <3>2. Sess(t) # Child(v)
      BY <1>1, <3>1 DEF CallInv
    <3>3. QED
      BY <1>2, <3>1, <3>2 DEF CallInv
  <2>3. QED
    BY <2>1, <2>2
<1>10. QED
  BY <1>6, <1>8, <1>9 DEF CallInv

(* The steps of a client leave the tasks where they are.                    *)
LEMMA RequestCalm ==
    ASSUME TypeInv, NEW c \in Client, Request(c)
    PROVE  /\ Calm /\ UNCHANGED parent /\ Still(c)
           /\ \A t \in Task : pc'[t] = pc[t] /\ local'[t] = local[t]
<1>1. Still(c) /\ UNCHANGED parent
  <2>1. c \in Actor /\ ActorsTyped
    BY Bounds DEF TypeInv
  <2>2. ASSUME UNCHANGED <<pc, local>> PROVE Still(c)
    BY <2>2 DEF Still
  <2>3. ASSUME NEW i \in Id, Delete(c, i) PROVE Still(c) /\ UNCHANGED parent
    BY <2>2, <2>3, DeleteTyped DEF Sets, tree
  <2>4. ASSUME NEW i \in Id, DeleteTree(c, i) PROVE Still(c) /\ UNCHANGED parent
    BY <2>4, DeleteTreeTyped DEF tree
  <2>5. ASSUME NEW i \in Id, GetTree(c, i) PROVE Still(c) /\ UNCHANGED parent
    BY <2>5, GetTreeTyped DEF tree
  <2>6. ASSUME NEW i \in Id, Copy(c, i) PROVE Still(c) /\ UNCHANGED parent
    BY <2>2, <2>6 DEF Copy
  <2>7. ASSUME Collect(c) \/ Collected(c) PROVE Still(c) /\ UNCHANGED parent
    BY <2>7, CollectTyped, CollectedTyped DEF Sets, tree
  <2>8. ASSUME DeleteRows(c) \/ Evict(c) PROVE Still(c) /\ UNCHANGED parent
    BY <2>8, DeleteRowsTyped, EvictTyped DEF Sets, tree
  <2>9. ASSUME Visit(c) \/ Answered(c) PROVE Still(c) /\ UNCHANGED parent
    BY <2>9, VisitTyped, AnsweredTyped DEF Sets, tree
  <2>10. QED
    BY <2>3, <2>4, <2>5, <2>6, <2>7, <2>8, <2>9 DEF Request
<1>2. QED
  BY <1>1, Bounds DEF Still, Calm

LEMMA InitCalls == Init => CallInv
<1> SUFFICES ASSUME Init PROVE CallInv
  OBVIOUS
<1>1. \A t \in Task : pc[t] = "idle" /\ Child(t) = NoId
  BY Bounds, NoLocalTyped DEF Init, Child
<1>2. QED
  BY <1>1 DEF CallInv, HasChild, New

LEMMA CallStep == TypeInv /\ CallInv /\ [Next]_vars => CallInv'
<1> SUFFICES ASSUME TypeInv, CallInv, [Next]_vars PROVE CallInv'
  OBVIOUS
<1>1. CASE UNCHANGED vars
  BY <1>1 DEF vars, tree, CallInv, Child, Sess, Caller
<1>2. ASSUME NEW t \in Task, ResolveRoot(t) \/ ResolveChain(t) PROVE CallInv'
  <2>1. UNCHANGED parent /\ pc[t] # "idle" /\ pc[t] # "run" /\ t \in Actor
    BY <1>2, Bounds DEF ResolveRoot, ResolveChain, tree
  <2>2. CASE Sets(t, "idle", NoLocal)
    BY <2>1, <2>2, SetsCalm, CalmCalls
  <2>3. CASE Sets(t, "resolveChain", local[t])
    BY <2>1, <2>3, GoesOnCalls DEF HasChild, New
  <2>4. CASE ResolveChain(t) /\ Sets(t, "saveRow", [local[t] EXCEPT !.chain = ChainUnder(Sess(t))])
    <3> DEFINE x == [local[t] EXCEPT !.chain = ChainUnder(Sess(t))]
    <3>1. ChainUnder(Sess(t)) \in Seq(Id)
      BY <2>4, ResolveChainTyped, ChainUnderTyped DEF TypeInv
    <3>2. local[t] \in Locals /\ pc[t] = "resolveChain"
      BY <2>1, <2>4 DEF TypeInv, ActorsTyped, ResolveChain
    <3>3. x.child = Child(t) /\ x.session = Sess(t) /\ x.caller = Caller(t)
      BY <3>2 DEF Locals, Child, Sess, Caller
    <3> HIDE DEF x
    <3>4. pc'[t] = "saveRow" /\ local'[t] = x
          /\ \A u \in Task : u # t => pc'[u] = pc[u] /\ local'[u] = local[u]
      BY <2>4, Bounds DEF Sets, Still, x
    <3>5. \A u \in Task : /\ Child(u)' = Child(u) /\ Sess(u)' = Sess(u) /\ Caller(u)' = Caller(u)
                          /\ u # t => pc'[u] = pc[u]
      BY <3>3, <3>4 DEF Child, Sess, Caller
    <3>6. QED
      BY <2>1, <3>2, <3>4, <3>5 DEF CallInv, HasChild, New
  <2>5. QED
    BY <1>2, <2>2, <2>3, <2>4, ResolveRootTyped, ResolveChainTyped
<1>3. ASSUME NEW t \in Task, SaveRow(t) PROVE CallInv'
  BY <1>3, SaveRowCalls
<1>4. ASSUME NEW t \in Task, Insert(t) PROVE CallInv'
  BY <1>4, InsertTyped, GoesOnCalls DEF HasChild, New, tree
<1>5. ASSUME NEW t \in Task, PushChild(t) PROVE CallInv'
  BY <1>5, PushChildTyped, GoesOnCalls DEF HasChild, New, tree
<1>6. ASSUME NEW t \in Task, TurnFails(t) PROVE CallInv'
  BY <1>6, TurnFailsTyped, SetsCalm, CalmCalls, Bounds DEF TurnFails, tree
<1>7. ASSUME NEW t \in Task, FindChild(t) PROVE CallInv'
  <2>1. UNCHANGED parent /\ pc[t] = "run" /\ t \in Actor
        /\ \A u \in Task : pc[u] # "idle" => Caller(u) # t
    BY <1>7, FindChildTyped, Bounds DEF tree
  <2>2. CASE Sets(t, "idle", NoLocal)
    BY <2>1, <2>2, SetsCalm, CalmCalls
  <2>3. CASE Sets(t, "saveMessage", local[t])
    BY <2>1, <2>3, GoesOnCalls DEF HasChild, New
  <2>4. QED
    BY <1>7, <2>2, <2>3, FindChildTyped
<1>8. ASSUME NEW t \in Task, SaveMessage(t) PROVE CallInv'
  <2>1. UNCHANGED parent /\ pc[t] = "saveMessage" /\ t \in Actor
    BY <1>8, Bounds DEF SaveMessage, tree
  <2>2. CASE Sets(t, "idle", NoLocal)
    BY <2>1, <2>2, SetsCalm, CalmCalls
  <2>3. CASE Sets(t, "persist", local[t])
    BY <2>1, <2>3, GoesOnCalls DEF HasChild, New
  <2>4. QED
    BY <1>8, <2>2, <2>3, SaveMessageTyped
<1>9. ASSUME NEW t \in Task, Persist(t) PROVE CallInv'
  BY <1>9, PersistTyped, SetsCalm, CalmCalls, Bounds
<1>10. ASSUME NEW t \in Task, Drop(t) PROVE CallInv'
  <2>1. Calm /\ UNCHANGED parent
    BY <1>10, DropTyped, Bounds DEF Calm, tree
  <2>2. QED
    BY <2>1, CalmCalls
<1>11. ASSUME NEW t \in Task, NEW u \in (Task \ {t}) \cup {Turn}, NEW s \in Id, Spawn(t, u, s)
       PROVE  CallInv'
  BY <1>11, SpawnCalls
<1>12. ASSUME NEW c \in Client, Request(c) PROVE CallInv'
  <2>1. Calm /\ UNCHANGED parent
    BY <1>12, RequestCalm
  <2>2. QED
    BY <2>1, CalmCalls
<1>13. CASE Crash
  <2>1. Calm /\ UNCHANGED parent
    BY <1>13, CrashTyped, Bounds DEF Calm, tree
  <2>2. QED
    BY <2>1, CalmCalls
<1>14. QED
  BY <1>1, <1>2, <1>3, <1>4, <1>5, <1>6, <1>7, <1>8, <1>9, <1>10, <1>11, <1>12, <1>13 DEF Next, Step

(***************************************************************************)
(* The ancestors that rows name are the sessions along their parents.       *)
(***************************************************************************)
TaskChain(t) == pc[t] = "saveRow" => local[t].chain = Walk[Sess(t)]
ChainInv == ChainTrue /\ \A t \in Task : TaskChain(t)

LEMMA InitChains == Init => ChainInv
<1> SUFFICES ASSUME Init PROVE ChainInv
  OBVIOUS
<1>1. TypeInv /\ TreeTyped
  BY InitTyped DEF TypeInv
<1> DEFINE W == Walk
<1>2. W[NoId] = <<>> /\ \A i \in Id : W[i] = Append(W[parent[i]], i)
  BY <1>1, WalkTyped
<1>3. made = Start /\ Start \in Nat /\ Start <= MaxSessions /\ MaxSessions \in Nat
  BY Bounds DEF Init
<1>4. \A i \in Id : parent[i] = IF i \in 1 .. Start - 1 THEN i - 1 ELSE NoId
  BY DEF Init
<1> HIDE DEF W
<1> DEFINE Line(i) == [n \in 1 .. i |-> n - 1]
           S == {n \in Nat : n < Start => W[n] = Line(n + 1)}
<1>5. Line(0) = <<>>
  OBVIOUS
<1>6. ASSUME NEW n \in Nat PROVE Append(Line(n), n) = Line(n + 1)
  <2>1. Line(n) \in Seq(Nat) /\ Len(Line(n)) = n
    OBVIOUS
  <2>2. Append(Line(n), n) \in Seq(Nat) /\ Len(Append(Line(n), n)) = n + 1
    BY <2>1
  <2>3. Line(n + 1) \in Seq(Nat) /\ Len(Line(n + 1)) = n + 1
    OBVIOUS
  <2>4. \A j \in 1 .. n + 1 : Append(Line(n), n)[j] = Line(n + 1)[j]
    <3>1. TAKE j \in 1 .. n + 1
    <3>2. CASE j = n + 1
      BY <2>1, <3>2
    <3>3. CASE j # n + 1
      <4>1. j \in 1 .. n
        BY <3>3
      <4>2. QED
        BY <2>1, <4>1
    <3>4. QED
      BY <3>2, <3>3
  <2> HIDE DEF Line
  <2>5. QED
    BY <2>2, <2>3, <2>4, SeqEqual
<1> HIDE DEF Line
<1>7. 0 \in S
  <2>1. 0 \in Id /\ 0 \notin 1 .. Start - 1
    BY Bounds
  <2>2. W[0] = Append(<<>>, 0)
    BY <1>2, <1>4, <2>1
  <2>3. Append(Line(0), 0) = Line(0 + 1)
    BY <1>6
  <2>4. QED
    BY <1>5, <2>2, <2>3
<1>8. ASSUME NEW n \in S PROVE n + 1 \in S
  <2>1. n \in Nat /\ n + 1 \in Nat /\ (n < Start => W[n] = Line(n + 1))
    OBVIOUS
  <2>2. ASSUME n + 1 < Start PROVE W[n + 1] = Line((n + 1) + 1)
    <3>1. n + 1 \in Id /\ n + 1 \in 1 .. Start - 1 /\ (n + 1) - 1 = n /\ n < Start
      BY <1>3, <2>1, <2>2, Bounds
    <3>2. parent[n + 1] = n
      BY <1>4, <3>1
    <3>3. W[n + 1] = Append(Line(n + 1), n + 1)
      BY <1>2, <2>1, <3>1, <3>2
    <3>4. QED
      BY <1>6, <2>1, <3>3
  <2>3. QED
    BY <2>1, <2>2
<1>9. S = Nat
  <2>1. S \in SUBSET Nat
    OBVIOUS
  <2> HIDE DEF S
  <2>2. QED
    BY <1>7, <1>8, <2>1, SetInduction
<1>10. \A n \in Nat : n < Start => W[n] = Line(n + 1)
  BY <1>9
<1>11. ASSUME NEW i \in 0 .. made - 1, chain[i] # NoChain PROVE chain[i] = W[parent[i]]
  <2>1. i \in Nat /\ i < Start /\ i \in Id
    BY <1>3, Bounds
  <2>2. chain[i] = Line(i)
    <3>1. PICK k \in 0 .. Start :
             chain = [j \in Id |-> IF j < k \/ j >= Start THEN NoChain ELSE [n \in 1 .. j |-> n - 1]]
      BY DEF Init
    <3>2. QED
      BY <1>11, <2>1, <3>1 DEF Line
  <2>3. CASE i = 0
    <3>1. parent[i] = NoId
      BY <1>4, <2>1, <2>3
    <3>2. QED
      BY <1>2, <1>5, <2>2, <2>3, <3>1
  <2>4. CASE i # 0
    <3>1. parent[i] = i - 1 /\ i - 1 \in Nat /\ i - 1 < Start /\ (i - 1) + 1 = i
      BY <1>3, <1>4, <2>1, <2>4
    <3>2. W[i - 1] = Line((i - 1) + 1)
      BY <1>10, <3>1
    <3>3. QED
      BY <2>2, <3>1, <3>2
  <2>5. QED
    BY <2>3, <2>4
<1>12. ChainTrue
  BY <1>11 DEF ChainTrue, W
<1>13. \A t \in Task : pc[t] = "idle"
  BY Bounds DEF Init
<1>14. QED
  BY <1>12, <1>13 DEF ChainInv, TaskChain

LEMMA WalkStays ==
    ASSUME TreeTyped, TreeTyped', Grows
    PROVE  /\ \A i \in 0 .. made - 1 : Walk'[i] = Walk[i] /\ Walk'[parent[i]] = Walk[parent[i]]
           /\ Walk'[NoId] = Walk[NoId] /\ Walk'[NoId] = <<>>
<1>1. made \in Nat /\ 0 .. made - 1 \subseteq Id /\ \A i \in Id : i < made => i \in 0 .. made - 1
  <2>1. made \in Nat /\ 0 .. made - 1 \subseteq Id
    BY Bounds DEF TreeTyped
  <2>2. QED
    BY <2>1, Bounds
<1>2. /\ parent \in [Id -> Ids] /\ Older(parent, made)
      /\ parent' \in [Id -> Ids] /\ Older(parent', made')
  BY DEF TreeTyped, Ids
<1>3. \A i \in Id : i < made => parent[i] = parent'[i]
  BY <1>1 DEF Grows
<1>4. Walk = WalkOf(parent) /\ Walk' = WalkOf(parent')
  BY DEF Walk, WalkOf, Ids
<1>5. \A i \in Id : i < made => Walk[i] = Walk'[i]
  BY <1>1, <1>2, <1>3, <1>4, WalkSame
<1>6. Walk'[NoId] = <<>> /\ Walk[NoId] = <<>>
  BY <1>2, <1>4, WalkUnfolds
<1>7. ASSUME NEW i \in 0 .. made - 1 PROVE Walk'[i] = Walk[i] /\ Walk'[parent[i]] = Walk[parent[i]]
  <2>1. i \in Id /\ i \in Nat /\ i < made
    BY <1>1
  <2>2. parent[i] = NoId \/ (parent[i] \in Id /\ parent[i] < i)
    BY <1>2, <2>1, OlderBelow
  <2>3. CASE parent[i] = NoId
    BY <1>5, <1>6, <2>1, <2>3
  <2>4. CASE parent[i] \in Id /\ parent[i] < i
    <3>1. parent[i] < made
      BY <1>1, <2>1, <2>4, Bounds
    <3>2. QED
      BY <1>5, <2>1, <2>4, <3>1
  <2>5. QED
    BY <2>2, <2>3, <2>4
<1>8. QED
  BY <1>6, <1>7

LEMMA ChainsStay ==
    ASSUME TypeInv, TypeInv', ChainInv, UNCHANGED <<made, parent, chain>>,
           \A t \in Task : \/ pc'[t] = pc[t] /\ local'[t] = local[t]
                           \/ pc'[t] # "saveRow"
    PROVE  ChainInv'
<1>1. Walk' = Walk
  BY DEF Walk
<1>2. ChainTrue'
  BY <1>1 DEF ChainInv, ChainTrue
<1>3. \A t \in Task : TaskChain(t)'
  BY <1>1 DEF ChainInv, TaskChain, Sess
<1>4. QED
  BY <1>2, <1>3 DEF ChainInv

(* A session is made under one whose walk is q.                             *)
LEMMA MakesChain ==
    ASSUME TypeInv, ChainInv, NEW s \in (0 .. made - 1) \cup {NoId}, NEW q \in Seq(Id), Makes(s, q),
           q = Walk[s],
           \A t \in Task : \/ pc'[t] = pc[t] /\ local'[t] = local[t]
                           \/ pc'[t] # "saveRow"
    PROVE  ChainInv'
<1>1. /\ TreeTyped /\ TreeTyped' /\ Grows /\ made \in Nat /\ made \in Id
      /\ parent'[made] = s /\ chain'[made] = q
      /\ \A i \in Id : i # made => parent'[i] = parent[i] /\ chain'[i] = chain[i]
      /\ \A i \in 0 .. made - 1 : i \in Id /\ i # made
  BY MakesTyped DEF TypeInv
<1>2. /\ \A i \in 0 .. made - 1 : Walk'[i] = Walk[i] /\ Walk'[parent[i]] = Walk[parent[i]]
      /\ Walk'[NoId] = Walk[NoId]
  BY <1>1, WalkStays
<1>3. ASSUME NEW i \in 0 .. made' - 1, chain'[i] # NoChain PROVE chain'[i] = Walk'[parent'[i]]
  <2>1. CASE i = made
    BY <1>1, <1>2, <2>1
  <2>2. CASE i # made
    <3>1. i \in 0 .. made - 1
      BY <1>1, <2>2 DEF Makes
    <3>2. QED
      BY <1>1, <1>2, <1>3, <3>1, <2>2 DEF ChainInv, ChainTrue
  <2>3. QED
    BY <2>1, <2>2
<1>4. ASSUME NEW t \in Task, pc'[t] = "saveRow" PROVE local'[t].chain = Walk'[Sess(t)']
  <2>1. pc[t] = "saveRow" /\ local'[t] = local[t] /\ Sess(t)' = Sess(t)
    BY <1>4 DEF Sess
  <2>2. Sess(t) \in 0 .. made - 1
    BY <2>1 DEF TypeInv, ActorsTyped, TaskTyped
  <2>3. QED
    BY <1>2, <2>1, <2>2 DEF ChainInv, TaskChain
<1>5. QED
  BY <1>3, <1>4 DEF ChainInv, ChainTrue, TaskChain

LEMMA ChainStep == TypeInv /\ ChainInv /\ [Next]_vars => ChainInv'
<1> SUFFICES ASSUME TypeInv, ChainInv, [Next]_vars PROVE ChainInv'
  OBVIOUS
<1>0. TypeInv'
  BY TypeStep
<1> DEFINE Calmer == \A t \in Task : \/ pc'[t] = pc[t] /\ local'[t] = local[t]
                                     \/ pc'[t] # "saveRow"
<1>1. CASE UNCHANGED vars
  BY <1>0, <1>1, ChainsStay DEF vars, tree
<1>2. ASSUME NEW t \in Task, Step(t), ~ResolveChain(t), ~SaveRow(t) PROVE ChainInv'
  <2>1. t \in Actor /\ UNCHANGED <<made, parent, chain>>
    BY <1>2, Bounds
       DEF Step, ResolveRoot, Insert, PushChild, TurnFails, FindChild, SaveMessage, Persist, Drop, tree
  <2>2. Calmer
    <3>1. CASE Drop(t)
      BY <3>1, DropTyped, Bounds
    <3>2. ASSUME NEW l, NEW x, Sets(t, l, x), l # "saveRow" PROVE Calmer
      BY <3>2, Bounds DEF Sets, Still
    <3>3. QED
      BY <1>2, <3>1, <3>2, ResolveRootTyped, InsertTyped, PushChildTyped, TurnFailsTyped,
         FindChildTyped, SaveMessageTyped, PersistTyped DEF Step
  <2>3. QED
    BY <1>0, <2>1, <2>2, ChainsStay
<1>3. ASSUME NEW t \in Task, ResolveChain(t) PROVE ChainInv'
  <2>1. CASE Sets(t, "idle", NoLocal)
    <3>1. Calmer /\ UNCHANGED <<made, parent, chain>>
      BY <1>3, <2>1, Bounds DEF Sets, Still, ResolveChain, tree
    <3>2. QED
      BY <1>0, <3>1, ChainsStay
  <2>2. CASE Sets(t, "saveRow", [local[t] EXCEPT !.chain = ChainUnder(Sess(t))])
    <3> DEFINE x == [local[t] EXCEPT !.chain = ChainUnder(Sess(t))]
    <3>1. Sess(t) \in Id /\ Sess(t) \in 0 .. made - 1 /\ local[t] \in Locals /\ TreeTyped
      BY <1>3, ResolveChainTyped, Bounds DEF TypeInv, ActorsTyped
    <3>2. x.chain = ChainUnder(Sess(t)) /\ x.session = Sess(t)
      BY <3>1 DEF Locals, Sess
    <3>3. ChainUnder(Sess(t)) = Walk[Sess(t)]
      <4>1. Walk[Sess(t)] = Append(Walk[parent[Sess(t)]], Sess(t))
        BY <3>1, WalkTyped
      <4>2. chain[Sess(t)] # NoChain => chain[Sess(t)] = Walk[parent[Sess(t)]]
        BY <3>1 DEF ChainInv, ChainTrue
      <4>3. QED
        BY <4>1, <4>2 DEF ChainUnder
    <3> HIDE DEF x
    <3>4. local'[t] = x /\ \A u \in Task : u # t => pc'[u] = pc[u] /\ local'[u] = local[u]
      BY <2>2, Bounds DEF Sets, Still, x
    <3>5. UNCHANGED <<made, parent, chain>> /\ Walk' = Walk
      BY <1>3 DEF ResolveChain, tree, Walk
    <3>6. \A u \in Task : TaskChain(u)'
      BY <3>2, <3>3, <3>4, <3>5 DEF ChainInv, TaskChain, Sess
    <3>7. QED
      BY <3>5, <3>6 DEF ChainInv, ChainTrue
  <2>3. QED
    BY <1>3, <2>1, <2>2, ResolveChainTyped
<1>4. ASSUME NEW t \in Task, SaveRow(t) PROVE ChainInv'
  <2>1. /\ Sess(t) \in 0 .. made - 1 /\ Makes(Sess(t), local[t].chain) /\ local[t].chain \in Seq(Id)
        /\ pc[t] = "saveRow" /\ Calmer
    BY <1>4, SaveRowTyped, Bounds DEF Sets, Still
  <2>2. local[t].chain = Walk[Sess(t)]
    BY <2>1 DEF ChainInv, TaskChain
  <2>3. QED
    BY <2>1, <2>2, MakesChain
<1>5. ASSUME NEW t \in Task, NEW u \in (Task \ {t}) \cup {Turn}, NEW s \in Id, Spawn(t, u, s)
      PROVE  ChainInv'
  <2>1. Calmer /\ UNCHANGED <<made, parent, chain>>
    BY <1>5, SpawnDoes, Bounds DEF Sets, Still, Spawn, tree
  <2>2. QED
    BY <1>0, <2>1, ChainsStay
<1>6. ASSUME NEW c \in Client, Request(c) PROVE ChainInv'
  <2>1. Calmer
    BY <1>6, RequestCalm
  <2>2. CASE \E i \in Id : Copy(c, i)
    <3>1. <<>> \in Seq(Id) /\ <<>> = Walk[NoId] /\ NoId \in (0 .. made - 1) \cup {NoId}
      BY WalkTyped DEF TypeInv
    <3>2. Makes(NoId, <<>>)
      BY <2>2, CopyTyped
    <3>3. QED
      BY <2>1, <3>1, <3>2, MakesChain
  <2>3. CASE ~\E i \in Id : Copy(c, i)
    <3>1. UNCHANGED <<made, parent, chain>>
      BY <1>6, <2>3 DEF Request, Delete, DeleteTree, GetTree, Collect, Collected, DeleteRows, Evict,
                         Visit, Answered, tree
    <3>2. QED
      BY <1>0, <2>1, <3>1, ChainsStay
  <2>4. QED
    BY <2>2, <2>3
<1>7. CASE Crash
  <2>1. Calmer /\ UNCHANGED <<made, parent, chain>>
    BY <1>7, CrashTyped, Bounds DEF tree
  <2>2. QED
    BY <1>0, <2>1, ChainsStay
<1>8. QED
  BY <1>1, <1>2, <1>3, <1>4, <1>5, <1>6, <1>7 DEF Next

(***************************************************************************)
(* What any step of the system does to a task, a client, the rows and the   *)
(* objects.                                                                *)
(***************************************************************************)
Told == {"run", "saveMessage", "persist"}
Stops(v) == pc'[v] = "idle" /\ local'[v] = NoLocal
Same(a)  == pc'[a] = pc[a] /\ local'[a] = local[a]
Moves(v) ==
    /\ Child(v)' = Child(v) /\ Sess(v)' = Sess(v)
    /\ \/ pc[v] = "resolveRoot" /\ pc'[v] = "resolveChain"
       \/ pc[v] = "resolveChain" /\ pc'[v] = "saveRow" /\ Sess(v) \in rows /\ UNCHANGED rows
       \/ pc[v] = "insert" /\ pc'[v] = "pushChild" /\ Child(v) \in cached'
       \/ /\ pc[v] = "pushChild" /\ pc'[v] = "run"
          /\ Sess(v) \in cached' => Child(v) \in ToSet(kids'[Sess(v)])
       \/ pc[v] = "run" /\ pc'[v] = "saveMessage"
       \/ pc[v] = "saveMessage" /\ pc'[v] = "persist" /\ Child(v) \in rows /\ UNCHANGED rows
Saves(v) ==
    /\ pc[v] = "saveRow" /\ pc'[v] = "insert" /\ Child(v)' = made /\ Sess(v)' = Sess(v)
    /\ made \in rows'
Begins(v) ==
    /\ pc[v] = "idle" /\ pc'[v] = "resolveRoot" /\ Child(v)' = NoId
    /\ Sess(v)' < Start \/ \E u \in Task : pc[u] = "run" /\ Sess(v)' = Child(u)

LEMMA SpawnBegins ==
    ASSUME TypeInv, NEW t \in Task, NEW u \in (Task \ {t}) \cup {Turn}, NEW s \in Id, Spawn(t, u, s)
    PROVE  Begins(t) /\ Still(t)
<1> DEFINE x == [local[t] EXCEPT !.caller = u, !.session = s]
<1>1. /\ Sets(t, "resolveRoot", x) /\ pc[t] = "idle" /\ local[t] = NoLocal
      /\ \/ s < Start /\ s \in cached
         \/ u \in Task /\ pc[u] = "run" /\ s = Child(u)
  BY SpawnDoes
<1>2. x.session = s /\ x.child = NoId
  BY <1>1 DEF NoLocal
<1> HIDE DEF x
<1>3. QED
  BY <1>1, <1>2 DEF Sets, Begins, Child, Sess

LEMMA TaskSteps ==
    ASSUME TypeInv, [Next]_vars, NEW v \in Task
    PROVE  Same(v) \/ Stops(v) \/ Moves(v) \/ Saves(v) \/ Begins(v)
<1>1. ASSUME UNCHANGED vars PROVE Same(v)
  BY <1>1 DEF vars, Same
<1>2. ASSUME NEW t \in Task, NEW l, NEW x, Sets(t, l, x), t # v PROVE Same(v)
  BY <1>2, Bounds DEF Sets, Still, Same
<1>3. ASSUME NEW l, Sets(v, l, NoLocal), l = "idle" PROVE Stops(v)
  BY <1>3 DEF Sets, Stops
<1>4. ASSUME NEW l, Sets(v, l, local[v])
      PROVE  pc'[v] = l /\ Child(v)' = Child(v) /\ Sess(v)' = Sess(v)
  BY <1>4 DEF Sets, Child, Sess
<1>5. ASSUME NEW t \in Task, ResolveRoot(t) PROVE Same(v) \/ Stops(v) \/ Moves(v)
  <2>1. pc[t] = "resolveRoot"
    BY <1>5 DEF ResolveRoot
  <2>2. QED
    BY <1>2, <1>3, <1>4, <1>5, <2>1, ResolveRootTyped DEF Moves
<1>6. ASSUME NEW t \in Task, ResolveChain(t) PROVE Same(v) \/ Stops(v) \/ Moves(v)
  <2> DEFINE x == [local[t] EXCEPT !.chain = ChainUnder(Sess(t))]
  <2>1. pc[t] = "resolveChain" /\ UNCHANGED rows /\ local[t] \in Locals
    BY <1>6, Bounds DEF ResolveChain, tree, TypeInv, ActorsTyped
  <2>2. x.child = Child(t) /\ x.session = Sess(t)
    BY <2>1 DEF Locals, Child, Sess
  <2>3. (Sets(t, "saveRow", x) /\ Sess(t) \in rows) \/ Sets(t, "idle", NoLocal)
    BY <1>6, ResolveChainTyped
  <2> HIDE DEF x
  <2>4. CASE Sets(t, "idle", NoLocal)
    BY <1>2, <1>3, <2>4
  <2>5. CASE Sets(t, "saveRow", x) /\ Sess(t) \in rows
    <3>1. CASE t # v
      BY <1>2, <2>5, <3>1
    <3>2. CASE t = v
      BY <2>1, <2>2, <2>5, <3>2 DEF Sets, Moves, Child, Sess
    <3>3. QED
      BY <3>1, <3>2
  <2>6. QED
    BY <2>3, <2>4, <2>5
<1>7. ASSUME NEW t \in Task, SaveRow(t) PROVE Same(v) \/ Saves(v)
  <2>1. Sets(t, "insert", [local[t] EXCEPT !.child = made]) /\ pc[t] = "saveRow" /\ made \in rows'
        /\ Child(t)' = made /\ Sess(t)' = Sess(t)
    BY <1>7, SaveRowTyped DEF Makes
  <2>2. pc'[t] = "insert"
    BY <2>1 DEF Sets
  <2>3. QED
    BY <1>2, <2>1, <2>2 DEF Saves
<1>8. ASSUME NEW t \in Task, Insert(t) PROVE Same(v) \/ Moves(v)
  BY <1>2, <1>4, <1>8, InsertTyped DEF Moves
<1>9. ASSUME NEW t \in Task, PushChild(t) PROVE Same(v) \/ Moves(v)
  <2>1. Sets(t, "run", local[t]) /\ pc[t] = "pushChild"
        /\ (Sess(t) \in cached' => Child(t) \in ToSet(kids'[Sess(t)]))
    BY <1>9, PushChildTyped
  <2>2. QED
    BY <1>2, <1>4, <2>1 DEF Moves
<1>10. ASSUME NEW t \in Task, TurnFails(t) \/ Persist(t) PROVE Same(v) \/ Stops(v)
  BY <1>2, <1>3, <1>10, TurnFailsTyped, PersistTyped
<1>11. ASSUME NEW t \in Task, FindChild(t) PROVE Same(v) \/ Stops(v) \/ Moves(v)
  <2>1. (Sets(t, "saveMessage", local[t]) \/ Sets(t, "idle", NoLocal)) /\ pc[t] = "run"
    BY <1>11, FindChildTyped
  <2>2. QED
    BY <1>2, <1>3, <1>4, <2>1 DEF Moves
<1>12. ASSUME NEW t \in Task, SaveMessage(t) PROVE Same(v) \/ Stops(v) \/ Moves(v)
  <2>1. pc[t] = "saveMessage" /\ UNCHANGED rows
    BY <1>12 DEF SaveMessage, tree
  <2>2. CASE Sets(t, "idle", NoLocal)
    BY <1>2, <1>3, <2>2
  <2>3. CASE Sets(t, "persist", local[t]) /\ Child(t) \in rows
    <3>1. CASE t # v
      BY <1>2, <2>3, <3>1
    <3>2. CASE t = v
      BY <1>4, <2>1, <2>3, <3>2 DEF Moves
    <3>3. QED
      BY <3>1, <3>2
  <2>4. QED
    BY <1>12, <2>2, <2>3, SaveMessageTyped
<1>13. ASSUME NEW t \in Task, Drop(t) PROVE Same(v) \/ Stops(v)
  BY <1>13, DropTyped, Bounds DEF Same, Stops
<1>14. ASSUME NEW t \in Task, NEW u \in (Task \ {t}) \cup {Turn}, NEW s \in Id, Spawn(t, u, s)
       PROVE  Same(v) \/ Begins(v)
  BY <1>14, SpawnBegins, Bounds DEF Still, Same
<1>15. ASSUME NEW c \in Client, Request(c) PROVE Same(v)
  BY <1>15, RequestCalm DEF Same
<1>16. ASSUME Crash PROVE Stops(v)
  BY <1>16, CrashTyped, Bounds DEF Stops
<1>17. QED
  BY <1>1, <1>5, <1>6, <1>7, <1>8, <1>9, <1>10, <1>11, <1>12, <1>13, <1>14, <1>15, <1>16
     DEF Next, Step

(* Nobody will speak of the session again but clients that know its id.     *)
Free(i) == i >= Start /\ \A t \in Task : Child(t) # i /\ (pc[t] # "idle" => Sess(t) # i)
Saving(i) == \E t \in Task : pc[t] = "insert" /\ Child(t) = i

LEMMA FreeKept ==
    ASSUME TypeInv, [Next]_vars, NEW i \in 0 .. made - 1, Free(i)
    PROVE  Free(i)'
<1>1. i \in Nat /\ i # made /\ i # NoId /\ Start \in Nat
  <2>1. made \in Start .. MaxSessions /\ Start \in Nat
    BY Bounds DEF TypeInv, TreeTyped
  <2>2. i \in Id /\ made \in Nat
    BY <2>1, Bounds
  <2>3. QED
    BY <2>1, <2>2, Bounds
<1>2. ASSUME NEW v \in Task PROVE Child(v)' # i /\ (pc'[v] # "idle" => Sess(v)' # i)
  <2>1. CASE Same(v)
    BY <2>1 DEF Same, Free, Child, Sess
  <2>2. CASE Stops(v)
    BY <1>1, <2>2, NoLocalTyped DEF Stops, Child
  <2>3. CASE Moves(v)
    BY <2>3 DEF Moves, Free
  <2>4. CASE Saves(v)
    BY <1>1, <2>4 DEF Saves, Free
  <2>5. CASE Begins(v)
    <3>1. Sess(v)' # i
      <4>1. CASE Sess(v)' < Start
        BY <1>1, <4>1 DEF Free
      <4>2. CASE \E u \in Task : pc[u] = "run" /\ Sess(v)' = Child(u)
        BY <4>2 DEF Free
      <4>3. QED
        BY <2>5, <4>1, <4>2 DEF Begins
    <3>2. QED
      BY <1>1, <2>5, <3>1 DEF Begins
  <2>6. QED
    BY <2>1, <2>2, <2>3, <2>4, <2>5, TaskSteps
<1>3. QED
  BY <1>2 DEF Free

(* A call that ends while no sub-agent runs for it leaves its session free. *)
LEMMA ChildFreed ==
    ASSUME TypeInv, CallInv, [Next]_vars, NEW t \in Task, pc[t] \in HasChild \ {"run"}, Stops(t),
           NEW i, i = Child(t)
    PROVE  Free(i)'
<1>1. i \in Nat /\ i >= Start /\ i # made /\ i # NoId /\ Start \in Nat
  <2>1. i \in Start .. made - 1 /\ made \in Start .. MaxSessions /\ Start \in Nat
    BY Bounds DEF TypeInv, TreeTyped, ActorsTyped, TaskTyped
  <2>2. i \in 0 .. made - 1 /\ made \in Nat /\ i >= Start /\ i # made
    BY <2>1
  <2>3. i \in Id
    BY <2>1, <2>2, Bounds
  <2>4. QED
    BY <2>2, <2>3, Bounds
<1>2. \A v \in Task : v # t => Child(v) # i /\ (pc[v] # "idle" => Sess(v) # i)
  BY <1>1 DEF CallInv
<1>3. ASSUME NEW v \in Task PROVE Child(v)' # i /\ (pc'[v] # "idle" => Sess(v)' # i)
  <2>1. CASE Stops(v)
    BY <1>1, <2>1, NoLocalTyped DEF Stops, Child
  <2>2. CASE ~Stops(v)
    <3>1. v # t
      BY <2>2
    <3>2. CASE Same(v)
      BY <1>2, <3>1, <3>2 DEF Same, Child, Sess
    <3>3. CASE Moves(v)
      BY <1>2, <3>1, <3>3 DEF Moves
    <3>4. CASE Saves(v)
      BY <1>1, <1>2, <3>1, <3>4 DEF Saves
    <3>5. CASE Begins(v)
      <4>1. Sess(v)' # i
        <5>1. CASE Sess(v)' < Start
          BY <1>1, <5>1
        <5>2. CASE \E u \in Task : pc[u] = "run" /\ Sess(v)' = Child(u)
          BY <1>1, <5>2 DEF CallInv
        <5>3. QED
          BY <3>5, <5>1, <5>2 DEF Begins
      <4>2. QED
        BY <1>1, <3>5, <4>1 DEF Begins
    <3>6. QED
      BY <2>2, <3>2, <3>3, <3>4, <3>5, TaskSteps
  <2>3. QED
    BY <2>1, <2>2
<1>4. QED
  BY <1>1, <1>3 DEF Free

Written(i) ==
    \/ i = made /\ \E t \in Task : Saves(t)
    \/ i = made /\ i \in cached' /\ parent'[i] = NoId
    \/ \E t \in Task : pc[t] = "persist" /\ Stops(t) /\ i = Child(t) /\ UNCHANGED mem
Erased(i) ==
    \E c \in Client : /\ pc[c] = "deleteRows" /\ i \in Found(c) /\ rows' = rows \ Found(c)
                      /\ pc'[c] = "evict" /\ Found(c)' = Found(c)

LEMMA RowSteps ==
    ASSUME TypeInv, [Next]_vars
    PROVE  /\ \A i \in rows' \ rows : Written(i)
           /\ \A i \in rows \ rows' : Erased(i)
<1> DEFINE Result == /\ \A i \in rows' \ rows : Written(i)
                     /\ \A i \in rows \ rows' : Erased(i)
<1>1. ASSUME UNCHANGED rows PROVE Result
  BY <1>1
<1>2. ASSUME NEW t \in Task, Step(t), ~SaveRow(t), ~Persist(t) PROVE UNCHANGED rows
  BY <1>2 DEF Step, ResolveRoot, ResolveChain, Insert, PushChild, TurnFails, FindChild, SaveMessage,
              Drop, tree
<1>3. ASSUME NEW t \in Task, SaveRow(t) PROVE Result
  <2>1. /\ pc[t] = "saveRow" /\ Makes(Sess(t), local[t].chain)
        /\ Sets(t, "insert", [local[t] EXCEPT !.child = made])
        /\ Child(t)' = made /\ Sess(t)' = Sess(t)
    BY <1>3, SaveRowTyped
  <2>2. rows' = rows \cup {made} /\ pc'[t] = "insert"
    BY <2>1 DEF Makes, Sets
  <2>3. Saves(t)
    BY <2>1, <2>2 DEF Saves
  <2>4. QED
    BY <2>2, <2>3 DEF Written
<1>4. ASSUME NEW t \in Task, Persist(t) PROVE Result
  <2>1. pc[t] = "persist" /\ Stops(t) /\ rows' = rows \cup {Child(t)} /\ UNCHANGED mem
    BY <1>4, PersistTyped DEF Stops, Sets
  <2>2. QED
    BY <2>1 DEF Written
<1>5. ASSUME NEW t \in Task, NEW u \in (Task \ {t}) \cup {Turn}, NEW s \in Id, Spawn(t, u, s)
      PROVE  UNCHANGED rows
  BY <1>5 DEF Spawn, tree
<1>6. ASSUME NEW c \in Client, Request(c), ~DeleteRows(c), ~\E i \in Id : Copy(c, i)
      PROVE  UNCHANGED rows
  <2>1. ASSUME NEW i \in Id, Delete(c, i) \/ DeleteTree(c, i) \/ GetTree(c, i) PROVE UNCHANGED rows
    BY <2>1 DEF Delete, DeleteTree, GetTree, tree
  <2>2. ASSUME Collect(c) \/ Collected(c) \/ Answered(c) PROVE UNCHANGED rows
    BY <2>2 DEF Collect, Collected, Answered, tree
  <2>3. ASSUME Evict(c) \/ Visit(c) PROVE UNCHANGED rows
    BY <2>3, EvictTyped, VisitTyped DEF tree
  <2>4. QED
    BY <1>6, <2>1, <2>2, <2>3 DEF Request
<1>7. ASSUME NEW c \in Client, DeleteRows(c) PROVE Result
  <2>1. pc[c] = "deleteRows" /\ rows' = rows \ Found(c) /\ pc'[c] = "evict" /\ Found(c)' = Found(c)
    BY <1>7, DeleteRowsTyped DEF Sets, Found
  <2>2. QED
    BY <2>1 DEF Erased
<1>8. ASSUME NEW c \in Client, NEW i \in Id, Copy(c, i) PROVE Result
  <2>1. Makes(NoId, <<>>) /\ cached' = cached \cup {made, i} /\ TreeTyped
    BY <1>8, CopyTyped DEF TypeInv
  <2>2. rows' = rows \cup {made} /\ parent'[made] = NoId /\ made \in cached'
    BY <2>1 DEF Makes, TreeTyped
  <2>3. QED
    BY <2>2 DEF Written
<1>9. CASE Crash
  BY <1>1, <1>9, CrashTyped DEF tree
<1>10. CASE UNCHANGED vars
  BY <1>1, <1>10 DEF vars, tree
<1>11. QED
  BY <1>1, <1>2, <1>3, <1>4, <1>5, <1>6, <1>7, <1>8, <1>9, <1>10 DEF Next

Dropped(i) == \E c \in Client : pc[c] = "evict" /\ i \in Found(c)
Crashed == UNCHANGED rows /\ cached' = rows /\ \A a \in Actor : pc'[a] = "idle"
(* An object of the cache keeps what it lists, or lists what the rows say.  *)
Listed(p) ==
    \/ p \in cached /\ ToSet(kids[p]) \subseteq ToSet(kids'[p])
    \/ ToSet(kids'[p]) = Children(p) /\ ((p \in rows /\ p \notin cached) \/ Crashed)
    \/ p = made
    \/ \E t \in Task : pc[t] = "insert" /\ Child(t) = p

LEMMA CacheSteps ==
    ASSUME TypeInv, [Next]_vars
    PROVE  /\ \A i \in cached \ cached' : Dropped(i) \/ Crashed
           /\ \A i \in cached' \ cached :
                 \/ i \in rows \cup rows'
                 \/ UNCHANGED rows /\ \E t \in Task : pc[t] = "insert" /\ Child(t) = i
           /\ \A p \in cached' : Listed(p)
<1> DEFINE Result == /\ \A i \in cached \ cached' : Dropped(i) \/ Crashed
                     /\ \A i \in cached' \ cached :
                           \/ i \in rows \cup rows'
                           \/ UNCHANGED rows /\ \E t \in Task : pc[t] = "insert" /\ Child(t) = i
                     /\ \A p \in cached' : Listed(p)
<1>1. ASSUME UNCHANGED mem PROVE Result
  BY <1>1 DEF mem, Listed
<1>2. cached \subseteq Id /\ MemTyped /\ TreeTyped
  BY Bounds DEF TypeInv, MemTyped, TreeTyped
<1>3. ASSUME NEW i \in Id, Loads(i), UNCHANGED tree PROVE Result
  <2>1. \A p \in cached' : p \in Id
    BY <1>2, <1>3 DEF Loads
  <2>2. \A p \in cached' : Listed(p)
    BY <1>3, <2>1 DEF Loads, Listed
  <2>3. QED
    BY <1>3, <2>2 DEF Loads
<1>4. ASSUME NEW t \in Task, Step(t), ~Insert(t), ~PushChild(t), ~FindChild(t) PROVE UNCHANGED mem
  BY <1>4, PersistTyped, SaveRowTyped
     DEF Step, ResolveRoot, ResolveChain, TurnFails, SaveMessage, Drop
<1>5. ASSUME NEW t \in Task, Insert(t) PROVE Result
  <2>1. /\ pc[t] = "insert" /\ UNCHANGED rows /\ cached' = cached \cup {Child(t)} /\ Child(t) \in Id
        /\ \A i \in Id : i # Child(t) => kids'[i] = kids[i]
    BY <1>5, InsertTyped DEF tree
  <2>2. \A p \in cached' : Listed(p)
    BY <1>2, <2>1 DEF Listed
  <2>3. QED
    BY <2>1, <2>2
<1>6. ASSUME NEW t \in Task, PushChild(t) PROVE Result
  <2>1. UNCHANGED cached /\ \A i \in Id : ToSet(kids[i]) \subseteq ToSet(kids'[i])
    BY <1>6, PushChildTyped
  <2>2. QED
    BY <1>2, <2>1 DEF Listed
<1>7. ASSUME NEW t \in Task, FindChild(t) PROVE Result
  <2>1. UNCHANGED tree /\ (Loads(Child(t)) \/ UNCHANGED mem)
    BY <1>7, FindChildTyped
  <2>2. QED
    BY <1>1, <1>3, <2>1 DEF Loads
<1>8. ASSUME NEW t \in Task, NEW u \in (Task \ {t}) \cup {Turn}, NEW s \in Id, Spawn(t, u, s)
      PROVE  UNCHANGED mem
  BY <1>8 DEF Spawn
<1>9. ASSUME NEW c \in Client, Request(c), ~Evict(c), ~Visit(c), ~\E i \in Id : Copy(c, i)
      PROVE  UNCHANGED mem
  <2>1. ASSUME NEW i \in Id, Delete(c, i) \/ DeleteTree(c, i) \/ GetTree(c, i) PROVE UNCHANGED mem
    BY <2>1 DEF Delete, DeleteTree, GetTree
  <2>2. ASSUME Collect(c) \/ Collected(c) \/ Answered(c) PROVE UNCHANGED mem
    BY <2>2 DEF Collect, Collected, Answered
  <2>3. ASSUME DeleteRows(c) PROVE UNCHANGED mem
    BY <2>3 DEF DeleteRows
  <2>4. QED
    BY <1>9, <2>1, <2>2, <2>3 DEF Request
<1>10. ASSUME NEW c \in Client, Evict(c) PROVE Result
  <2>1. /\ pc[c] = "evict" /\ UNCHANGED kids
        /\ \E h \in Found(c) : cached' = cached \ {h}
    BY <1>10, EvictTyped
  <2>2. QED
    BY <2>1 DEF Dropped, Listed
<1>11. ASSUME NEW c \in Client, Visit(c) PROVE Result
  <2>1. UNCHANGED tree /\ ((\E i \in Id : Loads(i)) \/ UNCHANGED mem)
    BY <1>11, VisitTyped
  <2>2. QED
    BY <1>1, <1>3, <2>1
<1>12. ASSUME NEW c \in Client, NEW i \in Id, Copy(c, i) PROVE Result
  <2>0. /\ Makes(NoId, <<>>) /\ i \in cached \cup rows /\ cached' = cached \cup {made, i}
        /\ \A j \in Id : IF j = i /\ i \notin cached THEN ToSet(kids'[j]) = Children(j)
                                                    ELSE kids'[j] = kids[j]
    BY <1>12, CopyTyped
  <2>1. made \in rows'
    BY <2>0 DEF Makes
  <2>2. ASSUME NEW p \in cached' PROVE Listed(p)
    <3>1. CASE p \in cached
      <4>1. kids'[p] = kids[p]
        BY <1>2, <2>0, <3>1
      <4>2. QED
        BY <3>1, <4>1 DEF Listed
    <3>2. CASE p = made
      BY <3>2 DEF Listed
    <3>3. CASE p = i /\ i \notin cached
      <4>1. ToSet(kids'[i]) = Children(i)
        BY <2>0, <3>3
      <4>2. QED
        BY <2>0, <3>3, <4>1 DEF Listed
    <3>4. QED
      BY <2>0, <3>1, <3>2, <3>3
  <2>3. QED
    BY <2>0, <2>1, <2>2
<1>13. CASE Crash
  <2>1. Crashed /\ \A i \in Id : ToSet(kids'[i]) = Children(i)
    BY <1>13, CrashTyped DEF Crashed, tree
  <2>2. cached' \subseteq Id
    BY <1>2, <2>1, Bounds DEF Crashed, TreeTyped
  <2>3. QED
    BY <2>1, <2>2 DEF Crashed, Listed
<1>14. CASE UNCHANGED vars
  BY <1>1, <1>14 DEF vars
<1>15. QED
  BY <1>1, <1>4, <1>5, <1>6, <1>7, <1>8, <1>9, <1>10, <1>11, <1>12, <1>13, <1>14 DEF Next

(* What a step does to a client that deletes.                               *)
ClientMoves(c) ==
    \/ pc'[c] = pc[c] /\ Found(c)' = Found(c) /\ local'[c] = local[c]
    \/ /\ pc'[c] \notin DeleteLabel
       /\ pc[c] = "evict" => Found(c) \cap cached' = {} \/ Crashed
    \/ \E i \in Id : /\ pc[c] = "idle" /\ pc'[c] = "collect" /\ Found(c)' = {i}
                     /\ ToSet(local'[c].stack) = {i} /\ UNCHANGED rows
    \/ \E i \in Id : /\ pc[c] = "idle" /\ pc'[c] = "deleteRows" /\ Found(c)' = {i} /\ Children(i) = {}
                     /\ UNCHANGED <<rows, parent>>
    \/ Collect(c)
    \/ /\ pc[c] = "collect" /\ pc'[c] = "deleteRows" /\ Found(c)' = Found(c)
       /\ ToSet(local[c].stack) = {} /\ UNCHANGED <<rows, parent>>
    \/ /\ pc[c] = "deleteRows" /\ pc'[c] = "evict" /\ Found(c)' = Found(c) /\ rows' = rows \ Found(c)
    \/ /\ pc[c] = "evict" /\ pc'[c] = "evict" /\ Found(c)' \subseteq Found(c)
       /\ Found(c) \cap cached' \subseteq Found(c)'

LEMMA ClientRests ==
    ASSUME TypeInv, [Next]_vars, NEW c \in Client
    PROVE  Same(c) \/ Request(c) \/ Crash
<1>1. CASE UNCHANGED vars
  BY <1>1 DEF vars, Same
<1>2. ASSUME NEW t \in Task, NEW l, NEW x, Sets(t, l, x) PROVE Same(c)
  BY <1>2, Bounds DEF Sets, Still, Same
<1>3. ASSUME NEW t \in Task, Step(t) PROVE Same(c)
  <2>1. CASE Drop(t)
    <3>1. c \in Actor /\ c \notin Task
      BY Bounds
    <3>2. QED
      BY <2>1, <3>1, DropTyped DEF Same
  <2>2. CASE ~Drop(t)
    BY <1>2, <1>3, <2>2, ResolveRootTyped, ResolveChainTyped, SaveRowTyped, InsertTyped,
       PushChildTyped, TurnFailsTyped, FindChildTyped, SaveMessageTyped, PersistTyped DEF Step
  <2>3. QED
    BY <2>1, <2>2
<1>4. ASSUME NEW t \in Task, NEW u \in (Task \ {t}) \cup {Turn}, NEW s \in Id, Spawn(t, u, s)
      PROVE  Same(c)
  BY <1>4, SpawnBegins, Bounds DEF Still, Same
<1>5. ASSUME NEW b \in Client, b # c, Request(b) PROVE Same(c)
  <2>1. Still(b)
    BY <1>5, RequestCalm
  <2>2. QED
    BY <1>5, <2>1, Bounds DEF Still, Same
<1>6. QED
  BY <1>1, <1>3, <1>4, <1>5 DEF Next

LEMMA ClientSteps ==
    ASSUME TypeInv, [Next]_vars, NEW c \in Client
    PROVE  ClientMoves(c)
<1>1. ASSUME Same(c) PROVE ClientMoves(c)
  BY <1>1 DEF Same, ClientMoves, Found
<1>7. ASSUME NEW i \in Id, Delete(c, i) PROVE ClientMoves(c)
  <2>1. CASE UNCHANGED <<pc, local>>
    BY <1>1, <2>1 DEF Same
  <2>2. CASE ~UNCHANGED <<pc, local>>
    <3>1. /\ Sets(c, "deleteRows", [local[c] EXCEPT !.found = <<i>>]) /\ Children(i) = {}
          /\ pc[c] = "idle" /\ Found(c)' = {i} /\ UNCHANGED tree
      BY <1>7, <2>2, DeleteTyped
    <3>2. pc'[c] = "deleteRows" /\ UNCHANGED <<rows, parent>>
      BY <3>1 DEF Sets, tree
    <3>3. QED
      BY <3>1, <3>2 DEF ClientMoves
  <2>3. QED
    BY <2>1, <2>2
<1>8. ASSUME NEW i \in Id, DeleteTree(c, i) PROVE ClientMoves(c)
  <2>1. /\ pc[c] = "idle" /\ pc'[c] = "collect" /\ Found(c)' = {i}
        /\ ToSet(local'[c].stack) = {i} /\ UNCHANGED tree
    BY <1>8, DeleteTreeTyped
  <2>2. QED
    BY <2>1 DEF ClientMoves, tree
<1>9. ASSUME NEW i \in Id, GetTree(c, i) \/ Copy(c, i) PROVE ClientMoves(c)
  <2>1. CASE Copy(c, i)
    BY <1>1, <2>1, CopyTyped DEF Same
  <2>2. CASE GetTree(c, i)
    <3>1. pc[c] = "idle" /\ pc'[c] = "visit"
      BY <2>2, GetTreeTyped
    <3>2. QED
      BY <3>1 DEF ClientMoves, DeleteLabel
  <2>3. QED
    BY <1>9, <2>1, <2>2
<1>10. ASSUME Collect(c) PROVE ClientMoves(c)
  BY <1>10 DEF ClientMoves
<1>11. ASSUME Collected(c) PROVE ClientMoves(c)
  <2>1. UNCHANGED tree /\ Sets(c, "deleteRows", local[c])
        /\ pc[c] = "collect" /\ ToSet(local[c].stack) = {}
    BY <1>11, CollectedTyped
  <2>2. pc'[c] = "deleteRows" /\ Found(c)' = Found(c) /\ UNCHANGED <<rows, parent>>
    BY <2>1 DEF Sets, tree, Found
  <2>3. QED
    BY <2>1, <2>2 DEF ClientMoves
<1>12. ASSUME DeleteRows(c) PROVE ClientMoves(c)
  <2>1. pc[c] = "deleteRows" /\ rows' = rows \ Found(c) /\ Sets(c, "evict", local[c])
    BY <1>12, DeleteRowsTyped
  <2>2. pc'[c] = "evict" /\ Found(c)' = Found(c)
    BY <2>1 DEF Sets, Found
  <2>3. QED
    BY <2>1, <2>2 DEF ClientMoves
<1>13. ASSUME Evict(c) PROVE ClientMoves(c)
  <2>1. pc[c] = "evict"
    BY <1>13, EvictTyped
  <2>2. PICK h \in Found(c) :
                 /\ cached' = cached \ {h}
                 /\ \/ pc'[c] = "idle" /\ Found(c) = {h}
                    \/ /\ pc'[c] = "evict" /\ Found(c)' \subseteq Found(c)
                       /\ Found(c) \subseteq Found(c)' \cup {h}
    BY <1>13, EvictTyped
  <2>3. QED
    BY <2>1, <2>2 DEF ClientMoves, DeleteLabel
<1>14. ASSUME Visit(c) PROVE ClientMoves(c)
  BY <1>14, VisitTyped DEF ClientMoves, DeleteLabel
<1>15. ASSUME Answered(c) PROVE ClientMoves(c)
  BY <1>15, AnsweredTyped DEF Sets, ClientMoves, DeleteLabel
<1>16. CASE Crash
  BY <1>16, CrashTyped, Bounds DEF ClientMoves, DeleteLabel, Crashed, tree
<1>17. ASSUME Request(c) PROVE ClientMoves(c)
  BY <1>7, <1>8, <1>9, <1>10, <1>11, <1>12, <1>13, <1>14, <1>15, <1>17 DEF Request
<1>18. QED
  BY <1>1, <1>16, <1>17, ClientRests

(***************************************************************************)
(* Objects.  A row without an object is of a session that is being saved or *)
(* that nobody speaks of any more: no call can list a child in an object    *)
(* that is not there when the child is looked for.                         *)
(***************************************************************************)
HeldInv == \A i \in rows : i \in cached \/ Free(i) \/ Saving(i)
GoneInv == \A c \in Client : pc[c] = "evict" => \A i \in Found(c) \cap rows : Free(i)
ToldInv == \A t \in Task : pc[t] \in Told /\ Sess(t) \in cached => Child(t) \in ToSet(kids[Sess(t)])
MemInv  == HeldInv /\ GoneInv /\ ToldInv

LEMMA InitMem == Init => MemInv
BY Bounds DEF Init, MemInv, HeldInv, GoneInv, ToldInv, Told

LEMMA InNat == TypeInv => /\ rows \subseteq 0 .. made - 1 /\ cached \subseteq 0 .. made - 1
                          /\ 0 .. made - 1 \subseteq Id /\ made \in Nat /\ made \notin 0 .. made - 1
<1> SUFFICES ASSUME TypeInv PROVE /\ rows \subseteq 0 .. made - 1 /\ cached \subseteq 0 .. made - 1
                                  /\ 0 .. made - 1 \subseteq Id /\ made \in Nat
                                  /\ made \notin 0 .. made - 1
  OBVIOUS
<1>1. /\ rows \subseteq 0 .. made - 1 /\ cached \subseteq 0 .. made - 1
      /\ 0 .. made - 1 \subseteq Id /\ made \in Nat
  BY Bounds DEF TypeInv, TreeTyped, MemTyped
<1>2. QED
  BY <1>1

(* A session whose row is new is saved by a call, is a copy or is free.     *)
LEMMA WrittenFree ==
    ASSUME TypeInv, CallInv, [Next]_vars, NEW i \in rows' \ rows
    PROVE  Saving(i)' \/ i \in cached' \/ Free(i)'
<1>1. Written(i)
  BY RowSteps
<1>2. ASSUME NEW t \in Task, Saves(t), i = made PROVE Saving(i)'
  BY <1>2 DEF Saves, Saving
<1>3. ASSUME NEW t \in Task, pc[t] = "persist", Stops(t), i = Child(t) PROVE Free(i)'
  BY <1>3, ChildFreed DEF HasChild
<1>4. QED
  BY <1>1, <1>2, <1>3 DEF Written

LEMMA HeldStep == TypeInv /\ CallInv /\ MemInv /\ [Next]_vars => HeldInv'
<1> SUFFICES ASSUME TypeInv, CallInv, MemInv, [Next]_vars, NEW i \in rows'
             PROVE  i \in cached' \/ Free(i)' \/ Saving(i)'
  BY DEF HeldInv
<1>1. CASE i \notin rows
  BY <1>1, WrittenFree
<1>2. CASE i \in rows
  <2>0. i \in 0 .. made - 1
    BY <1>2, InNat
  <2>1. CASE Free(i)
    BY <2>0, <2>1, FreeKept
  <2>2. CASE i \in cached
    <3>1. CASE Dropped(i)
      <4>1. Free(i)
        BY <1>2, <3>1 DEF Dropped, MemInv, GoneInv
      <4>2. QED
        BY <2>0, <4>1, FreeKept
    <3>2. CASE Crashed
      BY <1>2, <3>2 DEF Crashed
    <3>3. QED
      BY <2>2, <3>1, <3>2, CacheSteps
  <2>3. CASE Saving(i)
    <3>1. PICK t \in Task : pc[t] = "insert" /\ Child(t) = i
      BY <2>3 DEF Saving
    <3>2. CASE Same(t)
      BY <3>1, <3>2 DEF Same, Saving, Child
    <3>3. CASE Stops(t)
      BY <3>1, <3>3, ChildFreed DEF HasChild
    <3>4. CASE Moves(t)
      BY <3>1, <3>4 DEF Moves
    <3>5. CASE Saves(t)
      BY <3>1, <3>5 DEF Saves
    <3>6. CASE Begins(t)
      BY <3>1, <3>6 DEF Begins
    <3>7. QED
      BY <3>2, <3>3, <3>4, <3>5, <3>6, TaskSteps
  <2>4. QED
    BY <1>2, <2>1, <2>2, <2>3 DEF MemInv, HeldInv
<1>3. QED
  BY <1>1, <1>2

LEMMA GoneStep == TypeInv /\ CallInv /\ MemInv /\ [Next]_vars => GoneInv'
<1> SUFFICES ASSUME TypeInv, CallInv, MemInv, [Next]_vars, NEW c \in Client, pc'[c] = "evict",
                    NEW i \in Found(c)' \cap rows'
             PROVE  Free(i)'
  BY DEF GoneInv
<1>1. ASSUME pc[c] = "evict", i \in Found(c) PROVE Free(i)'
  <2>1. Found(c) \subseteq 0 .. made - 1
    BY <1>1 DEF TypeInv, ActorsTyped, ClientTyped, DeleteLabel
  <2>2. CASE i \in rows
    BY <1>1, <2>1, <2>2, FreeKept DEF MemInv, GoneInv
  <2>3. CASE i \notin rows
    <3>1. Written(i)
      BY <2>3, RowSteps
    <3>2. i # made
      BY <1>1, <2>1, InNat
    <3>3. QED
      BY <3>1, <3>2, ChildFreed DEF Written, HasChild
  <2>4. QED
    BY <2>2, <2>3
<1>2. CASE pc[c] = "evict" /\ i \in Found(c)
  BY <1>1, <1>2
<1>3. CASE rows' = rows \ Found(c) /\ Found(c)' = Found(c)
  BY <1>3
<1>4. ~Collect(c)
  BY CollectTyped
<1>5. QED
  BY <1>2, <1>3, <1>4, ClientSteps DEF ClientMoves, DeleteLabel

(* The object a sub-agent runs for is not made anew.                        *)
LEMMA SessListed ==
    ASSUME TypeInv, CallInv, MemInv, [Next]_vars, NEW t \in Task, pc[t] \in HasChild, ~Crashed,
           Sess(t) \in cached'
    PROVE  Sess(t) \in cached /\ ToSet(kids[Sess(t)]) \subseteq ToSet(kids'[Sess(t)])
<1> DEFINE p == Sess(t)
<1>1. p \in 0 .. made - 1 /\ p # made
  BY InNat DEF TypeInv, ActorsTyped, TaskTyped, HasChild
<1>2. ASSUME NEW u \in Task, pc[u] = "insert", Child(u) = p PROVE FALSE
  BY <1>2 DEF CallInv, HasChild
<1>3. ~Free(p) /\ ~Saving(p)
  BY <1>2 DEF Free, Saving, HasChild
<1>4. p \in rows => p \in cached
  BY <1>3 DEF MemInv, HeldInv
<1>5. Listed(p)
  BY CacheSteps
<1> HIDE DEF p
<1>6. p \in cached /\ ToSet(kids[p]) \subseteq ToSet(kids'[p])
  BY <1>1, <1>2, <1>4, <1>5 DEF Listed
<1>7. QED
  BY <1>6 DEF p

LEMMA ToldStep == TypeInv /\ CallInv /\ MemInv /\ [Next]_vars => ToldInv'
<1> SUFFICES ASSUME TypeInv, CallInv, MemInv, [Next]_vars, NEW t \in Task, pc'[t] \in Told,
                    Sess(t)' \in cached'
             PROVE  Child(t)' \in ToSet(kids'[Sess(t)'])
  BY DEF ToldInv
<1>1. ~Crashed
  BY Bounds DEF Crashed, Told
<1>2. ASSUME pc[t] \in Told, Child(t)' = Child(t), Sess(t)' = Sess(t)
      PROVE  Child(t)' \in ToSet(kids'[Sess(t)'])
  <2>1. Sess(t) \in cached /\ ToSet(kids[Sess(t)]) \subseteq ToSet(kids'[Sess(t)])
    BY <1>1, <1>2, SessListed DEF Told, HasChild
  <2>2. QED
    BY <1>2, <2>1 DEF MemInv, ToldInv
<1>3. CASE Same(t)
  BY <1>2, <1>3 DEF Same, Child, Sess
<1>4. CASE Moves(t)
  BY <1>2, <1>4 DEF Moves, Told
<1>5. ~Stops(t) /\ ~Saves(t) /\ ~Begins(t)
  BY DEF Stops, Saves, Begins, Told
<1>6. QED
  BY <1>3, <1>4, <1>5, TaskSteps

LEMMA MemStep == TypeInv /\ CallInv /\ MemInv /\ [Next]_vars => MemInv'
BY HeldStep, GoneStep, ToldStep DEF MemInv

(***************************************************************************)
(* The lists of children.                                                  *)
(***************************************************************************)
ListInv ==
    ~torn => \A i \in rows : parent[i] \in cached =>
                 \/ i \in ToSet(kids[parent[i]])
                 \/ \E t \in Task : pc[t] \in New /\ Child(t) = i

LEMMA InitLists == Init => ListInv
<1> SUFFICES ASSUME Init, NEW i \in rows, parent[i] \in cached
             PROVE  i \in ToSet(kids[parent[i]])
  BY DEF ListInv
<1>1. i \in 0 .. Start - 1 /\ Start \in Nat /\ i \in Id /\ cached = 0 .. Start - 1
      /\ NoId \notin cached
  <2>1. Start \in Start .. MaxSessions
    BY Bounds
  <2>2. QED
    BY <2>1, Bounds DEF Init
<1>2. i \in 1 .. Start - 1 /\ parent[i] = i - 1 /\ i - 1 \in Id
  BY <1>1, Bounds DEF Init
<1>3. kids[i - 1] = <<i>>
  <2>1. (i - 1) + 1 = i /\ i < Start
    BY <1>1, <1>2
  <2>2. QED
    BY <1>2, <2>1 DEF Init
<1>4. QED
  BY <1>2, <1>3 DEF ToSet

(* Parents are written once.                                               *)
LEMMA ParentsStay ==
    ASSUME TypeInv, [Next]_vars
    PROVE  \A i \in 0 .. made - 1 : parent'[i] = parent[i]
<1> DEFINE Result == \A i \in 0 .. made - 1 : parent'[i] = parent[i]
<1>1. ASSUME UNCHANGED parent PROVE Result
  BY <1>1
<1>2. ASSUME NEW t \in Task, Step(t), ~SaveRow(t) PROVE UNCHANGED parent
  BY <1>2 DEF Step, ResolveRoot, ResolveChain, Insert, PushChild, TurnFails, FindChild, SaveMessage,
              Persist, Drop, tree
<1>3. ASSUME NEW t \in Task, SaveRow(t) PROVE Result
  <2>1. Makes(Sess(t), local[t].chain) /\ Sess(t) \in 0 .. made - 1 /\ local[t].chain \in Seq(Id)
        /\ TreeTyped
    BY <1>3, SaveRowTyped DEF TypeInv
  <2>2. QED
    BY <2>1, MakesTyped
<1>4. ASSUME NEW t \in Task, NEW u \in (Task \ {t}) \cup {Turn}, NEW s \in Id, Spawn(t, u, s)
      PROVE  UNCHANGED parent
  BY <1>4 DEF Spawn, tree
<1>5. ASSUME NEW c \in Client, Request(c) PROVE UNCHANGED parent
  BY <1>5, RequestCalm
<1>6. CASE Crash
  BY <1>1, <1>6 DEF Crash, tree
<1>7. CASE UNCHANGED vars
  BY <1>1, <1>7 DEF vars, tree
<1>8. QED
  BY <1>1, <1>2, <1>3, <1>4, <1>5, <1>6, <1>7 DEF Next

(* Restarts are counted.                                                   *)
LEMMA NoCrash ==
    ASSUME Next, ~Crash
    PROVE  UNCHANGED crashes
<1>1. ASSUME NEW t \in Task, Step(t) PROVE UNCHANGED crashes
  BY <1>1 DEF Step, ResolveRoot, ResolveChain, SaveRow, Insert, PushChild, TurnFails, FindChild,
              SaveMessage, Persist, Drop, count
<1>2. ASSUME NEW t \in Task, NEW u \in (Task \ {t}) \cup {Turn}, NEW s \in Id, Spawn(t, u, s)
      PROVE  UNCHANGED crashes
  BY <1>2 DEF Spawn, count
<1>3. ASSUME NEW c \in Client, Request(c) PROVE UNCHANGED crashes
  <2>1. ASSUME NEW i \in Id, Delete(c, i) \/ DeleteTree(c, i) \/ GetTree(c, i) \/ Copy(c, i)
        PROVE  UNCHANGED crashes
    BY <2>1 DEF Delete, DeleteTree, GetTree, Copy
  <2>2. ASSUME Collect(c) \/ Collected(c) \/ Answered(c) \/ DeleteRows(c) PROVE UNCHANGED crashes
    BY <2>2 DEF Collect, Collected, Answered, DeleteRows, count
  <2>3. ASSUME Evict(c) PROVE UNCHANGED crashes
    BY <2>3 DEF Evict, count
  <2>4. ASSUME Visit(c) PROVE UNCHANGED crashes
    BY <2>4 DEF Visit, count
  <2>5. QED
    BY <1>3, <2>1, <2>2, <2>3, <2>4 DEF Request
<1>4. QED
  BY <1>1, <1>2, <1>3 DEF Next

(* A new child is listed once its call has gone on, unless it is dropped.   *)
LEMMA NewListed ==
    ASSUME TypeInv, CallInv, MemInv, [Next]_vars, NEW t \in Task, pc[t] \in New, ~Torn,
           parent[Child(t)] \in cached'
    PROVE  \/ Child(t) \in ToSet(kids'[parent[Child(t)]])
           \/ pc'[t] \in New /\ Child(t)' = Child(t)
<1>1. parent[Child(t)] = Sess(t)
  BY DEF New, HasChild, TypeInv, ActorsTyped, TaskTyped
<1>2. pc'[t] # "idle"
  BY DEF Torn, New
<1>3. CASE Same(t)
  BY <1>3 DEF Same, Child
<1>4. CASE Moves(t)
  BY <1>1, <1>4 DEF Moves, New
<1>5. ~Stops(t) /\ ~Saves(t) /\ ~Begins(t)
  BY <1>2 DEF Stops, Saves, Begins, New
<1>6. QED
  BY <1>3, <1>4, <1>5, TaskSteps

LEMMA CrashLists ==
    ASSUME TypeInv, Crash
    PROVE  ListInv'
<1>1. UNCHANGED tree /\ cached' = rows /\ \A i \in Id : ToSet(kids'[i]) = Children(i)
  BY CrashTyped
<1>2. ASSUME NEW i \in rows, parent[i] \in rows PROVE i \in ToSet(kids'[parent[i]])
  <2>1. parent[i] \in Id
    BY <1>2, InNat
  <2>2. QED
    BY <1>1, <1>2, <2>1 DEF Children
<1>3. QED
  BY <1>1, <1>2 DEF ListInv, tree

LEMMA ListStep == TypeInv /\ CallInv /\ MemInv /\ ListInv /\ [Next]_vars => ListInv'
<1> SUFFICES ASSUME TypeInv, CallInv, MemInv, ListInv, [Next]_vars PROVE ListInv'
  OBVIOUS
<1>1. CASE UNCHANGED vars
  BY <1>1 DEF vars, tree, mem, ListInv, Child
<1>2. CASE Crash
  BY <1>2, CrashLists
<1>3. CASE torn'
  BY <1>3 DEF ListInv
<1>4. CASE Next /\ ~Crash /\ ~torn'
  <2>1. ~torn /\ ~Torn
    BY <1>4, NoCrash DEF Next
  <2>2. SUFFICES ASSUME NEW i \in rows', parent'[i] \in cached'
                 PROVE  \/ i \in ToSet(kids'[parent'[i]])
                        \/ \E t \in Task : pc'[t] \in New /\ Child(t)' = i
    BY DEF ListInv
  <2> DEFINE p == parent[i]
  <2>3. CASE i \notin rows
    <3>1. Written(i)
      BY <2>3, RowSteps
    <3>2. parent'[i] # NoId
      BY <2>2, TypeStep, InNat, Bounds DEF TypeInv, TreeTyped, MemTyped
    <3>3. ASSUME NEW t \in Task, Saves(t), i = made PROVE pc'[t] \in New /\ Child(t)' = i
      BY <3>3 DEF Saves, New
    <3>4. ASSUME NEW t \in Task, pc[t] = "persist", i = Child(t), UNCHANGED mem
          PROVE  i \in ToSet(kids'[parent'[i]])
      <4>1. p = Sess(t) /\ i \in Start .. made - 1 /\ Start \in Nat /\ made \in Nat
        BY <3>4, Bounds, InNat DEF TypeInv, ActorsTyped, TaskTyped, HasChild
      <4>2. i \in 0 .. made - 1
        BY <4>1, Wider
      <4>3. parent'[i] = p
        BY <4>2, ParentsStay
      <4>4. UNCHANGED <<cached, kids>>
        BY <3>4 DEF mem
      <4>5. QED
        BY <2>2, <3>4, <4>1, <4>3, <4>4 DEF MemInv, ToldInv, Told
    <3>5. QED
      BY <3>1, <3>2, <3>3, <3>4 DEF Written
  <2>4. CASE i \in rows
    <3>1. i \in 0 .. made - 1 /\ i \in Id /\ parent'[i] = p /\ p \in cached'
      BY <2>2, <2>4, InNat, ParentsStay
    <3>2. p # made
      <4>1. p = NoId \/ p \in 0 .. i - 1
        BY <3>1 DEF TypeInv, TreeTyped, Older
      <4>2. i \in Nat /\ i < made /\ made \in Nat
        BY <3>1, InNat
      <4>3. p # NoId
        BY <3>1, TypeStep, InNat, Bounds DEF TypeInv, TreeTyped, MemTyped
      <4> HIDE DEF p
      <4>4. QED
        BY <4>1, <4>2, <4>3
    <3>3. \A t \in Task : pc[t] = "insert" => Child(t) # p
      BY <3>1 DEF CallInv, New
    <3>4. Listed(p)
      BY <3>1, CacheSteps
    <3>5. CASE p \in cached /\ ToSet(kids[p]) \subseteq ToSet(kids'[p])
      <4>1. i \in ToSet(kids[p]) \/ \E t \in Task : pc[t] \in New /\ Child(t) = i
        BY <2>1, <2>4, <3>5 DEF ListInv
      <4>2. ASSUME NEW t \in Task, pc[t] \in New, Child(t) = i
            PROVE  i \in ToSet(kids'[p]) \/ (pc'[t] \in New /\ Child(t)' = i)
        BY <2>1, <3>1, <4>2, NewListed
      <4>3. QED
        BY <3>1, <3>5, <4>1, <4>2
    <3>6. CASE ToSet(kids'[p]) = Children(p)
      BY <2>4, <3>1, <3>6 DEF Children
    <3>7. QED
      <4> HIDE DEF p
      <4>1. QED
        BY <3>1, <3>2, <3>3, <3>4, <3>5, <3>6 DEF Listed
  <2>5. QED
    BY <2>3, <2>4
<1>5. QED
  BY <1>1, <1>2, <1>3, <1>4

(***************************************************************************)
(* The tree.  Whoever makes or stores a session does so under one that has  *)
(* a row, and whoever deletes a tree has found all of it, unless the two    *)
(* met.                                                                    *)
(***************************************************************************)
Rooted      == \A i \in rows : parent[i] \in rows \cup {NoId}
Backed      == \A i \in cached \ rows : Dropped(i)
Standing(t) == /\ pc[t] = "saveRow" => Sess(t) \in rows
               /\ pc[t] \in {"insert", "persist"} => Child(t) \in rows
Gathered(c) ==
    /\ pc[c] = "collect" =>
           \A i \in rows : parent[i] \in Found(c) =>
               i \in Found(c) \/ parent[i] \in ToSet(local[c].stack)
    /\ pc[c] = "deleteRows" => \A i \in rows : parent[i] \in Found(c) => i \in Found(c)
Whole ==
    /\ Rooted /\ Backed /\ ~Overlap
    /\ \A t \in Task : Standing(t)
    /\ \A c \in Client : Gathered(c)
WholeInv == ~overlapped => Whole

LEMMA InitWhole == Init => WholeInv
<1> SUFFICES ASSUME Init PROVE Whole
  BY DEF WholeInv
<1>1. Start \in Nat /\ 0 .. Start - 1 \subseteq Id /\ \A a \in Actor : pc[a] = "idle"
  <2>1. Start \in Start .. MaxSessions
    BY Bounds
  <2>2. QED
    BY <2>1, Bounds DEF Init
<1>2. Rooted
  <2>1. ASSUME NEW i \in rows PROVE parent[i] \in rows \cup {NoId}
    <3>1. i \in 0 .. Start - 1 /\ i \in Id /\ rows = 0 .. Start - 1
      BY <1>1 DEF Init
    <3>2. CASE i \in 1 .. Start - 1
      <4>1. parent[i] = i - 1 /\ i - 1 \in 0 .. Start - 1
        BY <1>1, <3>1, <3>2 DEF Init
      <4>2. QED
        BY <3>1, <4>1
    <3>3. CASE i \notin 1 .. Start - 1
      BY <3>1, <3>3 DEF Init
    <3>4. QED
      BY <3>2, <3>3
  <2>2. QED
    BY <2>1 DEF Rooted
<1>3. Backed
  BY DEF Init, Backed
<1>4. ~Overlap /\ (\A t \in Task : Standing(t)) /\ \A c \in Client : Gathered(c)
  BY <1>1, Bounds DEF Overlap, Making, Standing, Gathered
<1>5. QED
  BY <1>2, <1>3, <1>4 DEF Whole

(* Under a deletion no session is made or stored.                          *)
LEMMA NoneErased ==
    ASSUME TypeInv, [Next]_vars, ~Overlap, NEW t \in Task, Making(t), NEW i \in rows
    PROVE  i \in rows'
<1>1. \A c \in Client : pc[c] # "deleteRows"
  BY DEF Overlap, Deleting
<1>2. QED
  BY <1>1, RowSteps DEF Erased

LEMMA WrittenRooted ==
    ASSUME TypeInv, [Next]_vars, Whole, NEW i \in rows' \ rows
    PROVE  /\ i = made
           /\ \/ parent'[i] = NoId
              \/ \E t \in Task : Saves(t) /\ parent'[i] = Sess(t) /\ Sess(t) \in rows
<1>1. Written(i)
  BY RowSteps
<1>2. ASSUME NEW t \in Task, Saves(t), i = made PROVE parent'[i] = Sess(t) /\ Sess(t) \in rows
  <2>1. pc'[t] = "insert" /\ Child(t)' = i /\ Sess(t)' = Sess(t) /\ pc[t] = "saveRow"
    BY <1>2 DEF Saves
  <2>2. TypeInv'
    BY TypeStep
  <2>3. parent'[Child(t)'] = Sess(t)'
    BY <2>1, <2>2 DEF TypeInv, ActorsTyped, TaskTyped, HasChild
  <2>4. QED
    BY <2>1, <2>3 DEF Whole, Standing
<1>3. ASSUME NEW t \in Task, pc[t] = "persist", i = Child(t) PROVE FALSE
  BY <1>3 DEF Whole, Standing
<1>4. QED
  BY <1>1, <1>2, <1>3 DEF Written

LEMMA RootedStep == TypeInv /\ Whole /\ [Next]_vars => Rooted'
<1> SUFFICES ASSUME TypeInv, Whole, [Next]_vars, NEW i \in rows'
             PROVE  parent'[i] \in rows' \cup {NoId}
  BY DEF Rooted
<1>1. CASE i \notin rows
  <2>1. ASSUME NEW t \in Task, Saves(t), Sess(t) \in rows PROVE Sess(t) \in rows'
    BY <2>1, NoneErased DEF Saves, Making, Whole
  <2>2. QED
    BY <1>1, <2>1, WrittenRooted
<1>2. CASE i \in rows
  <2>1. parent'[i] = parent[i] /\ parent[i] \in rows \cup {NoId}
    BY <1>2, InNat, ParentsStay DEF Whole, Rooted
  <2>2. ASSUME parent[i] \in rows \ rows' PROVE FALSE
    <3>1. PICK c \in Client : pc[c] = "deleteRows" /\ parent[i] \in Found(c) /\ rows' = rows \ Found(c)
      BY <2>2, RowSteps DEF Erased
    <3>2. i \in Found(c)
      BY <1>2, <3>1 DEF Whole, Gathered
    <3>3. QED
      BY <3>1, <3>2
  <2>3. QED
    BY <2>1, <2>2
<1>3. QED
  BY <1>1, <1>2

LEMMA BackedStep == TypeInv /\ Whole /\ [Next]_vars => Backed'
<1> SUFFICES ASSUME TypeInv, Whole, [Next]_vars, NEW i \in cached' \ rows'
             PROVE  \E c \in Client : pc'[c] = "evict" /\ i \in Found(c)'
  BY DEF Backed, Dropped
<1>1. CASE i \in rows
  <2>1. Erased(i)
    BY <1>1, RowSteps
  <2>2. QED
    BY <2>1 DEF Erased
<1>2. CASE i \notin rows
  <2>0. i \in cached' /\ i \notin rows'
    OBVIOUS
  <2>1. i \in cached
    <3>1. \A t \in Task : pc[t] = "insert" => Child(t) \in rows
      BY DEF Whole, Standing
    <3>2. i \notin cached => i \in rows \cup rows' \/ \E t \in Task : pc[t] = "insert" /\ Child(t) = i
      BY <2>0, CacheSteps
    <3>3. QED
      BY <1>2, <2>0, <3>1, <3>2
  <2>2. PICK c \in Client : pc[c] = "evict" /\ i \in Found(c)
    BY <1>2, <2>1 DEF Whole, Backed, Dropped
  <2>3. ~Crashed
    BY DEF Crashed
  <2>4. ~Collect(c)
    BY <2>2 DEF Collect
  <2>5. QED
    BY <2>2, <2>3, <2>4, ClientSteps DEF ClientMoves
<1>3. QED
  BY <1>1, <1>2

LEMMA StandingStep == TypeInv /\ Whole /\ [Next]_vars => \A t \in Task : Standing(t)'
<1> SUFFICES ASSUME TypeInv, Whole, [Next]_vars, NEW t \in Task PROVE Standing(t)'
  OBVIOUS
<1>1. Standing(t)
  BY DEF Whole
<1>2. ASSUME pc[t] \in {"saveRow", "insert", "persist"} PROVE rows \subseteq rows'
  BY <1>2, NoneErased DEF Making, Whole
<1>3. CASE Same(t)
  <2>1. Child(t)' = Child(t) /\ Sess(t)' = Sess(t) /\ pc'[t] = pc[t]
    BY <1>3 DEF Same, Child, Sess
  <2>2. QED
    BY <1>1, <1>2, <2>1 DEF Standing
<1>4. CASE Moves(t)
  BY <1>4 DEF Moves, Standing
<1>5. CASE Stops(t) \/ Begins(t)
  BY <1>5 DEF Stops, Begins, Standing
<1>6. CASE Saves(t)
  BY <1>6 DEF Saves, Standing
<1>7. QED
  BY <1>3, <1>4, <1>5, <1>6, TaskSteps

LEMMA GatheredStep == TypeInv /\ Whole /\ [Next]_vars => \A c \in Client : Gathered(c)'
<1> SUFFICES ASSUME TypeInv, Whole, [Next]_vars, NEW c \in Client PROVE Gathered(c)'
  OBVIOUS
<1>1. Gathered(c)
  BY DEF Whole
<1>2. ASSUME pc[c] \in DeleteLabel, NEW i \in rows', parent'[i] \in Found(c)
      PROVE  i \in rows /\ parent'[i] = parent[i]
  <2>1. i \in rows
    <3>1. \A t \in Task : ~Saves(t)
      BY <1>2 DEF Saves, Making, Deleting, DeleteLabel, Overlap, Whole
    <3>2. parent'[i] # NoId
      BY <1>2, InNat, Bounds DEF TypeInv, ActorsTyped, ClientTyped
    <3>3. QED
      BY <3>1, <3>2, WrittenRooted
  <2>2. QED
    BY <2>1, InNat, ParentsStay
<1>3. CASE pc'[c] = pc[c] /\ Found(c)' = Found(c) /\ local'[c] = local[c]
  BY <1>1, <1>2, <1>3 DEF Gathered, DeleteLabel
<1>4. CASE pc'[c] \notin DeleteLabel \/ pc'[c] = "evict"
  BY <1>4 DEF Gathered, DeleteLabel
<1>5. ASSUME NEW j \in Id, pc'[c] = "collect", Found(c)' = {j}, ToSet(local'[c].stack) = {j}
      PROVE  Gathered(c)'
  BY <1>5 DEF Gathered
<1>6. ASSUME NEW j \in Id, pc'[c] = "deleteRows", Found(c)' = {j}, Children(j) = {},
             UNCHANGED <<rows, parent>>
      PROVE  Gathered(c)'
  BY <1>6 DEF Gathered, Children
<1>7. CASE Collect(c)
  <2>1. UNCHANGED <<rows, parent>> /\ pc'[c] = "collect" /\ pc[c] = "collect"
    BY <1>7, CollectTyped DEF tree
  <2>2. PICK j \in Id : /\ j \in ToSet(local[c].stack)
                        /\ Found(c)' = Found(c) \cup Children(j)
                        /\ ToSet(local[c].stack) \subseteq ToSet(local'[c].stack) \cup {j}
                        /\ Children(j) \subseteq ToSet(local'[c].stack)
    BY <1>7, CollectTyped
  <2>3. ASSUME NEW i \in rows, parent[i] \in Found(c)'
        PROVE  i \in Found(c)' \/ parent[i] \in ToSet(local'[c].stack)
    <3>1. CASE parent[i] \in Children(j)
      BY <2>2, <3>1
    <3>2. CASE parent[i] = j
      BY <2>2, <3>2 DEF Children
    <3>3. CASE parent[i] \in Found(c) /\ parent[i] # j
      BY <1>1, <2>1, <2>2, <3>3 DEF Gathered
    <3>4. QED
      BY <2>2, <2>3, <3>1, <3>2, <3>3
  <2>4. QED
    BY <2>1, <2>3 DEF Gathered
<1>8. CASE /\ pc[c] = "collect" /\ pc'[c] = "deleteRows" /\ Found(c)' = Found(c)
           /\ ToSet(local[c].stack) = {} /\ UNCHANGED <<rows, parent>>
  BY <1>1, <1>8 DEF Gathered
<1>9. QED
  BY <1>3, <1>4, <1>5, <1>6, <1>7, <1>8, ClientSteps DEF ClientMoves

LEMMA WholeStep == TypeInv /\ WholeInv /\ [Next]_vars => WholeInv'
<1> SUFFICES ASSUME TypeInv, WholeInv, [Next]_vars, ~overlapped' PROVE Whole'
  BY DEF WholeInv
<1>1. CASE UNCHANGED vars
  <2>1. Whole
    BY <1>1 DEF WholeInv, vars
  <2>2. Whole' = Whole
    BY <1>1 DEF vars, tree, mem, Whole, Rooted, Backed, Dropped, Overlap, Making, Deleting, Standing,
                Gathered, Found, Sess, Child
  <2>3. QED
    BY <2>1, <2>2
<1>2. CASE Next
  <2>1. ~overlapped /\ ~Overlap'
    BY <1>2 DEF Next
  <2>2. Whole
    BY <2>1 DEF WholeInv
  <2>3. QED
    BY <2>1, <2>2, RootedStep, BackedStep, StandingStep, GatheredStep DEF Whole
<1>3. QED
  BY <1>1, <1>2

(***************************************************************************)
(* Reading.  The tree is explored: what was found and what lies ahead is    *)
(* below the root, its parents have been found, and all children of what    *)
(* was found are among it, down to the depth.                              *)
(***************************************************************************)
Dist(r, i) == Len(Walk[i]) - Len(Walk[r])
Ahead(N)   == {n[1] : n \in N}
Nodes(node, L) == IF node[2] = 0 THEN {} ELSE {<<d, node[2] - 1>> : d \in L}
Explores(r, F, N) ==
    /\ F \subseteq rows /\ F \cap Ahead(N) = {} /\ r \in F \cup Ahead(N)
    /\ \A j \in F \cup Ahead(N) :
          /\ j \in 0 .. made - 1 /\ r \in ToSet(Walk[j]) /\ Dist(r, j) <= Depth
          /\ j = r \/ parent[j] \in F
    /\ \A n \in N : n[2] = Depth - Dist(r, n[1])
    /\ \A i \in F : Dist(r, i) < Depth => Children(i) \subseteq F \cup Ahead(N)
Reading(c) == pc[c] = "visit" /\ local[c].before = <<made, rows>> /\ ~torn /\ ~overlapped
ReadInv ==
    \A c \in Client : Reading(c) =>
        /\ IsInjective(local[c].found) /\ IsInjective(local[c].stack)
        /\ Explores(Sess(c), Found(c), ToSet(local[c].stack))

LEMMA WalkBelow ==
    ASSUME TreeTyped, NEW i \in Id
    PROVE  /\ i \in ToSet(Walk[i]) /\ \A j \in ToSet(Walk[i]) : j <= i
           /\ ToSet(Walk[i]) = ToSet(Walk[parent[i]]) \cup {i}
           /\ Len(Walk[i]) = Len(Walk[parent[i]]) + 1 /\ Len(Walk[i]) \in Nat
           /\ Walk[NoId] = <<>> /\ ToSet(Walk[NoId]) = {}
           /\ parent[i] = NoId \/ (parent[i] \in Id /\ parent[i] < i /\ i < made)
<1>1. /\ Walk[NoId] = <<>>
      /\ \A k \in Id : Walk[k] = Append(Walk[parent[k]], k)
      /\ \A k \in Ids : Walk[k] \in Seq(Id)
  BY WalkTyped
<1>2. \A k \in Id : parent[k] \in Ids /\ (parent[k] = NoId \/ (parent[k] \in Id /\ parent[k] < k /\ k < made))
  BY OlderBelow DEF TreeTyped, Ids
<1>3. \A k \in Id : /\ ToSet(Walk[k]) = ToSet(Walk[parent[k]]) \cup {k}
                    /\ Len(Walk[k]) = Len(Walk[parent[k]]) + 1 /\ Len(Walk[k]) \in Nat
  <2>1. TAKE k \in Id
  <2>2. Walk[parent[k]] \in Seq(Id) /\ Walk[k] = Append(Walk[parent[k]], k)
    BY <1>1, <1>2
  <2>3. ToSet(Append(Walk[parent[k]], k)) = ToSet(Walk[parent[k]]) \cup {k}
    BY <2>2, SetOfAppend
  <2>4. Len(Append(Walk[parent[k]], k)) = Len(Walk[parent[k]]) + 1 /\ Len(Walk[parent[k]]) \in Nat
    BY <2>2, AppendProperties, LenProperties
  <2>5. QED
    BY <2>2, <2>3, <2>4
<1>4. ToSet(<<>>) = {}
  BY DEF ToSet
<1> DEFINE S == {n \in Nat : \A k \in Id : k < n => \A j \in ToSet(Walk[k]) : j <= k}
<1>5. 0 \in S
  BY Bounds
<1>6. ASSUME NEW n \in S PROVE n + 1 \in S
  <2>1. n \in Nat /\ n + 1 \in Nat /\ \A k \in Id : k < n => \A j \in ToSet(Walk[k]) : j <= k
    OBVIOUS
  <2>2. ASSUME NEW k \in Id, k < n + 1, NEW j \in ToSet(Walk[k]) PROVE j <= k
    <3>1. k \in Nat /\ (parent[k] \in Id => parent[k] \in Nat)
      BY Bounds
    <3>2. CASE j = k
      BY <3>1, <3>2
    <3>3. CASE j # k
      <4>1. j \in ToSet(Walk[parent[k]])
        BY <1>3, <2>2, <3>3
      <4>2. parent[k] # NoId
        BY <1>1, <1>4, <4>1
      <4>3. parent[k] \in Id /\ parent[k] < k /\ parent[k] < n
        BY <1>2, <2>1, <2>2, <3>1, <4>2
      <4>4. j <= parent[k] /\ j \in Id
        <5>1. ToSet(Walk[parent[k]]) \subseteq Id
          BY <1>1, <4>3, SetOf DEF Ids
        <5>2. QED
          BY <2>1, <4>1, <4>3, <5>1
      <4>5. j \in Nat
        BY <4>4, Bounds
      <4>6. QED
        BY <3>1, <4>3, <4>4, <4>5
    <3>4. QED
      BY <3>2, <3>3
  <2>3. QED
    BY <2>1, <2>2
<1>7. S = Nat
  <2>1. S \in SUBSET Nat
    OBVIOUS
  <2> HIDE DEF S
  <2>2. QED
    BY <1>5, <1>6, <2>1, SetInduction
<1>8. \A j \in ToSet(Walk[i]) : j <= i
  <2>1. MaxSessions \in S /\ i < MaxSessions
    BY <1>7, Bounds
  <2>2. QED
    BY <2>1
<1>9. QED
  BY <1>1, <1>2, <1>3, <1>4, <1>8

LEMMA ExploresOn ==
    ASSUME TreeTyped, NEW r \in Id, NEW F, NEW T \in SUBSET (Id \X Nat), NEW h \in Id \X Nat, h \notin T,
           Explores(r, F, T \cup {h}), h[1] \in rows,
           NEW L \in SUBSET Id, Children(h[1]) \subseteq L, \A d \in L : parent[d] = h[1]
    PROVE  /\ Explores(r, F \cup {h[1]}, Nodes(h, L) \cup T)
           /\ h[1] \notin F /\ Nodes(h, L) \cap T = {}
<1> DEFINE E == Nodes(h, L)
           i == h[1]
           k == h[2]
           D == IF k = 0 THEN {} ELSE L
           X == Ahead(T)
<1>1. i \in Id /\ k \in Nat /\ h = <<i, k>> /\ \A n \in T : n = <<n[1], n[2]>> /\ n[1] \in Id
  OBVIOUS
<1>2. Ahead(T \cup {h}) = X \cup {i} /\ Ahead(E) = D /\ Ahead(E \cup T) = D \cup X
  <2>1. Ahead(E) = D
    <3>1. CASE k = 0
      BY <3>1 DEF Ahead, Nodes
    <3>2. CASE k # 0
      <4>1. E = {<<d, k - 1>> : d \in L} /\ D = L
        BY <3>2 DEF Nodes
      <4>2. ASSUME NEW d \in L PROVE d \in Ahead(E)
        <5>1. <<d, k - 1>> \in E /\ <<d, k - 1>>[1] = d
          BY <4>1
        <5>2. QED
          BY <5>1 DEF Ahead
      <4>3. ASSUME NEW e \in E PROVE e[1] \in L
        BY <4>1
      <4>4. Ahead(E) \subseteq L
        BY <4>3 DEF Ahead
      <4>5. QED
        BY <4>1, <4>2, <4>4
    <3>3. QED
      BY <3>1, <3>2
  <2>2. QED
    BY <2>1 DEF Ahead
<1>3. i \notin F /\ k = Depth - Dist(r, i) /\ i \notin X
  <2>1. i \notin F /\ k = Depth - Dist(r, i)
    BY <1>2 DEF Explores
  <2>2. ASSUME NEW n \in T, n[1] = i PROVE FALSE
    <3>1. n[2] = Depth - Dist(r, i)
      BY <2>2 DEF Explores
    <3>2. QED
      BY <1>1, <2>1, <2>2, <3>1
  <2>3. QED
    BY <2>1, <2>2 DEF Ahead
<1>4. /\ i \in 0 .. made - 1 /\ r \in ToSet(Walk[i]) /\ Dist(r, i) <= Depth /\ r <= i
      /\ Len(Walk[r]) \in Nat /\ Len(Walk[i]) \in Nat /\ Dist(r, i) \in Int /\ Depth \in Nat
  <2>1. i \in 0 .. made - 1 /\ r \in ToSet(Walk[i]) /\ Dist(r, i) <= Depth
    BY <1>2 DEF Explores
  <2>2. r <= i /\ Len(Walk[i]) \in Nat /\ Len(Walk[r]) \in Nat
    BY <1>1, <2>1, WalkBelow
  <2>3. QED
    BY <2>1, <2>2, Bounds DEF Dist
<1>5. ASSUME NEW d \in L
      PROVE  /\ d \in 0 .. made - 1 /\ r \in ToSet(Walk[d]) /\ Dist(r, d) = Dist(r, i) + 1
             /\ parent[d] = i /\ d # i /\ d # r
  <2>1. parent[d] = i /\ i # NoId
    BY <1>1, Bounds
  <2>2. i < d /\ d < made /\ ToSet(Walk[d]) = ToSet(Walk[i]) \cup {d} /\ Len(Walk[d]) = Len(Walk[i]) + 1
    BY <1>1, <2>1, WalkBelow
  <2>3. d \in Nat /\ i \in Nat /\ r \in Nat /\ made \in Nat
    BY <1>1, Bounds DEF TreeTyped
  <2>4. QED
    BY <1>4, <2>1, <2>2, <2>3 DEF Dist
<1>6. D \cap F = {} /\ D \cap X = {} /\ i \notin D
  <2>1. ASSUME NEW d \in D, d \in F \cup X PROVE FALSE
    <3>1. d \in L /\ parent[d] = i /\ d # r
      BY <1>5
    <3>2. parent[d] \in F
      BY <1>2, <2>1, <3>1 DEF Explores
    <3>3. QED
      BY <1>3, <3>1, <3>2
  <2>2. QED
    BY <1>5, <2>1
<1>7. E \cap T = {}
  <2>1. ASSUME NEW e \in E, e \in T PROVE FALSE
    <3>1. e[1] \in Ahead(E) /\ e[1] \in X
      BY <2>1 DEF Ahead
    <3>2. QED
      BY <1>2, <1>6, <3>1
  <2>2. QED
    BY <2>1
<1> DEFINE G == F \cup {i}
           A == D \cup X
<1>8. F \cup Ahead(T \cup {h}) = G \cup X /\ G \cup A = (G \cup X) \cup D
  BY <1>2
<1>9. G \subseteq rows /\ G \cap A = {} /\ r \in G \cup A
  <2>1. F \subseteq rows /\ F \cap (X \cup {i}) = {} /\ r \in F \cup (X \cup {i})
    BY <1>2 DEF Explores
  <2>2. i \in rows /\ i \notin X
    BY <1>3
  <2> HIDE DEF D, X, i
  <2>3. QED
    BY <1>6, <2>1, <2>2
<1>10. ASSUME NEW j \in G \cup A
       PROVE  /\ j \in 0 .. made - 1 /\ r \in ToSet(Walk[j]) /\ Dist(r, j) <= Depth
              /\ j = r \/ parent[j] \in G
  <2>1. CASE j \in G \cup X
    BY <1>8, <2>1 DEF Explores
  <2>2. CASE j \in D
    <3>1. j \in L /\ k # 0
      BY <2>2
    <3>2. Dist(r, j) = Dist(r, i) + 1 /\ Dist(r, i) + 1 <= Depth
      BY <1>1, <1>3, <1>4, <1>5, <3>1
    <3>3. QED
      BY <1>5, <3>1, <3>2
  <2>3. QED
    BY <1>8, <2>1, <2>2
<1>11. ASSUME NEW n \in E \cup T PROVE n[2] = Depth - Dist(r, n[1])
  <2>1. CASE n \in T
    BY <2>1 DEF Explores
  <2>2. CASE n \in E
    <3>1. PICK d \in L : n = <<d, k - 1>>
      BY <2>2 DEF Nodes
    <3>2. Dist(r, d) = Dist(r, i) + 1
      BY <1>5
    <3>3. k - 1 = Depth - Dist(r, d)
      BY <1>1, <1>3, <1>4, <3>2
    <3>4. QED
      BY <3>1, <3>3
  <2>3. QED
    BY <2>1, <2>2
<1>12. ASSUME NEW j \in G, Dist(r, j) < Depth PROVE Children(j) \subseteq G \cup A
  <2>1. CASE j \in F
    BY <1>8, <1>12, <2>1 DEF Explores
  <2>2. CASE j = i
    <3>1. k # 0
      BY <1>3, <1>4, <1>12, <2>2
    <3>2. QED
      BY <2>2, <3>1
  <2>3. QED
    BY <2>1, <2>2
<1> HIDE DEF D, X
<1>13. Explores(r, G, E \cup T)
  BY <1>2, <1>9, <1>10, <1>11, <1>12 DEF Explores
<1>14. QED
  BY <1>3, <1>7, <1>13

(* When nothing lies ahead, the tree has been found.                       *)
LEMMA AllExplored ==
    ASSUME TreeTyped, Rooted, NEW r, NEW F, Explores(r, F, {})
    PROVE  F = {d \in Descendants(r) \cap rows : Near(r, d)}
<1> DEFINE Target == {d \in Descendants(r) \cap rows : Near(r, d)}
<1>1. Ahead({}) = {}
  BY DEF Ahead
<1>2. r \in F /\ F \subseteq rows /\ \A j \in F : j \in 0 .. made - 1 /\ r \in ToSet(Walk[j]) /\ Dist(r, j) <= Depth
  BY <1>1 DEF Explores
<1>3. F \subseteq Target
  BY <1>2 DEF Descendants, Near, Dist
<1>4. \A i \in F : Dist(r, i) < Depth => Children(i) \subseteq F
  BY <1>1 DEF Explores
<1>5. rows \subseteq Id /\ r \in Id
  BY <1>2, Bounds DEF TreeTyped
<1> DEFINE S == {n \in Nat : \A d \in Target : d < n => d \in F}
<1>6. 0 \in S
  <2>1. \A d \in Target : ~(d < 0)
    BY <1>5, Bounds
  <2> HIDE DEF Target
  <2>2. QED
    BY <2>1
<1>7. ASSUME NEW n \in S PROVE n + 1 \in S
  <2>1. n \in Nat /\ n + 1 \in Nat /\ \A d \in Target : d < n => d \in F
    OBVIOUS
  <2>2. ASSUME NEW d \in Target, d < n + 1, d # r PROVE d \in F
    <3>1. d \in 0 .. made - 1 /\ r \in ToSet(Walk[d]) /\ d \in rows /\ Dist(r, d) <= Depth /\ d \in Id
      BY <1>5 DEF Descendants, Near, Dist
    <3> DEFINE p == parent[d]
    <3>2. /\ ToSet(Walk[d]) = ToSet(Walk[p]) \cup {d} /\ ToSet(Walk[NoId]) = {}
          /\ Len(Walk[d]) = Len(Walk[p]) + 1
          /\ p = NoId \/ (p \in Id /\ p < d /\ d < made)
      BY <3>1, WalkBelow
    <3>3. r \in ToSet(Walk[p]) /\ p # NoId /\ p \in Id /\ p < d
      BY <2>2, <3>1, <3>2
    <3>4. p \in rows
      BY <3>1, <3>3 DEF Rooted
    <3>5. Len(Walk[p]) \in Nat /\ Len(Walk[r]) \in Nat
      BY <1>5, <3>3, WalkBelow
    <3>6. Dist(r, p) < Depth
      <4>1. Depth \in Nat /\ Len(Walk[d]) - Len(Walk[r]) <= Depth
        BY <3>1, Bounds DEF Dist
      <4>2. Len(Walk[p]) - Len(Walk[r]) < Depth
        <5>1. Len(Walk[d]) = Len(Walk[p]) + 1
          BY <3>2
        <5>2. \A x, y, z \in Nat : (x + 1) - y <= z => x - y < z
          OBVIOUS
        <5>3. (Len(Walk[p]) + 1) - Len(Walk[r]) <= Depth
          BY <4>1, <5>1
        <5> HIDE DEF p, S, Target
        <5>4. QED
          BY <3>5, <4>1, <5>2, <5>3
      <4>3. QED
        BY <4>2 DEF Dist
    <3>7. p \in 0 .. made - 1 /\ p < n
      <4>1. p \in Nat /\ d \in Nat /\ made \in Nat
        BY <3>1, <3>3, Bounds DEF TreeTyped
      <4>2. QED
        BY <2>1, <2>2, <3>1, <3>3, <4>1
    <3>8. p \in Target
      <4>1. Dist(r, p) <= Depth
        <5>1. Dist(r, p) \in Int /\ Depth \in Nat
          BY <3>5, Bounds DEF Dist
        <5>2. QED
          BY <3>6, <5>1
      <4>2. QED
        BY <3>3, <3>4, <3>7, <4>1 DEF Descendants, Near, Dist
    <3>9. p \in F
      BY <2>1, <3>7, <3>8
    <3>10. d \in Children(p)
      BY <3>1 DEF Children
    <3>11. QED
      BY <1>4, <3>6, <3>9, <3>10
  <2>3. QED
    BY <1>2, <2>1, <2>2
<1>8. S = Nat
  <2>1. S \in SUBSET Nat
    OBVIOUS
  <2> HIDE DEF S
  <2>2. QED
    BY <1>6, <1>7, <2>1, SetInduction
<1>9. Target \subseteq F
  <2>1. MaxSessions \in S /\ \A d \in Target : d < MaxSessions
    BY <1>5, <1>8, Bounds
  <2> HIDE DEF Target
  <2>2. QED
    BY <2>1
<1>10. QED
  BY <1>3, <1>9

(* A stack as its first node and the set of the others.                     *)
LEMMA StackSet ==
    ASSUME NEW T, NEW s \in Seq(T), s # <<>>, IsInjective(s)
    PROVE  /\ Head(s) \in T /\ Tail(s) \in Seq(T) /\ ToSet(Tail(s)) \subseteq T
           /\ ToSet(s) = ToSet(Tail(s)) \cup {Head(s)}
           /\ Head(s) \notin ToSet(Tail(s)) /\ IsInjective(Tail(s))
<1> DEFINE h == Head(s)
           t == Tail(s)
<1>1. h \in T /\ t \in Seq(T) /\ s = <<h>> \o t /\ <<h>> \in Seq(T)
  OBVIOUS
<1>2. ToSet(<<h>>) = {h}
  BY DEF ToSet
<1> HIDE DEF h, t
<1>3. /\ ToSet(<<h>> \o t) = ToSet(<<h>>) \cup ToSet(t)
      /\ IsInjective(<<h>> \o t) => IsInjective(t) /\ ToSet(<<h>>) \cap ToSet(t) = {}
  BY <1>1, SetOfConcat
<1>4. ToSet(t) \subseteq T
  BY <1>1, SetOf
<1>5. QED
  BY <1>1, <1>2, <1>3, <1>4 DEF h, t

LEMMA ExpandSet ==
    ASSUME NEW node \in Id \X Nat, NEW list \in Seq(Id), IsInjective(list)
    PROVE  /\ ToSet(Expand(node, list)) = Nodes(node, ToSet(list))
           /\ IsInjective(Expand(node, list))
<1> DEFINE k == node[2] - 1
           e == Expand(node, list)
<1>1. e \in Seq(Id \X Nat)
  BY ExpandTyped
<1>2. CASE node[2] = 0
  <2>1. e = <<>>
    BY <1>2 DEF Expand
  <2>2. ToSet(<<>>) = {} /\ IsInjective(<<>>)
    BY DEF ToSet, IsInjective
  <2>3. QED
    BY <1>2, <2>1, <2>2 DEF Nodes
<1>3. CASE node[2] # 0
  <2>1. DOMAIN list = 1 .. Len(list) /\ Len(list) \in Nat
    OBVIOUS
  <2>2. DOMAIN e = DOMAIN list /\ \A n \in DOMAIN list : e[n] = <<list[n], k>>
    BY <1>3 DEF Expand
  <2> HIDE DEF e, k
  <2>3. ToSet(e) = {<<d, k>> : d \in ToSet(list)}
    <3>1. ToSet(e) = {e[n] : n \in DOMAIN list} /\ ToSet(list) = {list[n] : n \in DOMAIN list}
      BY <2>2 DEF ToSet
    <3>2. QED
      BY <2>2, <3>1
  <2>4. IsInjective(e)
    <3>1. \A m, n \in DOMAIN list : list[m] = list[n] => m = n
      BY DEF IsInjective
    <3>2. \A m, n \in DOMAIN list : e[m] = e[n] => list[m] = list[n]
      BY <2>2
    <3>3. QED
      BY <2>2, <3>1, <3>2 DEF IsInjective
  <2>5. QED
    BY <1>3, <2>3, <2>4 DEF e, k, Nodes
<1>4. QED
  BY <1>2, <1>3

(* An object lists children of its session alone.                           *)
BornInv == \A p \in Id : \A d \in ToSet(kids[p]) : parent[d] = p

LEMMA KidSteps ==
    ASSUME TypeInv, [Next]_vars, NEW p \in Id
    PROVE  \/ ToSet(kids'[p]) = ToSet(kids[p])
           \/ ToSet(kids'[p]) = {}
           \/ ToSet(kids'[p]) = Children(p)
           \/ \E t \in Task : /\ pc[t] = "pushChild" /\ p = Sess(t)
                              /\ ToSet(kids'[p]) = ToSet(kids[p]) \cup {Child(t)}
<1> DEFINE Result == \/ ToSet(kids'[p]) = ToSet(kids[p])
                     \/ ToSet(kids'[p]) = {}
                     \/ ToSet(kids'[p]) = Children(p)
                     \/ \E t \in Task : /\ pc[t] = "pushChild" /\ p = Sess(t)
                                        /\ ToSet(kids'[p]) = ToSet(kids[p]) \cup {Child(t)}
<1>1. ASSUME UNCHANGED mem PROVE Result
  BY <1>1 DEF mem
<1>2. ASSUME NEW i \in Id, Loads(i) PROVE Result
  BY <1>2 DEF Loads
<1>3. ASSUME NEW t \in Task, Step(t), ~Insert(t), ~PushChild(t), ~FindChild(t) PROVE UNCHANGED mem
  BY <1>3, PersistTyped, SaveRowTyped
     DEF Step, ResolveRoot, ResolveChain, TurnFails, SaveMessage, Drop
<1>4. ASSUME NEW t \in Task, Insert(t) PROVE Result
  <2>1. Child(t) \in Id /\ kids'[Child(t)] = <<>> /\ \A i \in Id : i # Child(t) => kids'[i] = kids[i]
    BY <1>4, InsertTyped
  <2>2. ToSet(<<>>) = {}
    BY DEF ToSet
  <2>3. QED
    BY <2>1, <2>2
<1>5. ASSUME NEW t \in Task, PushChild(t) PROVE Result
  BY <1>5, PushChildTyped
<1>6. ASSUME NEW t \in Task, FindChild(t) PROVE Result
  <2>1. Loads(Child(t)) \/ UNCHANGED mem
    BY <1>6, FindChildTyped
  <2>2. QED
    BY <1>1, <1>2, <2>1 DEF Loads
<1>7. ASSUME NEW t \in Task, NEW u \in (Task \ {t}) \cup {Turn}, NEW s \in Id, Spawn(t, u, s)
      PROVE  UNCHANGED mem
  BY <1>7 DEF Spawn
<1>8. ASSUME NEW c \in Client, Request(c), ~Evict(c), ~Visit(c), ~\E i \in Id : Copy(c, i)
      PROVE  UNCHANGED mem
  <2>1. ASSUME NEW i \in Id, Delete(c, i) \/ DeleteTree(c, i) \/ GetTree(c, i) PROVE UNCHANGED mem
    BY <2>1 DEF Delete, DeleteTree, GetTree
  <2>2. ASSUME Collect(c) \/ Collected(c) \/ Answered(c) \/ DeleteRows(c) PROVE UNCHANGED mem
    BY <2>2 DEF Collect, Collected, Answered, DeleteRows
  <2>3. QED
    BY <1>8, <2>1, <2>2 DEF Request
<1>9. ASSUME NEW c \in Client, Evict(c) PROVE Result
  BY <1>9, EvictTyped
<1>10. ASSUME NEW c \in Client, Visit(c) PROVE Result
  <2>1. (\E i \in Id : Loads(i)) \/ UNCHANGED mem
    BY <1>10, VisitTyped
  <2>2. QED
    BY <1>1, <1>2, <2>1
<1>11. ASSUME NEW c \in Client, NEW i \in Id, Copy(c, i) PROVE Result
  BY <1>11, CopyTyped
<1>12. CASE Crash
  BY <1>12, CrashTyped
<1>13. CASE UNCHANGED vars
  BY <1>1, <1>13 DEF vars
<1>14. QED
  BY <1>1, <1>3, <1>4, <1>5, <1>6, <1>7, <1>8, <1>9, <1>10, <1>11, <1>12, <1>13 DEF Next

LEMMA InitBorn == Init => BornInv
<1> SUFFICES ASSUME Init, NEW p \in Id, NEW d \in ToSet(kids[p]) PROVE parent[d] = p
  BY DEF BornInv
<1>1. p \in Nat /\ Start \in Nat /\ MaxSessions \in Nat /\ Start <= MaxSessions
  BY Bounds
<1>2. kids[p] = IF p + 1 < Start THEN <<p + 1>> ELSE <<>>
  BY DEF Init
<1>3. ToSet(<<p + 1>>) = {p + 1} /\ ToSet(<<>>) = {}
  BY DEF ToSet
<1>4. d = p + 1 /\ p + 1 < Start
  BY <1>2, <1>3
<1>5. d \in Id /\ d \in 1 .. Start - 1 /\ d - 1 = p
  BY <1>1, <1>4, Bounds
<1>6. QED
  BY <1>5 DEF Init

LEMMA BornStep == TypeInv /\ BornInv /\ [Next]_vars => BornInv'
<1> SUFFICES ASSUME TypeInv, BornInv, [Next]_vars, NEW p \in Id, NEW d \in ToSet(kids'[p])
             PROVE  parent'[d] = p
  BY DEF BornInv
<1>1. TreeTyped /\ MemTyped /\ p # NoId
  BY Bounds DEF TypeInv
<1>2. d \in Id
  <2>1. kids'[p] \in Seq(Id)
    BY TypeStep DEF TypeInv, MemTyped
  <2>2. QED
    BY <2>1, SetOf
<1>3. parent[d] = p
  <2>1. ASSUME NEW t \in Task, pc[t] = "pushChild", p = Sess(t) PROVE parent[Child(t)] = p
    BY <2>1 DEF TypeInv, ActorsTyped, TaskTyped, HasChild
  <2>2. QED
    BY <2>1, KidSteps DEF BornInv, Children
<1>4. d \in 0 .. made - 1
  <2>1. d < made
    BY <1>1, <1>2, <1>3, OlderBelow DEF TreeTyped, Ids
  <2>2. QED
    BY <1>1, <1>2, <2>1, Bounds DEF TreeTyped
<1>5. QED
  BY <1>3, <1>4, ParentsStay

(* While no session is made, parents are not written.                       *)
LEMMA Growth ==
    ASSUME TypeInv, [Next]_vars
    PROVE  /\ made \in Nat /\ made' \in Nat /\ made <= made'
           /\ made' = made => UNCHANGED parent
<1> DEFINE Result == (made' = made \/ made' = made + 1) /\ (made' = made => UNCHANGED parent)
<1>0. made \in Nat
  BY Bounds DEF TypeInv, TreeTyped
<1>1. ASSUME UNCHANGED <<made, parent>> PROVE Result
  BY <1>1
<1>2. ASSUME NEW t \in Task, Step(t), ~SaveRow(t) PROVE UNCHANGED <<made, parent>>
  BY <1>2 DEF Step, ResolveRoot, ResolveChain, Insert, PushChild, TurnFails, FindChild, SaveMessage,
              Persist, Drop, tree
<1>3. ASSUME NEW s, NEW q, Makes(s, q) PROVE Result
  BY <1>0, <1>3 DEF Makes
<1>4. ASSUME NEW t \in Task, NEW u \in (Task \ {t}) \cup {Turn}, NEW s \in Id, Spawn(t, u, s)
      PROVE  UNCHANGED <<made, parent>>
  BY <1>4 DEF Spawn, tree
<1>5. ASSUME NEW c \in Client, Request(c), ~\E i \in Id : Copy(c, i) PROVE UNCHANGED <<made, parent>>
  <2>1. ASSUME NEW i \in Id, Delete(c, i) \/ DeleteTree(c, i) \/ GetTree(c, i)
        PROVE  UNCHANGED <<made, parent>>
    BY <2>1 DEF Delete, DeleteTree, GetTree, tree
  <2>2. ASSUME Collect(c) \/ Collected(c) \/ Answered(c) \/ DeleteRows(c)
        PROVE  UNCHANGED <<made, parent>>
    BY <2>2 DEF Collect, Collected, Answered, DeleteRows, tree
  <2>3. ASSUME Evict(c) \/ Visit(c) PROVE UNCHANGED <<made, parent>>
    BY <2>3, EvictTyped, VisitTyped DEF tree
  <2>4. QED
    BY <1>5, <2>1, <2>2, <2>3 DEF Request
<1>6. Crash => UNCHANGED <<made, parent>>
  BY DEF Crash, tree
<1>7. UNCHANGED vars => UNCHANGED <<made, parent>>
  BY DEF vars, tree
<1>8. ASSUME NEW t \in Task, SaveRow(t) PROVE Result
  <2>1. Makes(Sess(t), local[t].chain)
    BY <1>8, SaveRowTyped
  <2> HIDE DEF Result
  <2>2. QED
    BY <1>3, <2>1
<1>9. ASSUME NEW c \in Client, NEW i \in Id, Copy(c, i) PROVE Result
  <2>1. Makes(NoId, <<>>)
    BY <1>9, CopyTyped
  <2> HIDE DEF Result
  <2>2. QED
    BY <1>3, <2>1
<1>10. Result
  <2> HIDE DEF Result
  <2>1. QED
    BY <1>1, <1>2, <1>4, <1>5, <1>6, <1>7, <1>8, <1>9 DEF Next
<1>11. QED
  BY <1>0, <1>10

(***************************************************************************)
(* What a client that reads stands on: as long as no session is made after  *)
(* it began alone, no sub-agent has a child and rows are only deleted.      *)
(***************************************************************************)
Began(c)  == pc[c] = "visit" /\ local[c].before \in Nat \X SUBSET Id
Frozen(c) == Began(c) /\ local[c].before[1] = made
AloneInv ==
    \A c \in Client :
        /\ Began(c) => local[c].before[1] <= made
        /\ Frozen(c) => /\ rows \subseteq local[c].before[2]
                        /\ \A t \in Task : pc[t] \notin HasChild
                        /\ rows = local[c].before[2] /\ ~overlapped => cached \subseteq rows

LEMMA FrozenRows ==
    ASSUME TypeInv, AloneInv, [Next]_vars, NEW c \in Client, Frozen(c), made' = made
    PROVE  rows' \subseteq rows
<1>1. ASSUME NEW i \in rows' \ rows PROVE FALSE
  <2>1. Written(i)
    BY RowSteps
  <2>2. i # made
    <3>1. rows' \in SUBSET (0 .. made' - 1) /\ made \in Nat
      BY TypeStep, Growth DEF TypeInv, TreeTyped
    <3>2. QED
      BY <3>1
  <2>3. \A t \in Task : pc[t] # "persist"
    BY DEF AloneInv, HasChild
  <2>4. QED
    BY <2>1, <2>2, <2>3 DEF Written
<1>2. QED
  BY <1>1

LEMMA GetTreeDoes ==
    ASSUME TypeInv, NEW c \in Client, NEW i \in Id, GetTree(c, i)
    PROVE  /\ pc[c] = "idle" /\ i < made /\ UNCHANGED <<tree, mem>> /\ Still(c)
           /\ local'[c].before = IF Others(c) THEN <<made, rows>> ELSE <<>>
           /\ local'[c].session = i /\ local'[c].stack = <<<<i, Depth>>>>
           /\ local'[c].found = <<>>
<1>1. ActorsTyped /\ c \in Actor /\ pc[c] = "idle" /\ local[c] = NoLocal
  BY Bounds DEF TypeInv, GetTree, ActorsTyped
<1>2. UNCHANGED <<tree, mem>> /\ Still(c)
  BY <1>1, GetTreeTyped
<1>3. local' = [local EXCEPT ![c].session = i, ![c].stack = <<<<i, Depth>>>>,
                             ![c].before = IF Others(c) THEN <<made, rows>> ELSE <<>>]
      /\ i < made
  BY DEF GetTree
<1>4. local \in [Actor -> Locals]
  BY <1>1 DEF ActorsTyped
<1>5. QED
  BY <1>1, <1>2, <1>3, <1>4 DEF NoLocal

LEMMA VisitDoes ==
    ASSUME TypeInv, NEW c \in Client, Visit(c), pc'[c] = "visit"
    PROVE  \E i, list :
             /\ local[c].stack # <<>> /\ i = Head(local[c].stack)[1] /\ i \in cached \cup rows
             /\ list = IF i \in cached THEN kids[i] ELSE ChildRows(i)
             /\ local'[c].found = Append(local[c].found, i)
             /\ local'[c].stack = Expand(Head(local[c].stack), list) \o Tail(local[c].stack)
             /\ local'[c].before = local[c].before /\ local'[c].session = local[c].session
<1> DEFINE k == local[c].stack
           i == Head(k)[1]
           list == IF i \in cached THEN kids[i] ELSE ChildRows(i)
<1>1. ActorsTyped /\ c \in Actor /\ pc \in [Actor -> TaskLabel \cup ClientLabel] /\ pc[c] = "visit"
      /\ local \in [Actor -> Locals] /\ k # <<>>
  BY Bounds DEF TypeInv, Visit, ActorsTyped
<1>2. i \in cached \cup rows
  <2>1. ~Goto(c, "failed")
    BY <1>1 DEF Goto
  <2>2. QED
    BY <2>1 DEF Visit
<1>3. local' = [local EXCEPT ![c].found = Append(@, i), ![c].stack = Expand(Head(k), list) \o Tail(k)]
  BY <1>2 DEF Visit
<1>4. /\ local'[c].found = Append(local[c].found, i)
      /\ local'[c].stack = Expand(Head(k), list) \o Tail(k)
      /\ local'[c].before = local[c].before /\ local'[c].session = local[c].session
  <2> HIDE DEF list, i
  <2>1. local[c] \in Locals
    BY <1>1
  <2>2. QED
    BY <1>1, <1>3, <2>1 DEF Locals
<1>5. QED
  BY <1>1, <1>2, <1>4

LEMMA InitReads == Init => AloneInv /\ ReadInv
<1> SUFFICES ASSUME Init, NEW c \in Client PROVE pc[c] # "visit"
  BY DEF AloneInv, ReadInv, Began, Frozen, Reading
<1>1. QED
  BY Bounds DEF Init

(* How a client comes to read and goes on.                                  *)
LEMMA Reads ==
    ASSUME TypeInv, [Next]_vars, NEW c \in Client, pc'[c] = "visit"
    PROVE  \/ Same(c)
           \/ Visit(c)
           \/ \E i \in Id : GetTree(c, i)
<1>1. ~Crash
  BY CrashTyped, Bounds
<1>2. ASSUME Request(c) PROVE Same(c) \/ Visit(c) \/ \E i \in Id : GetTree(c, i)
  <2>1. ASSUME NEW i \in Id, Delete(c, i) PROVE Same(c)
    BY <2>1, DeleteTyped DEF Same, Sets
  <2>2. ASSUME NEW i \in Id, DeleteTree(c, i) PROVE FALSE
    BY <2>2, DeleteTreeTyped
  <2>3. ASSUME NEW i \in Id, Copy(c, i) PROVE Same(c)
    BY <2>3, CopyTyped DEF Same
  <2>4. ~Collect(c)
    BY CollectTyped
  <2>5. ~Collected(c) /\ ~DeleteRows(c) /\ ~Answered(c)
    BY CollectedTyped, DeleteRowsTyped, AnsweredTyped DEF Sets
  <2>6. ~Evict(c)
    BY EvictTyped
  <2>7. QED
    BY <1>2, <2>1, <2>2, <2>3, <2>4, <2>5, <2>6 DEF Request
<1>3. QED
  BY <1>1, <1>2, ClientRests

LEMMA Historic ==
    ASSUME [Next]_vars, ~Crash
    PROVE  /\ overlapped => overlapped'
           /\ torn => torn'
<1>1. CASE UNCHANGED vars
  BY <1>1 DEF vars
<1>2. CASE Next
  <2>1. UNCHANGED crashes
    BY <1>2, NoCrash
  <2>2. QED
    BY <1>2, <2>1 DEF Next
<1>3. QED
  BY <1>1, <1>2

LEMMA AloneStep == TypeInv /\ WholeInv /\ AloneInv /\ [Next]_vars => AloneInv'
<1> SUFFICES ASSUME TypeInv, WholeInv, AloneInv, [Next]_vars, NEW c \in Client, Began(c)'
             PROVE  /\ local'[c].before[1] <= made'
                    /\ Frozen(c)' =>
                          /\ rows' \subseteq local'[c].before[2]
                          /\ \A t \in Task : pc'[t] \notin HasChild
                          /\ rows' = local'[c].before[2] /\ ~overlapped' => cached' \subseteq rows'
  BY DEF AloneInv, Frozen
<1>0. pc'[c] = "visit" /\ local'[c].before \in Nat \X SUBSET Id /\ made \in Nat /\ made' \in Nat
      /\ made <= made'
  BY Growth DEF Began
<1>a. ~Crash
  BY <1>0, CrashTyped, Bounds
<1>1. ASSUME NEW i \in Id, GetTree(c, i)
      PROVE  /\ local'[c].before[1] <= made'
             /\ rows' \subseteq local'[c].before[2]
             /\ \A t \in Task : pc'[t] \notin HasChild
             /\ ~overlapped' => cached' \subseteq rows'
  <2>1. /\ pc[c] = "idle" /\ UNCHANGED <<tree, mem>> /\ Still(c)
        /\ local'[c].before = IF Others(c) THEN <<made, rows>> ELSE <<>>
    BY <1>1, GetTreeDoes
  <2>2. Others(c) /\ local'[c].before = <<made, rows>>
    BY <1>0, <2>1
  <2>3. \A a \in Actor : pc[a] = "idle"
    BY <2>1, <2>2, Bounds DEF Others
  <2>4. \A t \in Task : pc'[t] = "idle"
    BY <2>1, <2>3, Bounds DEF Still
  <2>5. ASSUME ~overlapped' PROVE cached' \subseteq rows'
    <3>1. Whole
      BY <1>a, <2>5, Historic DEF WholeInv
    <3>2. cached \subseteq rows
      BY <2>3, <3>1, Bounds DEF Whole, Backed, Dropped
    <3>3. QED
      BY <2>1, <3>2 DEF tree, mem
  <2>6. QED
    BY <1>0, <2>1, <2>2, <2>4, <2>5 DEF tree, HasChild
<1>2. ASSUME pc[c] = "visit", local'[c].before = local[c].before
      PROVE  /\ local'[c].before[1] <= made'
             /\ Frozen(c)' =>
                   /\ rows' \subseteq local'[c].before[2]
                   /\ \A t \in Task : pc'[t] \notin HasChild
                   /\ rows' = local'[c].before[2] /\ ~overlapped' => cached' \subseteq rows'
  <2> DEFINE b == local[c].before
  <2>1. Began(c) /\ b[1] \in Nat /\ b[1] <= made
    BY <1>0, <1>2 DEF Began, AloneInv
  <2>2. b[1] <= made'
    BY <1>0, <2>1
  <2>3. ASSUME b[1] = made'
        PROVE  /\ rows' \subseteq b[2]
               /\ \A t \in Task : pc'[t] \notin HasChild
               /\ rows' = b[2] /\ ~overlapped' => cached' \subseteq rows'
    <3>1. Frozen(c) /\ made' = made
      BY <1>0, <2>1, <2>3 DEF Frozen
    <3>2. rows' \subseteq rows /\ rows \subseteq b[2]
      BY <3>1, FrozenRows DEF AloneInv
    <3>3. \A t \in Task : pc[t] \notin HasChild
      BY <3>1 DEF AloneInv
    <3>4. ASSUME NEW t \in Task, pc'[t] \in HasChild PROVE FALSE
      <4>1. ~Same(t) /\ ~Stops(t) /\ ~Begins(t) /\ ~Moves(t)
        BY <3>3, <3>4 DEF Same, Stops, Begins, Moves, HasChild
      <4>2. ~Saves(t)
        <5>1. made \notin rows
          BY <1>0, InNat
        <5>2. QED
          BY <3>2, <5>1 DEF Saves
      <4>3. QED
        BY <4>1, <4>2, TaskSteps
    <3>5. ASSUME rows' = b[2], ~overlapped' PROVE cached' \subseteq rows'
      <4>1. rows' = rows /\ rows = b[2] /\ ~overlapped
        BY <1>a, <3>2, <3>5, Historic
      <4>2. cached \subseteq rows
        <5>1. rows = local[c].before[2]
          BY <4>1
        <5>2. QED
          BY <3>1, <4>1, <5>1 DEF AloneInv
      <4>3. \A i \in cached' \ cached : i \in rows \cup rows'
        BY <3>3, CacheSteps DEF HasChild
      <4>4. QED
        BY <4>1, <4>2, <4>3
    <3>6. QED
      BY <3>2, <3>4, <3>5
  <2>4. QED
    BY <1>2, <2>2, <2>3 DEF Frozen
<1>3. CASE Same(c)
  BY <1>0, <1>2, <1>3 DEF Same
<1>4. CASE Visit(c)
  BY <1>0, <1>2, <1>4, VisitDoes, VisitTyped
<1>5. QED
  BY <1>0, <1>1, <1>3, <1>4, Reads

(* A client that reads was reading.                                         *)
LEMMA StillReading ==
    ASSUME TypeInv, AloneInv, [Next]_vars, NEW c \in Client, Reading(c)', pc[c] = "visit",
           local'[c].before = local[c].before
    PROVE  Reading(c) /\ Frozen(c) /\ UNCHANGED <<made, rows, parent>>
<1> DEFINE b == local[c].before
<1>1. b = <<made', rows'>> /\ made \in Nat /\ made' \in Nat /\ made <= made' /\ rows' \in SUBSET Id
  <2>1. rows' \in SUBSET Id
    BY TypeStep, Bounds DEF TypeInv, TreeTyped
  <2>2. QED
    BY <2>1, Growth DEF Reading
<1>2. Began(c) /\ b[1] = made' /\ b[2] = rows'
  BY <1>1 DEF Began
<1>3. made' = made /\ Frozen(c)
  <2>1. b[1] <= made
    BY <1>2 DEF AloneInv
  <2>2. QED
    BY <1>1, <1>2, <2>1 DEF Frozen
<1>4. rows' = rows
  <2>1. rows' \subseteq rows /\ rows \subseteq b[2]
    BY <1>3, FrozenRows DEF AloneInv
  <2>2. QED
    BY <1>2, <2>1
<1>5. ~torn /\ ~overlapped
  <2>1. ~Crash
    BY CrashTyped, Bounds DEF Reading
  <2>2. QED
    BY <2>1, Historic DEF Reading
<1>6. QED
  BY <1>1, <1>3, <1>4, <1>5, Growth DEF Reading

LEMMA SameExplored ==
    ASSUME UNCHANGED <<made, rows, parent>>, NEW r, NEW F, NEW N, Explores(r, F, N)
    PROVE  Explores(r, F, N)'
<1>1. Walk' = Walk
  BY DEF Walk
<1>2. QED
  BY <1>1 DEF Explores, Dist, Children, Ahead

LEMMA ReadStep == TypeInv /\ BornInv /\ ListInv /\ AloneInv /\ ReadInv /\ [Next]_vars => ReadInv'
<1> SUFFICES ASSUME TypeInv, BornInv, ListInv, AloneInv, ReadInv, [Next]_vars,
                    NEW c \in Client, Reading(c)'
             PROVE  /\ IsInjective(local'[c].found) /\ IsInjective(local'[c].stack)
                    /\ Explores(Sess(c), Found(c), ToSet(local[c].stack))'
  BY DEF ReadInv
<1>0. pc'[c] = "visit" /\ TreeTyped /\ MemTyped
  BY DEF Reading, TypeInv
<1>1. ASSUME NEW i \in Id, GetTree(c, i)
      PROVE  /\ IsInjective(local'[c].found) /\ IsInjective(local'[c].stack)
             /\ Explores(Sess(c), Found(c), ToSet(local[c].stack))'
  <2>1. /\ i < made /\ UNCHANGED <<made, rows, parent>>
        /\ local'[c].session = i /\ local'[c].stack = <<<<i, Depth>>>> /\ local'[c].found = <<>>
    BY <1>1, GetTreeDoes DEF tree
  <2>2. /\ IsInjective(<<>>) /\ IsInjective(<<<<i, Depth>>>>)
        /\ ToSet(<<>>) = {} /\ ToSet(<<<<i, Depth>>>>) = {<<i, Depth>>}
    BY DEF IsInjective, ToSet
  <2>3. Explores(i, {}, {<<i, Depth>>})
    <3>1. Ahead({<<i, Depth>>}) = {i}
      BY DEF Ahead
    <3>2. i \in 0 .. made - 1 /\ made \in Nat
      <4>1. i \in Nat /\ made \in Nat
        BY <1>0, Bounds DEF TreeTyped
      <4>2. QED
        BY <2>1, <4>1
    <3>3. i \in ToSet(Walk[i]) /\ Len(Walk[i]) \in Nat
      BY <1>0, WalkBelow
    <3>4. Dist(i, i) = 0 /\ Dist(i, i) <= Depth /\ Depth - Dist(i, i) = Depth
      BY <3>3, Bounds DEF Dist
    <3>5. \A j \in {} \cup {i} : /\ j \in 0 .. made - 1 /\ i \in ToSet(Walk[j]) /\ Dist(i, j) <= Depth
                               /\ j = i
      BY <3>2, <3>3, <3>4
    <3>6. \A n \in {<<i, Depth>>} : n[2] = Depth - Dist(i, n[1])
      BY <3>4
    <3>7. QED
      BY <3>1, <3>5, <3>6 DEF Explores
  <2>4. Explores(i, {}, {<<i, Depth>>})'
    BY <2>1, <2>3, SameExplored
  <2>5. QED
    BY <2>1, <2>2, <2>4 DEF Sess, Found
<1>2. CASE Same(c)
  <2>1. Reading(c) /\ UNCHANGED <<made, rows, parent>>
    BY <1>0, <1>2, StillReading DEF Same
  <2>2. /\ IsInjective(local[c].found) /\ IsInjective(local[c].stack)
        /\ Explores(Sess(c), Found(c), ToSet(local[c].stack))
    BY <2>1 DEF ReadInv
  <2>3. Explores(local[c].session, ToSet(local[c].found), ToSet(local[c].stack))'
    <3>1. Explores(local'[c].session, ToSet(local'[c].found), ToSet(local'[c].stack))
      BY <1>2, <2>2 DEF Same, Sess, Found
    <3>2. QED
      BY <2>1, <3>1, SameExplored
  <2>4. QED
    BY <1>2, <2>2, <2>3 DEF Same, Sess, Found
<1>3. CASE Visit(c)
  <2> DEFINE k == local[c].stack
             h == Head(k)
             f == local[c].found
             r == Sess(c)
  <2>1. PICK i, list :
             /\ k # <<>> /\ i = h[1] /\ i \in cached \cup rows
             /\ list = IF i \in cached THEN kids[i] ELSE ChildRows(i)
             /\ local'[c].found = Append(f, i)
             /\ local'[c].stack = Expand(h, list) \o Tail(k)
             /\ local'[c].before = local[c].before /\ local'[c].session = local[c].session
    BY <1>0, <1>3, VisitDoes
  <2>2. pc[c] = "visit"
    BY <1>3, VisitTyped
  <2>3. Reading(c) /\ Frozen(c) /\ UNCHANGED <<made, rows, parent>>
    BY <2>1, <2>2, StillReading
  <2>4. IsInjective(f) /\ IsInjective(k) /\ Explores(r, Found(c), ToSet(k))
    BY <2>3 DEF ReadInv
  <2>5. f \in Seq(Id) /\ k \in Seq(Id \X Nat) /\ Found(c) = ToSet(f)
    <3>1. ActorsTyped /\ c \in Actor /\ ClientTyped(c) /\ local[c] \in Locals
      BY Bounds DEF TypeInv, ActorsTyped
    <3>2. QED
      BY <2>2, <3>1 DEF ClientTyped, Locals, Found
  <2>6. i \in rows
    <3>1. rows = local[c].before[2] /\ ~overlapped
      BY <2>3 DEF Reading
    <3>2. cached \subseteq rows
      BY <2>3, <3>1 DEF AloneInv
    <3>3. QED
      BY <2>1, <3>2
  <2>7. i \in Id /\ r \in Id
    <3>1. rows \subseteq Id /\ 0 .. made - 1 \subseteq Id
      BY <1>0, Bounds DEF TreeTyped
    <3>2. r \in 0 .. made - 1
      BY <2>4 DEF Explores
    <3>3. QED
      BY <2>6, <3>1, <3>2
  <2>8. /\ list \in Seq(Id) /\ IsInjective(list) /\ Children(i) \subseteq ToSet(list)
        /\ \A d \in ToSet(list) : parent[d] = i
    <3>1. CASE i \in cached
      <4>1. list = kids[i] /\ list \in Seq(Id) /\ IsInjective(list)
        BY <1>0, <2>1, <2>7, <3>1 DEF MemTyped
      <4>2. \A d \in ToSet(list) : parent[d] = i
        BY <2>7, <4>1 DEF BornInv
      <4>3. \A t \in Task : pc[t] \notin New
        BY <2>3 DEF AloneInv, New, HasChild
      <4>4. ASSUME NEW d \in Children(i) PROVE d \in ToSet(list)
        <5>1. d \in rows /\ parent[d] = i /\ ~torn
          BY <2>3 DEF Children, Reading
        <5>2. QED
          BY <3>1, <4>1, <4>3, <5>1 DEF ListInv
      <4>5. QED
        BY <4>1, <4>2, <4>4
    <3>2. CASE i \notin cached
      <4>1. list = ChildRows(i)
        BY <2>1, <3>2
      <4>2. QED
        BY <1>0, <4>1, ChildRowsList DEF Children
    <3>3. QED
      BY <3>1, <3>2
  <2> DEFINE T == ToSet(Tail(k))
             e == Expand(h, list)
             E == Nodes(h, ToSet(list))
  <2>9. /\ h \in Id \X Nat /\ Tail(k) \in Seq(Id \X Nat) /\ T \in SUBSET (Id \X Nat)
        /\ ToSet(k) = T \cup {h} /\ h \notin T /\ IsInjective(Tail(k))
    <3>1. k # <<>> /\ IsInjective(k) /\ k \in Seq(Id \X Nat)
      BY <2>1, <2>4, <2>5
    <3> HIDE DEF k
    <3>2. QED
      BY <3>1, StackSet
  <2>10. e \in Seq(Id \X Nat) /\ ToSet(e) = E /\ IsInjective(e)
    BY <2>8, <2>9, ExpandTyped, ExpandSet
  <2>11. /\ Explores(r, Found(c) \cup {i}, E \cup T)
         /\ i \notin Found(c) /\ E \cap T = {}
    <3>1. ToSet(list) \in SUBSET Id
      BY <2>8, SetOf
    <3> DEFINE L == ToSet(list)
               hh == h
               TT == T
    <3> HIDE DEF L, hh, TT
    <3>2. /\ hh \in Id \X Nat /\ TT \in SUBSET (Id \X Nat) /\ hh \notin TT /\ hh[1] = i
          /\ Explores(r, Found(c), TT \cup {hh}) /\ L \in SUBSET Id
          /\ Children(hh[1]) \subseteq L /\ \A d \in L : parent[d] = hh[1]
      BY <2>1, <2>4, <2>8, <2>9, <3>1 DEF L, hh, TT
    <3> HIDE DEF r
    <3>3. r \in Id /\ hh[1] \in rows
      BY <2>6, <2>7, <3>2
    <3>4. /\ Explores(r, Found(c) \cup {hh[1]}, Nodes(hh, L) \cup TT)
          /\ hh[1] \notin Found(c) /\ Nodes(hh, L) \cap TT = {}
      <4>1. hh \in Id \X Nat /\ hh \notin TT /\ TT \in SUBSET (Id \X Nat) /\ L \in SUBSET Id
        BY <3>2
      <4>2. /\ Explores(r, Found(c), TT \cup {hh})
            /\ Children(hh[1]) \subseteq L /\ \A d \in L : parent[d] = hh[1]
        BY <3>2
      <4>3. Explores(r, Found(c) \cup {hh[1]}, Nodes(hh, L) \cup TT)
        BY <1>0, <3>3, <4>1, <4>2, ExploresOn
      <4>4. hh[1] \notin Found(c)
        BY <4>2 DEF Explores, Ahead
      <4>5. Nodes(hh, L) \cap TT = {}
        BY <1>0, <3>3, <4>1, <4>2, <4>3, ExploresOn
      <4>6. QED
        BY <4>3, <4>4, <4>5
    <3>5. QED
      BY <3>2, <3>4 DEF TT, hh, L
  <2> HIDE DEF e, E, T, h
  <2>12. /\ ToSet(local'[c].stack) = E \cup T /\ IsInjective(local'[c].stack)
    <3>1. local'[c].stack = e \o Tail(k)
      BY <2>1 DEF e
    <3>2. /\ ToSet(e \o Tail(k)) = ToSet(e) \cup ToSet(Tail(k))
          /\ IsInjective(e) /\ IsInjective(Tail(k)) /\ ToSet(e) \cap ToSet(Tail(k)) = {}
             => IsInjective(e \o Tail(k))
      BY <2>9, <2>10, SetOfConcat
    <3>3. QED
      BY <2>9, <2>10, <2>11, <3>1, <3>2 DEF T
  <2>13. ToSet(local'[c].found) = Found(c) \cup {i} /\ IsInjective(local'[c].found)
    BY <2>1, <2>4, <2>5, <2>7, <2>11, SetOfAppend
  <2>14. Explores(local[c].session, ToSet(local[c].found), ToSet(local[c].stack))'
    <3>1. Explores(local'[c].session, ToSet(local'[c].found), ToSet(local'[c].stack))
      BY <2>1, <2>11, <2>12, <2>13 DEF Sess
    <3>2. QED
      BY <2>3, <3>1, SameExplored
  <2>15. QED
    BY <2>12, <2>13, <2>14 DEF Sess, Found
<1>4. QED
  BY <1>0, <1>1, <1>2, <1>3, Reads

(***************************************************************************)
(* The tree that is kept.                                                  *)
(***************************************************************************)
IInv == /\ TypeInv /\ CallInv /\ ChainInv /\ MemInv /\ ListInv /\ WholeInv
        /\ BornInv /\ AloneInv /\ ReadInv

LEMMA IInvHolds == Spec => []IInv
<1>1. Init => IInv
  BY InitTyped, InitCalls, InitChains, InitMem, InitLists, InitWhole, InitBorn, InitReads DEF IInv
<1>2. IInv /\ [Next]_vars => IInv'
  BY TypeStep, CallStep, ChainStep, MemStep, ListStep, WholeStep, BornStep, AloneStep, ReadStep
     DEF IInv
<1>3. QED
  BY <1>1, <1>2, PTL DEF Spec

LEMMA IInvTypes == IInv => TypeOK
<1> SUFFICES ASSUME IInv PROVE TypeOK
  OBVIOUS
<1>1. TypeInv /\ TreeTyped /\ MemTyped /\ CountTyped
  BY DEF IInv, TypeInv
<1>2. made \in 1 .. MaxSessions
  <2>1. made \in Start .. MaxSessions /\ Start \in Nat /\ Start >= 1 /\ MaxSessions \in Nat
    BY <1>1, Bounds DEF TreeTyped
  <2>2. QED
    BY <2>1
<1>3. rows \subseteq Id /\ cached \subseteq 0 .. made - 1
  BY <1>1, InNat
<1>4. QED
  BY <1>1, <1>2, <1>3 DEF TypeOK, TreeTyped, MemTyped, CountTyped

LEMMA IInvWhole == IInv => TreeWhole
<1> SUFFICES ASSUME IInv, ~overlapped, Quiet PROVE Rooted /\ cached \subseteq rows
  BY DEF TreeWhole, Rooted
<1>1. Whole
  BY DEF IInv, WholeInv
<1>2. \A c \in Client : pc[c] = "idle"
  BY Bounds DEF Quiet
<1>3. QED
  BY <1>1, <1>2 DEF Whole, Backed, Dropped

LEMMA IInvListed == IInv => KidsListed
<1> SUFFICES ASSUME IInv, Quiet, ~torn, NEW p \in cached
             PROVE  ToSet(ChildRows(p)) \subseteq ToSet(kids[p]) /\ IsInjective(kids[p])
  BY DEF KidsListed
<1>1. TypeInv /\ TreeTyped /\ p \in Id
  BY InNat DEF IInv, TypeInv
<1>2. \A t \in Task : pc[t] = "idle"
  BY Bounds DEF Quiet
<1>3. ToSet(ChildRows(p)) = Children(p)
  BY <1>1, ChildRowsList
<1>4. Children(p) \subseteq ToSet(kids[p])
  BY <1>2 DEF IInv, ListInv, Children, New
<1>5. QED
  BY <1>1, <1>3, <1>4 DEF TypeInv, MemTyped

LEMMA IInvRead == IInv => ReadIsTree
<1> SUFFICES ASSUME IInv, NEW c \in Client, pc[c] = "visit", local[c].stack = <<>>, Others(c),
                    local[c].before = <<made, rows>>, ~torn, ~overlapped
             PROVE  /\ IsInjective(local[c].found)
                    /\ ToSet(local[c].found) =
                          {d \in Descendants(local[c].session) \cap rows : Near(local[c].session, d)}
  BY DEF ReadIsTree
<1>1. /\ TreeTyped /\ Rooted /\ IsInjective(local[c].found)
      /\ Explores(Sess(c), Found(c), ToSet(local[c].stack))
  BY DEF IInv, TypeInv, WholeInv, Whole, ReadInv, Reading
<1>2. ToSet(<<>>) = {}
  BY DEF ToSet
<1>3. Found(c) = {d \in Descendants(Sess(c)) \cap rows : Near(Sess(c), d)}
  BY <1>1, <1>2, AllExplored
<1>4. QED
  BY <1>1, <1>3 DEF Found, Sess

(* Whatever calls of sub-agents are made, ended and dropped, whatever is    *)
(* copied, deleted and read meanwhile, and wherever the process restarts:   *)
(* the ancestors a row names are those along the parents, and stay so when   *)
(* they are deleted; when nothing runs, every session has its parent and    *)
(* every object its row, unless a session was made or stored during a        *)
(* deletion; and an object lists the children of its session once each,     *)
(* unless a call was dropped while one was made (write.rs:37, :243,          *)
(* conversation_service.rs:713).                                           *)
THEOREM TreeStaysKept == Spec => []TreeKept
<1>1. IInv => TreeKept
  BY IInvTypes, IInvWhole, IInvListed DEF IInv, ChainInv, TreeKept
<1>2. QED
  BY <1>1, IInvHolds, PTL

(* A tree whose reading began and ended while nothing else ran, with the    *)
(* same sessions and rows, is everything below the session asked for, down  *)
(* to the depth, and once, whatever ran in between, unless a call was       *)
(* dropped since the process started or a session was ever made during a    *)
(* deletion (session_tree.rs:24).                                           *)
THEOREM ReadsTheTree == Spec => []ReadIsTree
<1>1. QED
  BY IInvHolds, IInvRead, PTL
=============================================================================
