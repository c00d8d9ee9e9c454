---------------------------- MODULE EngineProofs ----------------------------
(***************************************************************************)
(* Proofs about Engine.  Of the engine of OrchestrateTask: the order of the *)
(* stages, the agents that are started for them, the results that are       *)
(* recorded and reported, and the stop.  Of the other parts: what a turn is *)
(* sent and hands over is whole, the loop guard ends repetitions, the       *)
(* client has seen a turn that is answered, and a request to a server has   *)
(* its own answer.                                                         *)
(***************************************************************************)
EXTENDS Engine, Recursion, FiniteSetTheorems

(***************************************************************************)
(*                           O R C H E S T R A T I O N                      *)
(***************************************************************************)

Label   == {"sort", "stages", "announce", "parallel", "serial", "review",
            "retry", "again", "retrying", "end"}
InStage == {"announce", "parallel", "serial"}
InLoops == {"stages"} \cup InStage
InReview == {"review", "retry", "again", "retrying"}
Ended   == {"success", "failed"}

(***************************************************************************)
(* Types.                                                                  *)
(***************************************************************************)
Everybody == Agent \cup {Unknown}

SortTyped ==
    /\ plan \in Plans /\ pc \in Label
    /\ queue \in Seq(Ids(plan)) /\ ordered \in Seq(Stage)
    /\ \A n \in 1 .. Len(ordered) :
          ordered[n].id \in Ids(plan) /\ ordered[n] = Named(plan, ordered[n].id)
    /\ at \in 1 .. Len(ordered) + 1
    /\ pc \in InStage => at <= Len(ordered)

RunTyped ==
    /\ passed \in [StageId -> {"none", "yes", "no"}]
    /\ failure \in {"none", "failed", "blocked"}
    /\ task \in [Agent -> {"idle", "running", "success", "failed", "panicked", "aborted"}]
    /\ joinset \in SUBSET Agent /\ pending \in Seq(Agent)
    /\ gathered \in Seq(Everybody \X Status)
    /\ results \in [Everybody -> Status]
    /\ retry \in Seq(Agent) /\ (pc \in {"again", "retrying"} => retry # <<>>)
    /\ rounds \in 0 .. plan.retries
    /\ reported \in {"none", "success", "failure"}
    /\ cancelled \in BOOLEAN /\ stopped \in BOOLEAN
    /\ ran \in [Agent -> Nat] /\ late \in Nat /\ panics \in 0 .. MaxPanics

(***************************************************************************)
(* The order of the stages.                                                *)
(***************************************************************************)
PlacedIn(o) == {o[n].id : n \in 1 .. Len(o)}

(* The stages placed are different and come after their dependencies; the   *)
(* stages in the queue are the others that may be placed, and the number of *)
(* a stage is that of its dependencies that are not placed.                 *)
After(p, o) ==
    /\ \A m, n \in 1 .. Len(o) : o[m].id = o[n].id => m = n
    /\ \A n \in 1 .. Len(o) : Deps(p, o[n].id) \subseteq {o[m].id : m \in 1 .. n - 1}
Degrees(p, P, Q, in) ==
    \A r \in Ids(p) : /\ in[r] = Cardinality(Deps(p, r) \ P)
                      /\ r \in P \cup Q <=> Deps(p, r) \subseteq P

OrderInv ==
    /\ After(plan, ordered)
    /\ IsInjective(queue) /\ ToSet(queue) \cap PlacedIn(ordered) = {}
    /\ indegree \in [Ids(plan) -> Nat]
    /\ WellFormed(plan) => Degrees(plan, PlacedIn(ordered), ToSet(queue), indegree)

Sensible == WellFormed(plan) /\ ~Cyclic(plan)

Fresh ==
    /\ at = 1 /\ failure = "none" /\ joinset = {} /\ pending = <<>> /\ gathered = <<>>
    /\ retry = <<>> /\ rounds = 0 /\ reported = "none" /\ late = 0
    /\ passed = [s \in StageId |-> "none"] /\ task = [a \in Agent |-> "idle"]
    /\ ran = [a \in Agent |-> 0] /\ results = [a \in Everybody |-> "none"]

SortedInv ==
    /\ pc = "sort" => Fresh
    /\ pc # "sort" => IF Sensible THEN Len(ordered) = Len(plan.stages) ELSE pc = "end" /\ Fresh

(***************************************************************************)
(* The stages.                                                             *)
(***************************************************************************)
Untouched(a) == task[a] = "idle" /\ ran[a] = 0 /\ results[a] = "none"
Succeeded(a) == task[a] = "success" /\ ran[a] = 1 /\ results[a] = "success"
Accounted(s, a) ==
    \/ results[a] \in Ended /\ results[a] = task[a]
    \/ results[a] = "cancelled" /\ task[a] # "running"
       /\ (cancelled \/ \E b \in AgentsOf(s) : task[b] = "failed")
    \/ results[a] = "none" /\ task[a] = "panicked" /\ results[Unknown] = "failed"

AtStage(s) == pc \in InStage /\ s = Current.id

(* A stage before the loop has not begun; one behind it was a success, as   *)
(* long as there was no failure.                                           *)
PassedInv == \A n \in 1 .. Len(ordered) :
    /\ n < at /\ failure = "none" => passed[ordered[n].id] = "yes"
    /\ n >= at => passed[ordered[n].id] = "none"

(* A failure has left a result.                                            *)
FailureInv ==
    /\ failure = "none" => \A a \in Everybody : results[a] \in {"none", "success"}
    /\ failure # "none" => \E a \in Everybody : results[a] # "none"
    /\ pc \in InStage => failure = "none"

AgentInv == \A s \in Ids(plan), a \in Agent : a \in AgentsOf(s) =>
    /\ passed[s] = "none" /\ ~AtStage(s) => Untouched(a)
    /\ passed[s] = "yes" => Succeeded(a)
    /\ passed[s] = "no" => Accounted(s, a)

QuietInv ==
    /\ \A a \in Agent : ran[a] <= 1
    /\ retry = <<>> /\ rounds = 0 /\ reported = "none"
    /\ pc # "parallel" => joinset = {} /\ pending = <<>>
    /\ pc \in {"stages", "announce"} => gathered = <<>>

LoopInv == PassedInv /\ FailureInv /\ AgentInv /\ QuietInv

AnnounceInv == \A a \in Members(Current) : Untouched(a)

(* Each agent of a parallel stage has a task in the set, or its result, or  *)
(* has panicked and is pending.                                            *)
ParallelInv ==
    /\ joinset \subseteq ToSet(pending) /\ ToSet(pending) \subseteq Members(Current)
    /\ \A n \in 1 .. Len(gathered) :
          \/ gathered[n] = <<Unknown, "failed">>
          \/ /\ gathered[n][1] \in Members(Current) \ ToSet(pending)
             /\ gathered[n][2] = task[gathered[n][1]] /\ gathered[n][2] \in Ended
    /\ \A a \in Members(Current) :
          /\ ran[a] = 1 /\ results[a] = "none"
          /\ a \in joinset => task[a] \in {"running", "success", "failed", "panicked"}
          /\ a \in ToSet(pending) \ joinset =>
                task[a] = "panicked" /\ \E n \in 1 .. Len(gathered) : gathered[n] = <<Unknown, "failed">>
          /\ a \notin ToSet(pending) => \E n \in 1 .. Len(gathered) : gathered[n][1] = a

(* The agents of a serial stage have succeeded up to the one whose turn it  *)
(* is, and the others are untouched.                                       *)
SerialInv ==
    /\ Len(gathered) <= Len(Current.agents)
    /\ \A n \in 1 .. Len(gathered) : gathered[n] = <<Current.agents[n], "success">>
    /\ \A n \in 1 .. Len(Current.agents) : LET a == Current.agents[n] IN
          /\ results[a] = "none"
          /\ n <= Len(gathered) => task[a] = "success" /\ ran[a] = 1
          /\ n = Len(gathered) + 1 =>
                Untouched(a) \/ (ran[a] = 1 /\ task[a] \in {"running", "success", "failed", "panicked"})
          /\ n > Len(gathered) + 1 => Untouched(a)

StageInv ==
    /\ pc \in InLoops => LoopInv
    /\ pc = "announce" => AnnounceInv
    /\ pc = "parallel" => ParallelInv
    /\ pc = "serial" => SerialInv

(***************************************************************************)
(* The review.                                                             *)
(***************************************************************************)
Retrying(a) == pc = "retrying" /\ a = Head(retry)

ReviewInv == pc \in InReview =>
    /\ plan.review /\ failure = "none" /\ joinset = {} /\ reported = "none"
    /\ \A s \in Ids(plan) : passed[s] = "yes"
    /\ \A s \in Ids(plan), a \in Agent : a \in AgentsOf(s) =>
          /\ ran[a] >= 1 /\ results[a] \in Ended
          /\ ran[a] = 1 => results[a] = "success"
          /\ IF Retrying(a) THEN task[a] # "idle" /\ ran[a] > 1 ELSE task[a] = results[a]
    /\ \A a \in ToSet(retry) : \E s \in Ids(plan) : a \in AgentsOf(s)
    /\ IsInjective(retry)
    /\ \A a \in Agent : /\ ran[a] <= rounds + 1
                        /\ a \in ToSet(retry) /\ ~Retrying(a) => ran[a] <= rounds

EndInv == pc = "end" => ResultsAccounted /\ SuccessEarned /\ \A a \in Agent : ran[a] <= rounds + 1

(* A stop is followed by one step at most that starts agents.               *)
StopInv ==
    /\ stopped = cancelled /\ late <= 1
    /\ ~cancelled => late = 0
    /\ late = 1 => pc \notin {"announce", "again"}

TypeInv == SortTyped /\ RunTyped /\ OrderInv /\ SortedInv

OrchestrationInv == TypeInv /\ StageInv /\ ReviewInv /\ EndInv
-----------------------------------------------------------------------------
(***************************************************************************)
(* Only: the members of a sequence that are in a set.                      *)
(***************************************************************************)
LEMMA OnlyStep ==
    ASSUME NEW T, NEW s \in Seq(T), NEW S
    PROVE  \E f :
              /\ f[0] = <<>> /\ f[Len(s)] = Only(s, S)
              /\ \A i \in 1 .. Len(s) :
                    f[i] = IF s[i] \in S THEN Append(f[i - 1], s[i]) ELSE f[i - 1]
<1> DEFINE G == [i \in 1 .. Len(s) |-> [r \in Seq(T) |->
                    IF s[i] \in S THEN Append(r, s[i]) ELSE r]]
           Is(f) == f = [n \in 0 .. Len(s) |->
                           IF n = 0 THEN <<>>
                           ELSE IF s[n] \in S THEN Append(f[n - 1], s[n]) ELSE f[n - 1]]
           F == CHOOSE f : Is(f)
<1>1. Len(s) \in Nat /\ \A i \in 1 .. Len(s) : s[i] \in T
  OBVIOUS
<1>2. G \in [1 .. Len(s) -> [Seq(T) -> Seq(T)]]
  BY <1>1
<1>3. <<>> \in Seq(T)
  OBVIOUS
<1> HIDE DEF G, Is
<1>4. PICK f \in [0 .. Len(s) -> Seq(T)] :
         f[0] = <<>> /\ \A i \in 1 .. Len(s) : f[i] = G[i][f[i - 1]]
  <2>1. Unfolds(Len(s), Seq(T), <<>>, G)
    BY <1>1, <1>2, <1>3, Recursion
  <2>2. QED
    BY <2>1 DEF Unfolds
<1>5. \A i \in 1 .. Len(s) : f[i] = IF s[i] \in S THEN Append(f[i - 1], s[i]) ELSE f[i - 1]
  <2>1. ASSUME NEW i \in 1 .. Len(s)
        PROVE  f[i] = IF s[i] \in S THEN Append(f[i - 1], s[i]) ELSE f[i - 1]
    <3>1. f[i - 1] \in Seq(T)
      BY <1>1, <1>4
    <3>2. QED
      BY <1>4, <3>1 DEF G
  <2>2. QED
    BY <2>1
<1>6. Is(f)
  <2> DEFINE h == [n \in 0 .. Len(s) |->
                     IF n = 0 THEN <<>>
                     ELSE IF s[n] \in S THEN Append(f[n - 1], s[n]) ELSE f[n - 1]]
  <2>1. ASSUME NEW n \in 0 .. Len(s) PROVE f[n] = h[n]
    <3>1. CASE n = 0
      BY <1>1, <1>4, <3>1
    <3>2. CASE n # 0
      <4>1. n \in 1 .. Len(s)
        BY <1>1, <3>2
      <4>2. QED
        BY <1>5, <3>2, <4>1
    <3>3. QED
      BY <3>1, <3>2
  <2>2. DOMAIN f = 0 .. Len(s) /\ DOMAIN h = 0 .. Len(s)
    BY <1>4
  <2> HIDE DEF h
  <2>3. f = h
    BY <1>4, <2>1, <2>2 DEF h
  <2>4. QED
    BY <2>3 DEF Is, h
<1>7. Is(F)
  BY <1>6
<1>8. Only(s, S) = F[Len(s)]
  BY DEF Only, Is
<1> HIDE DEF F
<1>9. F[0] = <<>>
  BY <1>1, <1>7 DEF Is
<1>10. \A i \in 1 .. Len(s) : F[i] = IF s[i] \in S THEN Append(F[i - 1], s[i]) ELSE F[i - 1]
  <2>1. SUFFICES ASSUME NEW i \in 1 .. Len(s)
                 PROVE  F[i] = IF s[i] \in S THEN Append(F[i - 1], s[i]) ELSE F[i - 1]
    OBVIOUS
  <2>2. i \in 0 .. Len(s) /\ i # 0
    BY <1>1
  <2>3. QED
    BY <1>7, <2>2 DEF Is
<1>11. QED
  BY <1>8, <1>9, <1>10

LEMMA OnlyMembers ==
    ASSUME NEW T, NEW s \in Seq(T), NEW S
    PROVE  /\ Only(s, S) \in Seq(T) /\ ToSet(Only(s, S)) = ToSet(s) \cap S
           /\ IsInjective(s) => IsInjective(Only(s, S))
<1>1. Len(s) \in Nat /\ \A i \in 1 .. Len(s) : s[i] \in T
  OBVIOUS
<1>2. PICK f : /\ f[0] = <<>> /\ f[Len(s)] = Only(s, S)
               /\ \A i \in 1 .. Len(s) :
                     f[i] = IF s[i] \in S THEN Append(f[i - 1], s[i]) ELSE f[i - 1]
  BY OnlyStep
<1> DEFINE Good(n) == /\ f[n] \in Seq(T)
                      /\ ToSet(f[n]) = {s[i] : i \in 1 .. n} \cap S
                      /\ IsInjective(s) => IsInjective(f[n])
           N == {n \in Nat : n <= Len(s) => Good(n)}
<1>3. 0 \in N
  <2>1. f[0] \in Seq(T) /\ ToSet(f[0]) = {} /\ IsInjective(f[0])
    BY <1>2 DEF ToSet, IsInjective
  <2>2. 1 .. 0 = {}
    OBVIOUS
  <2>3. QED
    BY <2>1, <2>2
<1>4. ASSUME NEW k \in N PROVE k + 1 \in N
  <2>1. k \in Nat /\ k + 1 \in Nat
    OBVIOUS
  <2>2. SUFFICES ASSUME k + 1 <= Len(s) PROVE Good(k + 1)
    BY <2>1
  <2>3. Good(k) /\ k + 1 \in 1 .. Len(s) /\ (k + 1) - 1 = k
    BY <1>1, <2>1, <2>2
  <2>4. \A i : i \in 1 .. k + 1 <=> i \in 1 .. k \/ i = k + 1
    BY <2>1
  <2>5. s[k + 1] \in T
    BY <1>1, <2>3
  <2> HIDE DEF N
  <2>6. CASE s[k + 1] \in S
    <3>1. f[k + 1] = Append(f[k], s[k + 1])
      BY <1>2, <2>3, <2>6
    <3>2. ToSet(f[k + 1]) = ToSet(f[k]) \cup {s[k + 1]}
      BY <2>3, <2>5, <3>1, SetOfAppend
    <3>3. IsInjective(f[k + 1]) <=> IsInjective(f[k]) /\ s[k + 1] \notin ToSet(f[k])
      BY <2>3, <2>5, <3>1, SetOfAppend
    <3>4. IsInjective(s) => s[k + 1] \notin ToSet(f[k])
      <4>1. HAVE IsInjective(s)
      <4>2. \A i \in 1 .. k : s[i] # s[k + 1]
        BY <1>1, <2>1, <2>3, <4>1, SetOf
      <4>3. QED
        BY <2>3, <4>2
    <3>5. QED
      BY <2>3, <2>4, <2>5, <2>6, <3>1, <3>2, <3>3, <3>4, AppendProperties
  <2>7. CASE s[k + 1] \notin S
    <3>1. f[k + 1] = f[k]
      BY <1>2, <2>3, <2>7
    <3>2. QED
      BY <2>3, <2>4, <2>7, <3>1
  <2>8. QED
    BY <2>6, <2>7
<1> HIDE DEF N
<1>5. N = Nat
  <2>1. N \in SUBSET Nat
    BY DEF N
  <2>2. QED
    BY <1>3, <1>4, <2>1, SetInduction
<1>6. Good(Len(s))
  <2>1. Len(s) \in N /\ Len(s) <= Len(s)
    BY <1>1, <1>5
  <2>2. QED
    BY <2>1 DEF N
<1>7. ToSet(s) = {s[i] : i \in 1 .. Len(s)}
  BY SetOf
<1>8. QED
  BY <1>2, <1>6, <1>7
-----------------------------------------------------------------------------
(***************************************************************************)
(* Plans.                                                                  *)
(***************************************************************************)
LEMMA PlanShape ==
    ASSUME NEW p \in Plans
    PROVE  /\ p.stages \in Seq(Stage) /\ Len(p.stages) \in Nat
           /\ p.retries \in Nat /\ p.review \in BOOLEAN
           /\ p.named \in BOOLEAN /\ p.shorthand \in BOOLEAN
           /\ Ids(p) = {p.stages[n].id : n \in 1 .. Len(p.stages)}
           /\ Ids(p) \subseteq StageId
           /\ IsFiniteSet(Ids(p)) /\ Cardinality(Ids(p)) <= Len(p.stages)
<1>1. p \in Plan
  BY PlanAssumption
<1>2. p.stages \in Seq(Stage) /\ p.retries \in Nat /\ p.review \in BOOLEAN
      /\ p.named \in BOOLEAN /\ p.shorthand \in BOOLEAN
  BY <1>1 DEF Plan
<1>3. Len(p.stages) \in Nat /\ DOMAIN p.stages = 1 .. Len(p.stages)
      /\ \A n \in 1 .. Len(p.stages) : p.stages[n] \in Stage
  BY <1>2
<1>4. Ids(p) = {p.stages[n].id : n \in 1 .. Len(p.stages)}
  BY <1>3 DEF Ids
<1>5. Ids(p) \subseteq StageId
  BY <1>3, <1>4 DEF Stage
<1>6. IsFiniteSet(Ids(p)) /\ Cardinality(Ids(p)) <= Len(p.stages)
  <2> DEFINE f == [n \in 1 .. Len(p.stages) |-> p.stages[n].id]
  <2>1. f \in Surjection(1 .. Len(p.stages), Ids(p))
    BY <1>4 DEF Surjection
  <2>2. IsFiniteSet(1 .. Len(p.stages)) /\ Cardinality(1 .. Len(p.stages)) = Len(p.stages)
    BY <1>3, FS_Interval
  <2> HIDE DEF f
  <2>3. QED
    BY <2>1, <2>2, FS_Surjection
<1>7. QED
  BY <1>2, <1>3, <1>4, <1>5, <1>6

LEMMA NamedShape ==
    ASSUME NEW p \in Plans, NEW s \in Ids(p)
    PROVE  /\ \E n \in 1 .. Len(p.stages) : Named(p, s) = p.stages[n]
           /\ Named(p, s) \in Stage /\ Named(p, s).id = s
           /\ IsFiniteSet(Deps(p, s)) /\ Deps(p, s) \subseteq StageId
           /\ Named(p, s).agents \in Seq(Agent) /\ Members(Named(p, s)) \subseteq Agent
<1> DEFINE n == CHOOSE m \in DOMAIN p.stages : p.stages[m].id = s
<1>1. p.stages \in Seq(Stage) /\ DOMAIN p.stages = 1 .. Len(p.stages)
  BY PlanShape
<1>2. n \in DOMAIN p.stages /\ p.stages[n].id = s
  BY DEF Ids
<1>3. Named(p, s) = p.stages[n]
  BY DEF Named
<1> HIDE DEF n
<1>4. p.stages[n] \in Stage
  BY <1>1, <1>2
<1>5. IsFiniteSet(Deps(p, s)) /\ Deps(p, s) \subseteq StageId
  BY <1>2, <1>3, <1>4, PlanAssumption DEF Deps, Stage
<1>6. Named(p, s).agents \in Seq(Agent)
  BY <1>3, <1>4 DEF Stage
<1>7. Members(Named(p, s)) \subseteq Agent
  BY <1>6, SetOf DEF Members
<1>8. QED
  BY <1>1, <1>2, <1>3, <1>4, <1>5, <1>6, <1>7

(* In a plan that is not refused no id is used twice, dependencies are      *)
(* stages of the plan, and no agent is in two places.                       *)
LEMMA WellFormedShape ==
    ASSUME NEW p \in Plans, WellFormed(p)
    PROVE  /\ Cardinality(Ids(p)) = Len(p.stages)
           /\ \A m, n \in 1 .. Len(p.stages) : p.stages[m].id = p.stages[n].id => m = n
           /\ \A s \in Ids(p) : Deps(p, s) \subseteq Ids(p) /\ IsInjective(Named(p, s).agents)
           /\ \A s, r \in Ids(p) :
                 s # r => Members(Named(p, s)) \cap Members(Named(p, r)) = {}
<1> DEFINE n == Len(p.stages)
           f == [m \in 1 .. n |-> p.stages[m].id]
           ss == [m \in DOMAIN p.stages |-> p.stages[m].agents]
<1>1. p.stages \in Seq(Stage) /\ n \in Nat /\ DOMAIN p.stages = 1 .. n
      /\ \A m \in 1 .. n : p.stages[m] \in Stage
  BY PlanShape
<1>2. Ids(p) = {p.stages[m].id : m \in 1 .. n}
  BY PlanShape
<1>3. Cardinality(Ids(p)) = n /\ KnownDeps(p) /\ UniqueAgents(p)
  BY DEF WellFormed
<1>4. ASSUME NEW l \in 1 .. n, NEW m \in 1 .. n, p.stages[l].id = p.stages[m].id
      PROVE  l = m
  <2>1. f \in Surjection(1 .. n, Ids(p))
    BY <1>2 DEF Surjection
  <2>2. IsFiniteSet(1 .. n) /\ Cardinality(1 .. n) = n
    BY <1>1, FS_Interval
  <2>3. f[l] = f[m]
    BY <1>4
  <2> HIDE DEF f, n
  <2>4. f \in Injection(1 .. n, Ids(p))
    BY <1>3, <2>1, <2>2, FS_Surjection
  <2>5. QED
    BY <2>3, <2>4 DEF Injection, IsInjective
<1>5. ss \in Seq(Seq(Agent)) /\ Len(ss) = n /\ \A m \in 1 .. n : ss[m] = p.stages[m].agents
  <2>1. ss \in [1 .. n -> Seq(Agent)]
    BY <1>1 DEF Stage
  <2>2. QED
    BY <1>1, <2>1
<1>6. Apart(ss, n)
  <2>1. IsInjective(FlattenSeq(ss))
    BY <1>3 DEF UniqueAgents
  <2> HIDE DEF ss, n
  <2>2. QED
    BY <1>5, <2>1, Flatten
<1> HIDE DEF ss, n, f
<1>7. ASSUME NEW s \in Ids(p)
      PROVE  Deps(p, s) \subseteq Ids(p) /\ IsInjective(Named(p, s).agents)
  <2>1. PICK m \in 1 .. n : Named(p, s) = p.stages[m]
    BY NamedShape DEF n
  <2>2. Deps(p, s) \subseteq Ids(p)
    BY <1>1, <1>3, <2>1 DEF KnownDeps, Deps
  <2>3. QED
    BY <1>5, <1>6, <2>1, <2>2 DEF Apart
<1>8. ASSUME NEW s \in Ids(p), NEW r \in Ids(p), s # r
      PROVE  Members(Named(p, s)) \cap Members(Named(p, r)) = {}
  <2>1. PICK l \in 1 .. n : Named(p, s) = p.stages[l]
    BY NamedShape DEF n
  <2>2. PICK m \in 1 .. n : Named(p, r) = p.stages[m]
    BY NamedShape DEF n
  <2>3. l # m
    BY <1>8, <2>1, <2>2, NamedShape
  <2>4. QED
    BY <1>5, <1>6, <2>1, <2>2, <2>3 DEF Apart, Members
<1>9. QED
  BY <1>3, <1>4, <1>7, <1>8 DEF n

(* The ids of a plan, in its order.                                         *)
LEMMA IdsInOrder ==
    ASSUME NEW p \in Plans, NEW S
    PROVE  LET r == Only([n \in DOMAIN p.stages |-> p.stages[n].id], S)
           IN  /\ r \in Seq(Ids(p)) /\ ToSet(r) = Ids(p) \cap S
               /\ WellFormed(p) => IsInjective(r)
<1> DEFINE s == [n \in DOMAIN p.stages |-> p.stages[n].id]
<1>1. Len(p.stages) \in Nat /\ DOMAIN p.stages = 1 .. Len(p.stages)
      /\ Ids(p) = {p.stages[n].id : n \in 1 .. Len(p.stages)}
  BY PlanShape
<1>2. s \in Seq(Ids(p)) /\ Len(s) = Len(p.stages)
      /\ \A n \in 1 .. Len(p.stages) : s[n] = p.stages[n].id
  <2>1. s \in [1 .. Len(p.stages) -> Ids(p)]
    BY <1>1
  <2>2. QED
    BY <1>1, <2>1
<1> HIDE DEF s
<1>3. ToSet(s) = Ids(p)
  BY <1>1, <1>2, SetOf
<1>4. WellFormed(p) => IsInjective(s)
  BY <1>2, WellFormedShape, SetOf
<1>5. Only(s, S) \in Seq(Ids(p)) /\ ToSet(Only(s, S)) = Ids(p) \cap S
      /\ (WellFormed(p) => IsInjective(Only(s, S)))
  BY <1>2, <1>3, <1>4, OnlyMembers
<1>6. QED
  BY <1>5 DEF s

LEMMA AnyOrder ==
    ASSUME NEW S, IsFiniteSet(S), NEW q \in SetToSeqs(S)
    PROVE  q \in Seq(S) /\ ToSet(q) = S /\ IsInjective(q)
<1> DEFINE n == Cardinality(S)
<1>1. n \in Nat
  BY FS_CardinalityType
<1>2. q \in [1 .. n -> S] /\ \A i, j \in 1 .. n : i # j => q[i] # q[j]
  BY DEF SetToSeqs
<1>3. q \in Seq(S) /\ Len(q) = n
  BY <1>1, <1>2
<1>4. IsInjective(q) /\ ToSet(q) = {q[i] : i \in 1 .. n}
  BY <1>2, <1>3, SetOf
<1>5. q \in Injection(1 .. n, S)
  BY <1>2 DEF Injection, IsInjective
<1>6. IsFiniteSet(1 .. n) /\ Cardinality(1 .. n) = n
  BY <1>1, FS_Interval
<1>7. q \in Surjection(1 .. n, S)
  BY <1>5, <1>6, FS_Injection
<1>8. ToSet(q) = S
  BY <1>2, <1>4, <1>7 DEF Surjection
<1>9. QED
  BY <1>3, <1>4, <1>8
-----------------------------------------------------------------------------
(***************************************************************************)
(* The order of the stages.                                                *)
(***************************************************************************)
(* What the stage s, once placed, makes of the numbers, and frees.          *)
Lowered(p, s, in) == [r \in Ids(p) |-> IF s \in Deps(p, r) THEN in[r] - 1 ELSE in[r]]
Freed(p, s, in)   == Ids(p) \cap {r \in Ids(p) : s \in Deps(p, r) /\ in[r] = 1}

(* P is placed and Q is the queue, that s is taken from.                    *)
LEMMA KahnStep ==
    ASSUME NEW p \in Plans, WellFormed(p), NEW P, NEW Q, NEW s \in Q, s \in Ids(p), s \notin P,
           NEW in, Degrees(p, P, Q, in)
    PROVE  /\ Deps(p, s) \subseteq P
           /\ Freed(p, s, in) \cap (P \cup Q) = {}
           /\ Lowered(p, s, in) \in [Ids(p) -> Nat]
           /\ Degrees(p, P \cup {s}, (Q \ {s}) \cup Freed(p, s, in), Lowered(p, s, in))
<1>0. PICK R, out : R = Freed(p, s, in) /\ out = Lowered(p, s, in)
  OBVIOUS
<1>1. Deps(p, s) \subseteq P
  BY DEF Degrees
<1>2. R \cap (P \cup Q) = {}
  BY <1>0 DEF Degrees, Freed
<1>3. ASSUME NEW r \in Ids(p)
      PROVE  /\ out[r] = Cardinality(Deps(p, r) \ (P \cup {s}))
             /\ Cardinality(Deps(p, r) \ (P \cup {s})) \in Nat
             /\ r \in P \cup {s} \cup (Q \ {s}) \cup R <=> Deps(p, r) \subseteq P \cup {s}
  <2> DEFINE A == Deps(p, r) \ P
             B == Deps(p, r) \ (P \cup {s})
  <2>1. IsFiniteSet(A) /\ IsFiniteSet(B) /\ B = A \ {s}
    BY NamedShape, FS_Difference
  <2> out[r] = IF s \in Deps(p, r) THEN in[r] - 1 ELSE in[r]
    BY <1>0 DEF Lowered
  <2>2. Cardinality(A) \in Nat /\ Cardinality(B) \in Nat
    BY <2>1, FS_CardinalityType
  <2>3. Cardinality(B) = IF s \in A THEN Cardinality(A) - 1 ELSE Cardinality(A)
    BY <2>1, FS_RemoveElement
  <2>4. s \in A <=> s \in Deps(p, r)
    OBVIOUS
  <2>5. in[r] = Cardinality(A) /\ (r \in P \cup Q <=> Deps(p, r) \subseteq P)
    BY DEF Degrees
  <2>6. Cardinality(B) = 0 <=> B = {}
    BY <2>1, FS_EmptySet
  <2>7. Deps(p, r) \subseteq P \cup {s} <=> B = {}
    OBVIOUS
  <2>8. Deps(p, r) \subseteq P <=> A = {}
    OBVIOUS
  <2> HIDE DEF A, B
  <2>9. CASE s \in Deps(p, r)
    <3>1. Cardinality(B) = in[r] - 1 /\ A # {}
      BY <2>3, <2>4, <2>5, <2>9
    <3>2. r \notin P \cup Q
      BY <2>5, <2>8, <3>1
    <3>3. r \in R <=> in[r] = 1
      BY <1>0, <2>9 DEF Freed
    <3>4. B = {} <=> in[r] = 1
      BY <2>2, <2>5, <2>6, <3>1
    <3>5. QED
      BY <1>1, <2>2, <2>7, <2>9, <3>1, <3>2, <3>3, <3>4 DEF B
  <2>10. CASE s \notin Deps(p, r)
    <3>1. A = B
      BY <2>1, <2>4, <2>10
    <3>2. r \notin R
      BY <1>0, <2>10 DEF Freed
    <3>3. r \in P \cup {s} \cup (Q \ {s}) \cup R <=> r \in P \cup Q
      BY <3>2
    <3>4. Cardinality(B) = in[r] /\ Cardinality(B) \in Nat
      BY <2>2, <2>5, <3>1
    <3>5. Deps(p, r) \subseteq P \cup {s} <=> Deps(p, r) \subseteq P
      BY <2>10
    <3>6. QED
      BY <2>5, <2>10, <3>3, <3>4, <3>5 DEF B
  <2>11. QED
    BY <2>9, <2>10
<1>4. out \in [Ids(p) -> Nat]
  BY <1>0, <1>3 DEF Lowered
<1>5. Degrees(p, P \cup {s}, (Q \ {s}) \cup R, out)
  BY <1>3 DEF Degrees
<1>6. QED
  BY <1>0, <1>1, <1>2, <1>4, <1>5

(* A stage is placed when its dependencies are.                             *)
LEMMA PlacedAfter ==
    ASSUME NEW p, NEW o \in Seq(Stage), NEW v \in Stage, v.id \notin PlacedIn(o), After(p, o),
           Deps(p, v.id) \subseteq PlacedIn(o)
    PROVE  After(p, Append(o, v)) /\ PlacedIn(Append(o, v)) = PlacedIn(o) \cup {v.id}
<1> DEFINE n == Len(o)
           r == Append(o, v)
<1>1. /\ Len(r) = n + 1 /\ n \in Nat /\ r[n + 1] = v
      /\ \A m \in 1 .. n : r[m] = o[m]
  BY AppendProperties, LenProperties
<1>2. \A m : m \in 1 .. n + 1 <=> m \in 1 .. n \/ m = n + 1
  BY <1>1
<1>3. n + 1 \notin 1 .. n /\ (n + 1) - 1 = n
  BY <1>1
<1>4. PlacedIn(o) = {o[m].id : m \in 1 .. n}
  BY DEF PlacedIn
<1> HIDE DEF r, n
<1>5. PlacedIn(r) = PlacedIn(o) \cup {v.id}
  <2>1. PlacedIn(r) = {r[m].id : m \in 1 .. n + 1}
    BY <1>1 DEF PlacedIn
  <2>2. ASSUME NEW x \in PlacedIn(r) PROVE x \in PlacedIn(o) \cup {v.id}
    BY <1>1, <1>2, <1>4, <2>1
  <2>3. ASSUME NEW x \in PlacedIn(o) PROVE x \in PlacedIn(r)
    BY <1>1, <1>2, <1>4, <2>1
  <2>4. v.id \in PlacedIn(r)
    BY <1>1, <1>2, <2>1
  <2>5. QED
    BY <2>2, <2>3, <2>4
<1>6. \A l, m \in 1 .. Len(r) : r[l].id = r[m].id => l = m
  <2>1. TAKE l, m \in 1 .. Len(r)
  <2>2. HAVE r[l].id = r[m].id
  <2>3. \A i \in 1 .. n : o[i].id # v.id
    BY <1>4
  <2>4. CASE l \in 1 .. n /\ m \in 1 .. n
    BY <1>1, <2>2, <2>4 DEF After, n
  <2>5. CASE l = n + 1 \/ m = n + 1
    <3>1. ASSUME NEW i \in 1 .. n PROVE r[i].id # r[n + 1].id
      BY <1>1, <2>3, <3>1
    <3>2. QED
      BY <1>1, <1>2, <2>2, <2>5, <3>1
  <2>6. QED
    BY <1>1, <1>2, <2>4, <2>5
<1>7. \A m \in 1 .. Len(r) : Deps(p, r[m].id) \subseteq {r[l].id : l \in 1 .. m - 1}
  <2>1. TAKE m \in 1 .. Len(r)
  <2>2. CASE m \in 1 .. n
    <3>1. \A l \in 1 .. m - 1 : l \in 1 .. n /\ r[l] = o[l]
      BY <1>1, <2>2
    <3>2. Deps(p, o[m].id) \subseteq {o[l].id : l \in 1 .. m - 1}
      BY <2>2 DEF After, n
    <3>3. {o[l].id : l \in 1 .. m - 1} = {r[l].id : l \in 1 .. m - 1}
      BY <3>1
    <3>4. r[m] = o[m]
      BY <1>1, <2>2
    <3>5. QED
      BY <3>2, <3>3, <3>4
  <2>3. CASE m = n + 1
    <3>1. {r[l].id : l \in 1 .. m - 1} = {o[l].id : l \in 1 .. n}
      BY <1>1, <1>3, <2>3
    <3>2. QED
      BY <1>1, <1>4, <2>3, <3>1
  <2>4. QED
    BY <1>1, <1>2, <2>2, <2>3
<1>8. QED
  BY <1>5, <1>6, <1>7 DEF After, r


LEMMA PlaceEffect ==
    ASSUME SortTyped, OrderInv, Place
    PROVE  /\ WellFormed(plan) /\ pc = "sort" /\ queue # <<>> /\ Head(queue) \in Ids(plan)
           /\ Released(Head(queue)) \in Seq(Ids(plan)) /\ IsInjective(Released(Head(queue)))
           /\ ToSet(Released(Head(queue))) = Freed(plan, Head(queue), indegree)
           /\ ordered' = Append(ordered, Named(plan, Head(queue)))
           /\ Len(ordered') = Len(ordered) + 1 /\ Len(ordered) \in Nat
           /\ ordered'[Len(ordered) + 1] = Named(plan, Head(queue))
           /\ \A n \in 1 .. Len(ordered) : ordered'[n] = ordered[n]
           /\ Named(plan, Head(queue)) \in Stage /\ Named(plan, Head(queue)).id = Head(queue)
           /\ indegree' = Lowered(plan, Head(queue), indegree)
           /\ queue' = Tail(queue) \o Released(Head(queue))
           /\ plan' = plan /\ pc' = pc
<1>1. /\ WellFormed(plan) /\ pc = "sort" /\ queue # <<>>
      /\ ordered' = Append(ordered, Named(plan, Head(queue)))
      /\ indegree' = [r \in DOMAIN indegree |-> IF Head(queue) \in Deps(plan, r)
                                                THEN indegree[r] - 1 ELSE indegree[r]]
      /\ queue' = Tail(queue) \o Released(Head(queue))
      /\ plan' = plan /\ pc' = pc
  BY DEF Place
<1>2. plan \in Plans /\ queue \in Seq(Ids(plan)) /\ ordered \in Seq(Stage)
      /\ DOMAIN indegree = Ids(plan)
  BY DEF SortTyped, OrderInv
<1>3. Head(queue) \in Ids(plan)
  BY <1>1, <1>2, HeadTail
<1>4. Named(plan, Head(queue)) \in Stage /\ Named(plan, Head(queue)).id = Head(queue)
  BY <1>2, <1>3, NamedShape
<1>5. /\ Len(ordered') = Len(ordered) + 1 /\ Len(ordered) \in Nat
      /\ ordered'[Len(ordered) + 1] = Named(plan, Head(queue))
      /\ \A n \in 1 .. Len(ordered) : ordered'[n] = ordered[n]
  BY <1>1, <1>2, <1>4, AppendProperties, LenProperties
<1>6. /\ Released(Head(queue)) \in Seq(Ids(plan)) /\ IsInjective(Released(Head(queue)))
      /\ ToSet(Released(Head(queue))) = Freed(plan, Head(queue), indegree)
  <2> DEFINE S == {r \in Ids(plan) : Head(queue) \in Deps(plan, r) /\ indegree[r] = 1}
             r == Only([n \in DOMAIN plan.stages |-> plan.stages[n].id], S)
  <2>1. Released(Head(queue)) = r
    BY DEF Released
  <2> HIDE DEF S
  <2>2. r \in Seq(Ids(plan)) /\ ToSet(r) = Ids(plan) \cap S /\ IsInjective(r)
    BY <1>1, <1>2, IdsInOrder
  <2>3. QED
    BY <2>1, <2>2 DEF S, Freed
<1>7. indegree' = Lowered(plan, Head(queue), indegree)
  BY <1>1, <1>2 DEF Lowered
<1>8. QED
  BY <1>1, <1>2, <1>3, <1>4, <1>5, <1>6, <1>7

LEMMA PlaceTypes ==
    ASSUME SortTyped, OrderInv, SortedInv, Place
    PROVE  SortTyped' /\ SortedInv'
<1>1. plan \in Plans /\ queue \in Seq(Ids(plan)) /\ ordered \in Seq(Stage)
      /\ (\A n \in 1 .. Len(ordered) :
             ordered[n].id \in Ids(plan) /\ ordered[n] = Named(plan, ordered[n].id))
  BY DEF SortTyped
<1>2. /\ pc = "sort" /\ pc' = pc /\ plan' = plan /\ queue # <<>>
      /\ ordered' = Append(ordered, Named(plan, Head(queue)))
      /\ Len(ordered') = Len(ordered) + 1 /\ Len(ordered) \in Nat
      /\ ordered'[Len(ordered) + 1] = Named(plan, Head(queue))
      /\ (\A n \in 1 .. Len(ordered) : ordered'[n] = ordered[n])
      /\ Head(queue) \in Ids(plan)
      /\ Named(plan, Head(queue)) \in Stage /\ Named(plan, Head(queue)).id = Head(queue)
      /\ queue' = Tail(queue) \o Released(Head(queue))
      /\ Released(Head(queue)) \in Seq(Ids(plan))
  BY PlaceEffect
<1>3. queue' \in Seq(Ids(plan'))
  <2>1. Tail(queue) \in Seq(Ids(plan))
    BY <1>1, <1>2, HeadTail
  <2>2. QED
    BY <1>2, <2>1, ConcatProperties
<1>4. ordered' \in Seq(Stage)
  BY <1>1, <1>2
<1>5. \A n \in 1 .. Len(ordered') :
         ordered'[n].id \in Ids(plan') /\ ordered'[n] = Named(plan', ordered'[n].id)
  <2>1. TAKE n \in 1 .. Len(ordered')
  <2>2. n \in 1 .. Len(ordered) \/ n = Len(ordered) + 1
    BY <1>2
  <2>3. QED
    BY <1>1, <1>2, <2>2
<1>6. Fresh /\ Fresh'
  BY <1>2 DEF SortedInv, Fresh, Place, progress, execution, started, reviewing
<1>7. at' \in 1 .. Len(ordered') + 1
  BY <1>2, <1>6 DEF Fresh
<1>8. QED
  BY <1>1, <1>2, <1>3, <1>4, <1>5, <1>6, <1>7 DEF SortTyped, SortedInv, Label, InStage

LEMMA PlaceOrders ==
    ASSUME SortTyped, OrderInv, Place
    PROVE  OrderInv'
<1>1. PICK p : p = plan
  OBVIOUS
<1>2. PICK q : q = queue
  OBVIOUS
<1>3. PICK o : o = ordered
  OBVIOUS
<1>4. PICK in : in = indegree
  OBVIOUS
<1>5. PICK s : s = Head(queue)
  OBVIOUS
<1>6. PICK r : r = Released(Head(queue))
  OBVIOUS
<1>7. /\ p \in Plans /\ q \in Seq(Ids(p)) /\ o \in Seq(Stage)
      /\ After(p, o) /\ IsInjective(q) /\ ToSet(q) \cap PlacedIn(o) = {}
      /\ WellFormed(p) => Degrees(p, PlacedIn(o), ToSet(q), in)
  BY <1>1, <1>2, <1>3, <1>4 DEF SortTyped, OrderInv
<1>8. /\ WellFormed(p) /\ q # <<>> /\ s \in Ids(p) /\ s = Head(q)
      /\ r \in Seq(Ids(p)) /\ IsInjective(r)
      /\ Named(p, s) \in Stage /\ Named(p, s).id = s
      /\ ordered' = Append(o, Named(p, s)) /\ queue' = Tail(q) \o r /\ plan' = p
  BY <1>1, <1>2, <1>3, <1>5, <1>6, PlaceEffect
<1>9. ToSet(r) = Freed(p, s, in)
  BY <1>1, <1>4, <1>5, <1>6, PlaceEffect
<1>10. indegree' = Lowered(p, s, in)
  BY <1>1, <1>4, <1>5, PlaceEffect
<1>11. PICK out : out = indegree'
  OBVIOUS
<1>12. Tail(q) \in Seq(Ids(p)) /\ ToSet(q) = {s} \cup ToSet(Tail(q))
       /\ IsInjective(Tail(q)) /\ s \notin ToSet(Tail(q))
  BY <1>7, <1>8, HeadTail
<1>13. s \notin PlacedIn(o) /\ s \in ToSet(q)
  BY <1>7, <1>12
<1>14. /\ Deps(p, s) \subseteq PlacedIn(o)
       /\ ToSet(r) \cap (PlacedIn(o) \cup ToSet(q)) = {}
       /\ out \in [Ids(p) -> Nat]
       /\ Degrees(p, PlacedIn(o) \cup {s}, (ToSet(q) \ {s}) \cup ToSet(r), out)
  <2>1. Degrees(p, PlacedIn(o), ToSet(q), in)
    BY <1>7, <1>8
  <2>2. /\ Deps(p, s) \subseteq PlacedIn(o)
        /\ Freed(p, s, in) \cap (PlacedIn(o) \cup ToSet(q)) = {}
        /\ Lowered(p, s, in) \in [Ids(p) -> Nat]
        /\ Degrees(p, PlacedIn(o) \cup {s}, (ToSet(q) \ {s}) \cup Freed(p, s, in), Lowered(p, s, in))
    <3>1. PICK P, Q : P = PlacedIn(o) /\ Q = ToSet(q)
      OBVIOUS
    <3>2. p \in Plans /\ WellFormed(p) /\ s \in Q /\ s \in Ids(p) /\ s \notin P /\ Degrees(p, P, Q, in)
      BY <1>7, <1>8, <1>13, <2>1, <3>1
    <3>3. /\ Deps(p, s) \subseteq P
          /\ Freed(p, s, in) \cap (P \cup Q) = {}
          /\ Lowered(p, s, in) \in [Ids(p) -> Nat]
          /\ Degrees(p, P \cup {s}, (Q \ {s}) \cup Freed(p, s, in), Lowered(p, s, in))
      BY ONLY <3>2, KahnStep
    <3>4. QED
      BY <3>1, <3>3
  <2>3. QED
    BY <1>9, <1>10, <1>11, <2>2
<1>15. After(p, ordered') /\ PlacedIn(ordered') = PlacedIn(o) \cup {s}
  BY <1>7, <1>8, <1>13, <1>14, PlacedAfter
<1>16. ToSet(queue') = (ToSet(q) \ {s}) \cup ToSet(r) /\ IsInjective(queue')
  <2>1. ToSet(queue') = ToSet(Tail(q)) \cup ToSet(r)
    BY <1>8, <1>12, SetOfConcat
  <2>2. ToSet(Tail(q)) \cap ToSet(r) = {}
    BY <1>12, <1>14
  <2>3. IsInjective(queue')
    BY <1>8, <1>12, <2>2, SetOfConcat
  <2>4. QED
    BY <1>12, <2>1, <2>3
<1>17. ToSet(queue') \cap PlacedIn(ordered') = {}
  BY <1>7, <1>13, <1>14, <1>15, <1>16
<1>18. QED
  BY <1>8, <1>11, <1>14, <1>15, <1>16, <1>17 DEF OrderInv

LEMMA AllPlaced ==
    ASSUME NEW p \in Plans, WellFormed(p), NEW o \in Seq(Stage), After(p, o),
           PlacedIn(o) \subseteq Ids(p)
    PROVE  Len(o) = Len(p.stages) <=> PlacedIn(o) = Ids(p)
<1> DEFINE n == Len(o)
           f == [m \in 1 .. n |-> o[m].id]
<1>1. n \in Nat /\ PlacedIn(o) = {o[m].id : m \in 1 .. n}
  BY LenProperties DEF PlacedIn
<1>2. f \in Surjection(1 .. n, PlacedIn(o)) /\ f \in Injection(1 .. n, PlacedIn(o))
  BY <1>1 DEF Surjection, Injection, IsInjective, After
<1>3. IsFiniteSet(1 .. n) /\ Cardinality(1 .. n) = n
  <2> HIDE DEF n, f
  <2>1. 1 \in Int /\ n \in Int
    BY <1>1
  <2>2. IsFiniteSet(1 .. n) /\ Cardinality(1 .. n) = IF 1 > n THEN 0 ELSE n - 1 + 1
    BY <2>1, FS_Interval
  <2>3. QED
    BY <1>1, <2>2
<1> HIDE DEF f
<1>4. Cardinality(PlacedIn(o)) = n
  BY <1>2, <1>3, FS_Surjection
<1>5. IsFiniteSet(Ids(p)) /\ Cardinality(Ids(p)) = Len(p.stages)
  BY PlanShape, WellFormedShape
<1>6. Cardinality(Ids(p)) = Cardinality(PlacedIn(o)) => Ids(p) = PlacedIn(o)
  BY <1>5, FS_Subset
<1>7. QED
  BY <1>4, <1>5, <1>6

(* When the queue is empty, every stage is placed or a cycle is left.       *)
LEMMA OrderedIfAcyclic ==
    ASSUME NEW p \in Plans, WellFormed(p), NEW o \in Seq(Stage), After(p, o),
           PlacedIn(o) \subseteq Ids(p), NEW in, Degrees(p, PlacedIn(o), {}, in)
    PROVE  Len(o) = Len(p.stages) <=> ~Cyclic(p)
<1>1. Len(o) = Len(p.stages) <=> PlacedIn(o) = Ids(p)
  BY AllPlaced
<1>2. ASSUME PlacedIn(o) = Ids(p), NEW S \in SUBSET Ids(p), S # {},
             \A s \in S : Deps(p, s) \cap S # {}
      PROVE  FALSE
  <2> DEFINE T == {n \in 1 .. Len(o) : o[n].id \in S}
  <2>1. T \in SUBSET Nat
    BY LenProperties
  <2>2. T # {}
    <3>1. PICK s : s \in S
      BY <1>2
    <3>2. s \in PlacedIn(o)
      BY <1>2, <3>1
    <3>3. QED
      BY <3>1, <3>2 DEF PlacedIn
  <2> HIDE DEF T
  <2>3. PICK n \in T : \A m \in T : n <= m
    BY <2>1, <2>2, Least
  <2>4. n \in 1 .. Len(o) /\ o[n].id \in S /\ n \in Nat
    BY <2>3 DEF T
  <2>5. PICK d \in S : d \in Deps(p, o[n].id)
    BY <1>2, <2>4
  <2>6. d \in {o[m].id : m \in 1 .. n - 1}
    BY <2>4, <2>5 DEF After
  <2>7. PICK m \in 1 .. n - 1 : d = o[m].id
    BY <2>6
  <2>8. m \in 1 .. Len(o) /\ ~(n <= m)
    BY <2>4, <2>7, LenProperties
  <2>9. QED
    BY <2>3, <2>5, <2>7, <2>8 DEF T
<1>3. ASSUME PlacedIn(o) # Ids(p)
      PROVE  \E S \in SUBSET Ids(p) : S # {} /\ \A s \in S : Deps(p, s) \cap S # {}
  <2> DEFINE S == Ids(p) \ PlacedIn(o)
  <2>1. S \in SUBSET Ids(p) /\ S # {}
    BY <1>3
  <2>2. \A s \in S : Deps(p, s) \cap S # {}
    BY WellFormedShape DEF Degrees
  <2>3. QED
    BY <2>1, <2>2
<1>4. QED
  BY <1>1, <1>2, <1>3 DEF Cyclic

LEMMA SortTypes ==
    ASSUME SortTyped
    PROVE  /\ plan \in Plans /\ queue \in Seq(Ids(plan)) /\ ordered \in Seq(Stage)
           /\ Len(ordered) \in Nat /\ PlacedIn(ordered) \subseteq Ids(plan)
BY LenProperties DEF SortTyped, PlacedIn

LEMMA SortEnds ==
    ASSUME SortTyped, OrderInv, SortedInv, Refuse \/ Sorted
    PROVE  /\ plan' = plan /\ UNCHANGED <<indegree, queue, ordered>> /\ Fresh /\ Fresh'
           /\ IF Sensible THEN pc' = "stages" /\ Len(ordered) = Len(plan.stages)
                          ELSE pc' = "end"
<1>1. pc = "sort" /\ plan' = plan /\ UNCHANGED <<indegree, queue, ordered>>
  BY DEF Refuse, Sorted, sorting
<1>2. Fresh
  BY <1>1 DEF SortedInv
<1>3. Fresh'
  BY <1>2 DEF Fresh, Refuse, Sorted, progress, execution, started, reviewing
<1>4. CASE Refuse
  BY <1>1, <1>2, <1>3, <1>4 DEF Refuse, Sensible
<1>5. CASE Sorted
  <2>1. WellFormed(plan) /\ queue = <<>>
        /\ pc' = IF Len(ordered) = Len(plan.stages) THEN "stages" ELSE "end"
    BY <1>5 DEF Sorted
  <2>2. ToSet(queue) = {}
    BY <2>1 DEF ToSet
  <2>3. Degrees(plan, PlacedIn(ordered), {}, indegree) /\ After(plan, ordered)
    BY <2>1, <2>2 DEF OrderInv
  <2>4. Len(ordered) = Len(plan.stages) <=> ~Cyclic(plan)
    BY <2>1, <2>3, SortTypes, OrderedIfAcyclic
  <2>5. QED
    BY <1>1, <1>2, <1>3, <2>1, <2>4 DEF Sensible
<1>6. QED
  BY <1>4, <1>5

LEMMA InitHolds == Init => OrchestrationInv
<1> SUFFICES ASSUME Init PROVE OrchestrationInv
  OBVIOUS
<1> DEFINE S == {s \in Ids(plan) : Deps(plan, s) = {}}
<1>1. plan \in Plans /\ pc = "sort" /\ ordered = <<>> /\ Len(ordered) = 0
  BY DEF Init
<1>2. queue \in Seq(S) /\ ToSet(queue) = S /\ IsInjective(queue)
  <2>1. IsFiniteSet(S)
    BY <1>1, PlanShape, FS_Subset
  <2>2. queue \in SetToSeqs(S)
    BY DEF Init
  <2> HIDE DEF S
  <2>3. QED
    BY <2>1, <2>2, AnyOrder
<1>3. queue \in Seq(Ids(plan))
  BY <1>2
<1>4. SortTyped
  BY <1>1, <1>3 DEF SortTyped, Init, Label, InStage
<1>5. plan.retries \in Nat
  BY <1>1, PlanShape
<1>6. RunTyped
  <2>1. /\ pending = <<>> /\ gathered = <<>> /\ retry = <<>> /\ rounds = 0 /\ late = 0 /\ panics = 0
        /\ joinset = {} /\ passed = [s \in StageId |-> "none"] /\ failure = "none"
        /\ task = [a \in Agent |-> "idle"] /\ ran = [a \in Agent |-> 0]
        /\ results = [a \in Agent \cup {Unknown} |-> "none"]
        /\ reported = "none" /\ cancelled = FALSE /\ stopped = FALSE
    BY DEF Init
  <2>2. pending \in Seq(Agent) /\ gathered \in Seq(Everybody \X Status) /\ retry \in Seq(Agent)
    BY <2>1
  <2>3. rounds \in 0 .. plan.retries /\ panics \in 0 .. MaxPanics
    BY <1>5, <2>1, PlanAssumption
  <2>4. results \in [Everybody -> Status] /\ ran \in [Agent -> Nat]
    BY <2>1 DEF Everybody, Status
  <2>5. QED
    BY <1>1, <2>1, <2>2, <2>3, <2>4 DEF RunTyped
<1>7. PlacedIn(ordered) = {}
  BY <1>1 DEF PlacedIn
<1>8. After(plan, ordered)
  BY <1>1 DEF After
<1>9. \A r \in Ids(plan) : /\ indegree[r] = Cardinality(Deps(plan, r) \ {})
                           /\ indegree[r] \in Nat
                           /\ r \in {} \cup S <=> Deps(plan, r) \subseteq {}
  <2>1. TAKE r \in Ids(plan)
  <2>2. IsFiniteSet(Deps(plan, r))
    BY <1>1, NamedShape
  <2>3. Cardinality(Deps(plan, r)) \in Nat /\ Deps(plan, r) \ {} = Deps(plan, r)
    BY <2>2, FS_CardinalityType
  <2>4. indegree[r] = Cardinality(Deps(plan, r))
    BY DEF Init
  <2>5. QED
    BY <2>3, <2>4
<1>10. OrderInv
  <2>1. Degrees(plan, {}, ToSet(queue), indegree)
    BY <1>2, <1>9 DEF Degrees
  <2>2. indegree \in [Ids(plan) -> Nat]
    BY <1>9 DEF Init
  <2>3. QED
    BY <1>2, <1>7, <1>8, <2>1, <2>2 DEF OrderInv
<1>11. SortedInv
  BY <1>1 DEF SortedInv, Fresh, Init, Everybody
<1>12. QED
  BY <1>1, <1>4, <1>6, <1>10, <1>11
     DEF OrchestrationInv, TypeInv, StageInv, ReviewInv, EndInv, InLoops, InStage, InReview

LEMMA OrderKept ==
    ASSUME OrderInv, plan' = plan, UNCHANGED <<indegree, queue, ordered>>
    PROVE  OrderInv'
BY DEF OrderInv

(* A step after the sorting.                                               *)
LEMMA SortKept ==
    ASSUME SortTyped, OrderInv, SortedInv, pc # "sort", pc # "end",
           plan' = plan, UNCHANGED <<indegree, queue, ordered>>,
           pc' \in Label, pc' # "sort", at' \in 1 .. Len(ordered) + 1,
           pc' \in InStage => at' <= Len(ordered)
    PROVE  SortTyped' /\ OrderInv' /\ SortedInv'
<1>1. OrderInv'
  BY OrderKept
<1>2. SortTyped'
  BY DEF SortTyped
<1>3. SortedInv'
  BY DEF SortedInv, Sensible
<1>4. QED
  BY <1>1, <1>2, <1>3
-----------------------------------------------------------------------------
(***************************************************************************)
(* The order that is given: the stages of the plan, each of its own agents. *)
(***************************************************************************)
InPlan ==
    /\ plan \in Plans /\ WellFormed(plan) /\ Len(ordered) \in Nat /\ ordered \in Seq(Stage)
    /\ \A s \in Ids(plan) : /\ \E n \in 1 .. Len(ordered) : ordered[n].id = s
                            /\ s \in StageId /\ AgentsOf(s) \subseteq Agent
                            /\ Deps(plan, s) \subseteq Ids(plan)
    /\ \A n \in 1 .. Len(ordered) :
          /\ ordered[n].id \in Ids(plan) /\ ordered[n].deps = Deps(plan, ordered[n].id)
          /\ ordered[n].agents \in Seq(Agent) /\ IsInjective(ordered[n].agents)
          /\ Members(ordered[n]) = AgentsOf(ordered[n].id)
    /\ \A s, r \in Ids(plan), a \in Agent : a \in AgentsOf(s) /\ a \in AgentsOf(r) => s = r
    /\ \A m, n \in 1 .. Len(ordered) : ordered[m].id = ordered[n].id => m = n

LEMMA Structure ==
    ASSUME SortTyped, OrderInv, SortedInv, pc # "sort", pc # "end"
    PROVE  InPlan
<1>1. /\ plan \in Plans /\ ordered \in Seq(Stage) /\ Len(ordered) \in Nat
      /\ PlacedIn(ordered) \subseteq Ids(plan)
  BY SortTypes
<1>2. WellFormed(plan) /\ Len(ordered) = Len(plan.stages)
  BY DEF SortedInv, Sensible
<1>3. After(plan, ordered)
  BY DEF OrderInv
<1>4. PlacedIn(ordered) = Ids(plan)
  BY <1>1, <1>2, <1>3, AllPlaced
<1>5. \A s \in Ids(plan) : \E n \in 1 .. Len(ordered) : ordered[n].id = s
  BY <1>4 DEF PlacedIn
<1>6. \A s \in Ids(plan) : /\ s \in StageId /\ AgentsOf(s) \subseteq Agent
                           /\ Deps(plan, s) \subseteq Ids(plan)
                           /\ Named(plan, s).agents \in Seq(Agent)
                           /\ IsInjective(Named(plan, s).agents)
  BY <1>1, <1>2, PlanShape, NamedShape, WellFormedShape DEF AgentsOf
<1>7. \A n \in 1 .. Len(ordered) :
          /\ ordered[n].id \in Ids(plan) /\ ordered[n].deps = Deps(plan, ordered[n].id)
          /\ ordered[n].agents \in Seq(Agent) /\ IsInjective(ordered[n].agents)
          /\ Members(ordered[n]) = AgentsOf(ordered[n].id)
  <2>1. TAKE n \in 1 .. Len(ordered)
  <2>2. ordered[n].id \in Ids(plan) /\ ordered[n] = Named(plan, ordered[n].id)
    BY DEF SortTyped
  <2>3. ordered[n].deps = Deps(plan, ordered[n].id)
    BY <2>2 DEF Deps
  <2>4. Members(ordered[n]) = AgentsOf(ordered[n].id)
    BY <2>2 DEF AgentsOf
  <2>5. QED
    BY <1>6, <2>2, <2>3, <2>4
<1>8. \A s, r \in Ids(plan), a \in Agent : a \in AgentsOf(s) /\ a \in AgentsOf(r) => s = r
  BY <1>1, <1>2, WellFormedShape DEF AgentsOf
<1>9. \A m, n \in 1 .. Len(ordered) : ordered[m].id = ordered[n].id => m = n
  BY <1>3 DEF After
<1>10. QED
  BY <1>1, <1>2, <1>5, <1>6, <1>7, <1>8, <1>9 DEF InPlan

LEMMA CurrentShape ==
    ASSUME SortTyped, OrderInv, SortedInv, pc # "sort", pc # "end", at <= Len(ordered)
    PROVE  /\ at \in 1 .. Len(ordered) /\ Current.id \in Ids(plan) /\ Current.id \in StageId
           /\ Current.agents \in Seq(Agent) /\ IsInjective(Current.agents)
           /\ Members(Current) = AgentsOf(Current.id) /\ Members(Current) \subseteq Agent
           /\ Members(Current) = ToSet(Current.agents)
           /\ Current.deps = Deps(plan, Current.id)
<1>1. InPlan
  BY Structure
<1>2. at \in 1 .. Len(ordered) /\ Current = ordered[at]
  BY <1>1 DEF SortTyped, InPlan, Current
<1>3. QED
  BY <1>1, <1>2 DEF InPlan, Members
-----------------------------------------------------------------------------
(***************************************************************************)
(* The types are kept.                                                     *)
(***************************************************************************)
LEMMA SkipTypes ==
    ASSUME TypeInv, SkipStage
    PROVE  TypeInv'
<1>1. SortTyped /\ RunTyped /\ OrderInv /\ SortedInv
  BY DEF TypeInv
<1>2. /\ plan' = plan /\ UNCHANGED <<indegree, queue, ordered>>
      /\ pc = "stages" /\ pc' = pc /\ at' = at + 1 /\ at <= Len(ordered)
  BY <1>1 DEF SkipStage, InLoop, SortTyped, Label, InStage, sorting, progress
<1>3. SortTyped' /\ OrderInv' /\ SortedInv'
  BY <1>1, <1>2, SortKept DEF Label, InStage, SortTyped
<1>4. RunTyped'
  BY <1>1, <1>2 DEF RunTyped, SkipStage, InLoop, progress, execution, started, reviewing
<1>5. QED
  BY <1>3, <1>4 DEF TypeInv

LEMMA StartTypes ==
    ASSUME TypeInv, StartStage
    PROVE  TypeInv'
<1>1. SortTyped /\ RunTyped /\ OrderInv /\ SortedInv
  BY DEF TypeInv
<1>2. /\ plan' = plan /\ UNCHANGED <<indegree, queue, ordered>>
      /\ pc = "stages" /\ pc' = "announce" /\ at' = at /\ at <= Len(ordered)
  BY <1>1 DEF StartStage, InLoop, SortTyped, Label, InStage, sorting, progress
<1>3. SortTyped' /\ OrderInv' /\ SortedInv'
  BY <1>1, <1>2, SortKept DEF Label, InStage, SortTyped
<1>4. RunTyped'
  BY <1>1, <1>2 DEF RunTyped, StartStage, InLoop, progress, execution, started, reviewing
<1>5. QED
  BY <1>3, <1>4 DEF TypeInv

LEMMA EndsTypes ==
    ASSUME TypeInv, NEW a \in Agent, AgentEnds(a)
    PROVE  TypeInv'
<1>1. SortTyped /\ RunTyped /\ OrderInv /\ SortedInv
  BY DEF TypeInv
<1>2. /\ plan' = plan /\ UNCHANGED <<indegree, queue, ordered>>
      /\ pc # "sort" /\ pc # "end" /\ pc' = pc /\ at' = at
  <2>1. plan' = plan /\ UNCHANGED <<indegree, queue, ordered>> /\ pc # "end" /\ pc' = pc /\ at' = at
    BY DEF AgentEnds, sorting, progress
  <2>2. pc # "sort"
    BY <1>1 DEF SortedInv, Fresh, AgentEnds
  <2>3. QED
    BY <2>1, <2>2
<1>3. SortTyped' /\ OrderInv' /\ SortedInv'
  BY <1>1, <1>2, SortKept DEF Label, InStage, SortTyped
<1>4. RunTyped'
  <2>1. PICK how \in {"success", "failed", "panicked"} :
           /\ how = "panicked" => panics < MaxPanics
           /\ panics' = IF how = "panicked" THEN panics + 1 ELSE panics
           /\ task' = [task EXCEPT ![a] = how]
    BY DEF AgentEnds
  <2>2. panics' \in 0 .. MaxPanics
    BY <1>1, <2>1, PlanAssumption DEF RunTyped
  <2>3. task' \in [Agent -> {"idle", "running", "success", "failed", "panicked", "aborted"}]
    BY <1>1, <2>1 DEF RunTyped
  <2>4. /\ UNCHANGED <<plan, pc, passed, failure, joinset, pending, gathered, results, retry>>
        /\ UNCHANGED <<rounds, reported, cancelled, stopped, ran, late>>
    BY DEF AgentEnds, progress, started, reviewing
  <2>5. QED
    BY <1>1, <2>2, <2>3, <2>4 DEF RunTyped
<1>5. QED
  BY <1>3, <1>4 DEF TypeInv

(* The agent whose turn it is in a serial stage.                            *)
LEMMA DueShape ==
    ASSUME TypeInv, InTurn
    PROVE  LET n == Len(gathered)
               us == Current.agents
           IN  /\ n \in Nat /\ us \in Seq(Agent) /\ IsInjective(us)
               /\ n + 1 \in 1 .. Len(us) /\ Due = us[n + 1] /\ Due \in Agent /\ Due \in Members(Current)
               /\ Left \in Seq(Agent) /\ Len(Left) = Len(us) - n
               /\ \A i \in 1 .. Len(Left) : Left[i] = us[n + i]
               /\ Tail(Left) \in Seq(Agent) /\ Len(Tail(Left)) = Len(us) - n - 1
               /\ \A i \in 1 .. Len(Tail(Left)) : Tail(Left)[i] = us[n + 1 + i]
<1>1. PICK n, us, left : n = Len(gathered) /\ us = Current.agents /\ left = Left
  OBVIOUS
<1>2. pc = "serial" /\ left = SubSeq(us, n + 1, Len(us)) /\ left # <<>> /\ Due = Head(left)
  BY <1>1 DEF InTurn, Left, Due
<1>3. n \in Nat /\ us \in Seq(Agent) /\ IsInjective(us) /\ Members(Current) = ToSet(us)
  <2>1. n \in Nat
    BY <1>1 DEF TypeInv, RunTyped
  <2>2. at <= Len(ordered) /\ SortTyped /\ OrderInv /\ SortedInv
    BY <1>2 DEF TypeInv, SortTyped, InStage
  <2>3. QED
    BY <1>1, <1>2, <2>1, <2>2, CurrentShape
<1>4. Len(us) \in Nat
  BY <1>3
<1>5. left \in Seq(Agent) /\ Len(left) > 0 /\ Len(left) = Len(us) - n
      /\ \A i \in 1 .. Len(left) : left[i] = us[n + i]
  <2>1. left \in Seq(Agent) /\ Len(left) = (IF n + 1 <= Len(us) THEN Len(us) - (n + 1) + 1 ELSE 0)
        /\ \A i \in 1 .. Len(left) : left[i] = us[(n + 1) + i - 1]
    BY <1>2, <1>3, <1>4, SubSeqProperties
  <2>2. Len(left) > 0
    BY <1>2, <2>1, EmptySeq, LenProperties
  <2>3. QED
    BY <1>3, <1>4, <2>1, <2>2
<1>6. /\ n + 1 \in 1 .. Len(us) /\ Due = us[n + 1] /\ Due \in Agent /\ Due \in Members(Current)
  <2>1. n + 1 \in 1 .. Len(us) /\ 1 \in 1 .. Len(left)
    BY <1>3, <1>4, <1>5
  <2>2. Due = left[1] /\ left[1] = us[n + 1]
    BY <1>2, <1>5, <2>1, HeadTail
  <2>3. QED
    BY <1>3, <2>1, <2>2, SetOf
<1>7. Tail(left) \in Seq(Agent) /\ Len(Tail(left)) = Len(us) - n - 1
      /\ \A i \in 1 .. Len(Tail(left)) : Tail(left)[i] = us[n + 1 + i]
  <2>1. Tail(left) \in Seq(Agent) /\ Len(Tail(left)) = Len(left) - 1
        /\ \A i \in 1 .. Len(Tail(left)) : Tail(left)[i] = left[i + 1]
    BY <1>2, <1>5, HeadTailProperties
  <2>2. \A i \in 1 .. Len(Tail(left)) : i + 1 \in 1 .. Len(left) /\ n + (i + 1) = n + 1 + i
    BY <1>3, <1>4, <1>5, <2>1
  <2>3. QED
    BY <1>3, <1>4, <1>5, <2>1, <2>2
<1>8. QED
  BY <1>1, <1>3, <1>5, <1>6, <1>7

LEMMA SerialNextTypes ==
    ASSUME TypeInv, SerialNext
    PROVE  TypeInv'
<1>1. SortTyped /\ RunTyped /\ OrderInv /\ SortedInv
  BY DEF TypeInv
<1>2. /\ plan' = plan /\ UNCHANGED <<indegree, queue, ordered>>
      /\ pc = "serial" /\ pc' = pc /\ at' = at
  BY <1>1 DEF SerialNext, InTurn, SortTyped, Label, InStage, sorting, progress
<1>3. SortTyped' /\ OrderInv' /\ SortedInv'
  BY <1>1, <1>2, SortKept DEF Label, InStage, SortTyped
<1>4. RunTyped'
  <2>1. Due \in Agent
    BY DueShape DEF SerialNext
  <2>2. gathered' = Append(gathered, <<Due, "success">>) /\ <<Due, "success">> \in Everybody \X Status
    BY <2>1 DEF SerialNext, Everybody, Status
  <2>3. gathered' \in Seq(Everybody \X Status)
    BY <1>1, <2>2 DEF RunTyped
  <2>4. /\ UNCHANGED <<plan, pc, passed, failure, joinset, pending, task, results, retry>>
        /\ UNCHANGED <<rounds, reported, cancelled, stopped, ran, late, panics>>
    BY DEF SerialNext, progress, started, reviewing
  <2>5. QED
    BY <1>1, <2>3, <2>4 DEF RunTyped
<1>5. QED
  BY <1>3, <1>4 DEF TypeInv

LEMMA SettleTypes ==
    ASSUME TypeInv, Settle
    PROVE  TypeInv'
<1>1. SortTyped /\ RunTyped /\ OrderInv /\ SortedInv
  BY DEF TypeInv
<1>2. /\ plan' = plan /\ UNCHANGED <<indegree, queue, ordered>>
      /\ pc = "stages" /\ pc' \in {"end", "review"} /\ at' = at
  BY <1>1 DEF Settle, Report, SortTyped, Label, InStage, sorting, progress
<1>3. SortTyped' /\ OrderInv' /\ SortedInv'
  BY <1>1, <1>2, SortKept DEF Label, InStage, SortTyped
<1>4. RunTyped'
  BY <1>1, <1>2 DEF RunTyped, Settle, Report, progress, execution, started, reviewing
<1>5. QED
  BY <1>3, <1>4 DEF TypeInv

(* The agents that are retried: agents of the plan, each once.              *)
LEMMA PlanOrder ==
    ASSUME SortTyped, OrderInv, SortedInv, pc # "sort", pc # "end", NEW us
    PROVE  /\ InPlanOrder(us) \in Seq(Agent) /\ IsInjective(InPlanOrder(us))
           /\ \A a \in ToSet(InPlanOrder(us)) :
                 a \in us /\ \E s \in Ids(plan) : a \in AgentsOf(s)
<1> DEFINE ss == [n \in DOMAIN ordered |-> ordered[n].agents]
<1>1. InPlan
  BY Structure
<1>2. Len(ordered) \in Nat /\ DOMAIN ordered = 1 .. Len(ordered)
  BY <1>1 DEF InPlan
<1>3. ss \in Seq(Seq(Agent)) /\ Len(ss) = Len(ordered)
      /\ \A n \in 1 .. Len(ordered) : ss[n] = ordered[n].agents
  <2>1. ss \in [1 .. Len(ordered) -> Seq(Agent)]
    BY <1>1, <1>2 DEF InPlan
  <2>2. QED
    BY <1>2, <2>1
<1> HIDE DEF ss
<1>4. ASSUME NEW n \in 1 .. Len(ordered)
      PROVE  /\ IsInjective(ss[n]) /\ ToSet(ss[n]) = AgentsOf(ordered[n].id)
             /\ ordered[n].id \in Ids(plan) /\ ToSet(ss[n]) \subseteq Agent
  BY <1>1, <1>3 DEF InPlan, Members
<1>5. Apart(ss, Len(ss))
  <2>1. ASSUME NEW m \in 1 .. Len(ordered), NEW n \in 1 .. Len(ordered), m # n
        PROVE  ToSet(ss[m]) \cap ToSet(ss[n]) = {}
    <3>1. ordered[m].id # ordered[n].id
      BY <1>1, <2>1 DEF InPlan
    <3>2. QED
      BY <1>1, <1>4, <3>1 DEF InPlan
  <2>2. QED
    BY <1>3, <1>4, <2>1 DEF Apart
<1>6. /\ FlattenSeq(ss) \in Seq(Agent) /\ IsInjective(FlattenSeq(ss))
      /\ ToSet(FlattenSeq(ss)) = UNION {ToSet(ss[n]) : n \in 1 .. Len(ss)}
  BY <1>3, <1>5, Flatten
<1>7. InPlanOrder(us) = Only(FlattenSeq(ss), us)
  BY DEF InPlanOrder, ss
<1>8. /\ InPlanOrder(us) \in Seq(Agent) /\ IsInjective(InPlanOrder(us))
      /\ ToSet(InPlanOrder(us)) = ToSet(FlattenSeq(ss)) \cap us
  BY <1>6, <1>7, OnlyMembers
<1>9. QED
  BY <1>3, <1>4, <1>6, <1>8

LEMMA ReviewTypes ==
    ASSUME TypeInv, Review
    PROVE  TypeInv'
<1>1. SortTyped /\ RunTyped /\ OrderInv /\ SortedInv
  BY DEF TypeInv
<1>2. /\ plan' = plan /\ UNCHANGED <<indegree, queue, ordered>>
      /\ pc = "review" /\ pc' \in {"end", "retry"} /\ at' = at
  BY <1>1 DEF Review, Report, SortTyped, Label, InStage, sorting, progress
<1>3. SortTyped' /\ OrderInv' /\ SortedInv'
  BY <1>1, <1>2, SortKept DEF Label, InStage, SortTyped
<1>4. RunTyped'
  <2>1. /\ UNCHANGED <<plan, passed, failure, joinset, pending, gathered, task, results>>
        /\ UNCHANGED <<cancelled, stopped, ran, late, panics>>
    BY DEF Review, progress, execution, started
  <2>2. \E verdict \in {Reviewed(a, v) : a \in Answer, v \in Verdict} :
           \/ /\ rounds < plan.retries /\ rounds' = rounds + 1
              /\ retry' = InPlanOrder(verdict.again) /\ UNCHANGED reported
           \/ reported' \in {"success", "failure"} /\ UNCHANGED <<retry, rounds>>
    BY DEF Review, Report, MayRetry, reviewing
  <2>3. retry' \in Seq(Agent)
    <3>1. \A us : InPlanOrder(us) \in Seq(Agent)
      BY <1>1, <1>2, PlanOrder
    <3>2. retry \in Seq(Agent)
      BY <1>1 DEF RunTyped
    <3>3. QED
      BY <2>2, <3>1, <3>2
  <2>4. rounds' \in 0 .. plan.retries
    <3>1. rounds \in 0 .. plan.retries /\ plan.retries \in Nat
      BY <1>1, PlanShape DEF RunTyped, SortTyped
    <3>2. QED
      BY <2>2, <3>1
  <2>5. reported' \in {"none", "success", "failure"}
    BY <1>1, <2>2 DEF RunTyped
  <2>6. QED
    BY <1>1, <1>2, <2>1, <2>3, <2>4, <2>5 DEF RunTyped
<1>5. QED
  BY <1>3, <1>4 DEF TypeInv

LEMMA AnnounceTypes ==
    ASSUME TypeInv, AnnounceRetry
    PROVE  TypeInv'
<1>1. SortTyped /\ RunTyped /\ OrderInv /\ SortedInv
  BY DEF TypeInv
<1>2. /\ plan' = plan /\ UNCHANGED <<indegree, queue, ordered>>
      /\ pc = "retry" /\ pc' = "again" /\ at' = at
  BY <1>1 DEF AnnounceRetry, SortTyped, Label, InStage, sorting, progress
<1>3. SortTyped' /\ OrderInv' /\ SortedInv'
  BY <1>1, <1>2, SortKept DEF Label, InStage, SortTyped
<1>4. RunTyped'
  BY <1>1, <1>2 DEF RunTyped, AnnounceRetry, progress, execution, started, reviewing
<1>5. QED
  BY <1>3, <1>4 DEF TypeInv

LEMMA RetryEndsTypes ==
    ASSUME TypeInv, RetryEnds
    PROVE  TypeInv'
<1>1. SortTyped /\ RunTyped /\ OrderInv /\ SortedInv
  BY DEF TypeInv
<1>2. /\ plan' = plan /\ UNCHANGED <<indegree, queue, ordered>>
      /\ pc = "retrying" /\ pc' = "retry" /\ at' = at
  BY <1>1 DEF RetryEnds, SortTyped, Label, InStage, sorting, progress
<1>3. SortTyped' /\ OrderInv' /\ SortedInv'
  BY <1>1, <1>2, SortKept DEF Label, InStage, SortTyped
<1>4. RunTyped'
  <2>1. retry \in Seq(Agent) /\ retry # <<>>
    BY <1>1, <1>2 DEF RunTyped
  <2>2. retry' \in Seq(Agent) /\ Head(retry) \in Agent
    BY <2>1, HeadTail DEF RetryEnds
  <2>3. results' \in [Everybody -> Status]
    BY <1>1, <2>2 DEF RetryEnds, RunTyped, Everybody, Status
  <2>4. /\ UNCHANGED <<plan, passed, failure, joinset, pending, gathered, task>>
        /\ UNCHANGED <<rounds, reported, cancelled, stopped, ran, late, panics>>
    BY DEF RetryEnds, progress, execution, started
  <2>5. QED
    BY <1>1, <1>2, <2>2, <2>3, <2>4 DEF RunTyped
<1>5. QED
  BY <1>3, <1>4 DEF TypeInv

LEMMA RetriesDoneTypes ==
    ASSUME TypeInv, RetriesDone
    PROVE  TypeInv'
<1>1. SortTyped /\ RunTyped /\ OrderInv /\ SortedInv
  BY DEF TypeInv
<1>2. /\ plan' = plan /\ UNCHANGED <<indegree, queue, ordered>>
      /\ pc = "retry" /\ pc' = "review" /\ at' = at
  BY <1>1 DEF RetriesDone, SortTyped, Label, InStage, sorting, progress
<1>3. SortTyped' /\ OrderInv' /\ SortedInv'
  BY <1>1, <1>2, SortKept DEF Label, InStage, SortTyped
<1>4. RunTyped'
  BY <1>1, <1>2 DEF RunTyped, RetriesDone, progress, execution, started, reviewing
<1>5. QED
  BY <1>3, <1>4 DEF TypeInv

LEMMA PanicsTypes ==
    ASSUME TypeInv, Panics
    PROVE  TypeInv'
<1>1. SortTyped /\ RunTyped /\ OrderInv /\ SortedInv
  BY DEF TypeInv
<1>2. /\ plan' = plan /\ UNCHANGED <<indegree, queue, ordered>>
      /\ pc # "sort" /\ pc # "end" /\ pc' = "end" /\ at' = at
  BY <1>1 DEF Panics, InTurn, SortTyped, Label, InStage, sorting, progress
<1>3. SortTyped' /\ OrderInv' /\ SortedInv'
  BY <1>1, <1>2, SortKept DEF Label, InStage, SortTyped
<1>4. RunTyped'
  BY <1>1, <1>2 DEF RunTyped, Panics, InTurn, progress, execution, started, reviewing
<1>5. QED
  BY <1>3, <1>4 DEF TypeInv

LEMMA DroppedTypes ==
    ASSUME TypeInv, Dropped
    PROVE  TypeInv'
<1>1. SortTyped /\ RunTyped /\ OrderInv /\ SortedInv
  BY DEF TypeInv
<1>2. /\ plan' = plan /\ UNCHANGED <<indegree, queue, ordered>>
      /\ pc # "sort" /\ pc # "end" /\ pc' = "end" /\ at' = at
  BY <1>1 DEF Dropped, Aborted, SortTyped, Label, InStage, sorting, progress
<1>3. SortTyped' /\ OrderInv' /\ SortedInv'
  BY <1>1, <1>2, SortKept DEF Label, InStage, SortTyped
<1>4. RunTyped'
  BY <1>1, <1>2 DEF RunTyped, Dropped, Aborted, progress, execution, started, reviewing
<1>5. QED
  BY <1>3, <1>4 DEF TypeInv

LEMMA RunsTyped ==
    ASSUME RunTyped, NEW us \in SUBSET Agent, Run(us)
    PROVE  /\ task' \in [Agent -> {"idle", "running", "success", "failed", "panicked", "aborted"}]
           /\ ran' \in [Agent -> Nat] /\ late' \in Nat
BY DEF RunTyped, Run

LEMMA LaunchTypes ==
    ASSUME TypeInv, Launch
    PROVE  TypeInv'
<1>1. SortTyped /\ RunTyped /\ OrderInv /\ SortedInv
  BY DEF TypeInv
<1>2. /\ plan' = plan /\ UNCHANGED <<indegree, queue, ordered>>
      /\ pc = "announce" /\ pc' \in {"parallel", "serial"} /\ at' = at
  BY <1>1 DEF Launch, SortTyped, Label, InStage, sorting, progress
<1>3. SortTyped' /\ OrderInv' /\ SortedInv'
  BY <1>1, <1>2, SortKept DEF Label, InStage, SortTyped
<1>4. RunTyped'
  <2>1. at <= Len(ordered)
    BY <1>1, <1>2 DEF SortTyped, InStage
  <2>2. Current.agents \in Seq(Agent) /\ Members(Current) \subseteq Agent
    BY <1>1, <1>2, <2>1, CurrentShape
  <2>3. /\ UNCHANGED <<plan, passed, failure, gathered, results, retry, rounds, reported>>
        /\ UNCHANGED <<cancelled, stopped, panics>>
    BY DEF Launch, progress, reviewing
  <2>4. /\ task' \in [Agent -> {"idle", "running", "success", "failed", "panicked", "aborted"}]
        /\ ran' \in [Agent -> Nat] /\ late' \in Nat
        /\ joinset' \in SUBSET Agent /\ pending' \in Seq(Agent)
    <3>1. CASE Current.parallel
      <4>1. Run(Members(Current)) /\ joinset' = Members(Current) /\ pending' = Current.agents
        BY <3>1 DEF Launch
      <4>2. QED
        BY <1>1, <2>2, <4>1, RunsTyped
    <3>2. CASE ~Current.parallel
      <4>1. UNCHANGED <<task, ran, late, joinset, pending>>
        BY <3>2 DEF Launch, started
      <4>2. QED
        BY <1>1, <4>1 DEF RunTyped
    <3>3. QED
      BY <3>1, <3>2
  <2>5. QED
    BY <1>1, <1>2, <2>3, <2>4 DEF RunTyped
<1>5. QED
  BY <1>3, <1>4 DEF TypeInv

LEMMA SerialStartTypes ==
    ASSUME TypeInv, SerialStart
    PROVE  TypeInv'
<1>1. SortTyped /\ RunTyped /\ OrderInv /\ SortedInv
  BY DEF TypeInv
<1>2. /\ plan' = plan /\ UNCHANGED <<indegree, queue, ordered>>
      /\ pc = "serial" /\ pc' = pc /\ at' = at
  BY <1>1 DEF SerialStart, InTurn, SortTyped, Label, InStage, sorting, progress
<1>3. SortTyped' /\ OrderInv' /\ SortedInv'
  BY <1>1, <1>2, SortKept DEF Label, InStage, SortTyped
<1>4. RunTyped'
  <2>1. /\ UNCHANGED <<plan, passed, failure, gathered, results, retry, rounds, reported>>
        /\ UNCHANGED <<cancelled, stopped, panics, joinset, pending>>
    BY DEF SerialStart, progress, reviewing
  <2>2. /\ task' \in [Agent -> {"idle", "running", "success", "failed", "panicked", "aborted"}]
        /\ ran' \in [Agent -> Nat] /\ late' \in Nat
    BY <1>1 DEF RunTyped, SerialStart, Run
  <2>3. QED
    BY <1>1, <1>2, <2>1, <2>2 DEF RunTyped
<1>5. QED
  BY <1>3, <1>4 DEF TypeInv

LEMMA RetryStartTypes ==
    ASSUME TypeInv, RetryStart
    PROVE  TypeInv'
<1>1. SortTyped /\ RunTyped /\ OrderInv /\ SortedInv
  BY DEF TypeInv
<1>2. /\ plan' = plan /\ UNCHANGED <<indegree, queue, ordered>>
      /\ pc = "again" /\ pc' = "retrying" /\ at' = at
  BY <1>1 DEF RetryStart, SortTyped, Label, InStage, sorting, progress
<1>3. SortTyped' /\ OrderInv' /\ SortedInv'
  BY <1>1, <1>2, SortKept DEF Label, InStage, SortTyped
<1>4. RunTyped'
  <2>1. /\ UNCHANGED <<plan, passed, failure, gathered, results, retry, rounds, reported>>
        /\ UNCHANGED <<cancelled, stopped, panics, joinset, pending>>
    BY DEF RetryStart, progress, reviewing
  <2>2. /\ task' \in [Agent -> {"idle", "running", "success", "failed", "panicked", "aborted"}]
        /\ ran' \in [Agent -> Nat] /\ late' \in Nat
    BY <1>1 DEF RunTyped, RetryStart, Run
  <2>3. QED
    BY <1>1, <1>2, <2>1, <2>2 DEF RunTyped
<1>5. QED
  BY <1>3, <1>4 DEF TypeInv

LEMMA JoinTypes ==
    ASSUME TypeInv, NEW a \in Agent, Join(a)
    PROVE  TypeInv'
<1>1. SortTyped /\ RunTyped /\ OrderInv /\ SortedInv
  BY DEF TypeInv
<1>2. /\ plan' = plan /\ UNCHANGED <<indegree, queue, ordered>>
      /\ pc = "parallel" /\ pc' = pc /\ at' = at
  BY <1>1 DEF Join, SortTyped, Label, InStage, sorting, progress
<1>3. SortTyped' /\ OrderInv' /\ SortedInv'
  BY <1>1, <1>2, SortKept DEF Label, InStage, SortTyped
<1>4. RunTyped'
  <2>1. /\ UNCHANGED <<plan, passed, failure, task, results, retry, rounds, reported>>
        /\ UNCHANGED <<cancelled, stopped, panics, ran, late>>
    BY DEF Join, progress, reviewing, started
  <2>2. joinset' \in SUBSET Agent
    BY <1>1 DEF RunTyped, Join
  <2>3. pending' \in Seq(Agent)
    <3>1. pending \in Seq(Agent)
      BY <1>1 DEF RunTyped
    <3>2. pending' = pending \/ pending' = Only(pending, Agent \ {a})
      BY DEF Join
    <3>3. QED
      BY <3>1, <3>2, OnlyMembers
  <2>4. gathered' \in Seq(Everybody \X Status)
    <3>1. \E x \in {<<Unknown, "failed">>, <<a, task[a]>>} :
             x \in Everybody \X Status /\ gathered' = Append(gathered, x)
      BY DEF Join, Everybody, Status
    <3>2. gathered \in Seq(Everybody \X Status)
      BY <1>1 DEF RunTyped
    <3>3. QED
      BY <3>1, <3>2
  <2>5. QED
    BY <1>1, <1>2, <2>1, <2>2, <2>3, <2>4 DEF RunTyped
<1>5. QED
  BY <1>3, <1>4 DEF TypeInv

LEMMA FillShape ==
    ASSUME NEW us \in Seq(Agent)
    PROVE  /\ Fill(us) \in Seq(Everybody \X Status) /\ Len(Fill(us)) = Len(us)
           /\ \A n \in 1 .. Len(us) : Fill(us)[n] = <<us[n], "cancelled">>
<1>1. Len(us) \in Nat /\ DOMAIN us = 1 .. Len(us) /\ \A n \in 1 .. Len(us) : us[n] \in Agent
  BY LenProperties, ElementOfSeq
<1>2. \A n \in 1 .. Len(us) : <<us[n], "cancelled">> \in Everybody \X Status
  BY <1>1 DEF Everybody, Status
<1>3. Fill(us) = [n \in 1 .. Len(us) |-> <<us[n], "cancelled">>]
  BY <1>1 DEF Fill
<1>4. Fill(us) \in [1 .. Len(us) -> Everybody \X Status]
  BY <1>2, <1>3
<1>5. Fill(us) \in Seq(Everybody \X Status) /\ Len(Fill(us)) = Len(us)
  BY <1>1, <1>4
<1>6. QED
  BY <1>3, <1>5

LEMMA CloseTypes ==
    ASSUME RunTyped, NEW rs \in Seq(Everybody \X Status), CloseStage(rs)
    PROVE  /\ passed' \in [StageId -> {"none", "yes", "no"}]
           /\ failure' \in {"none", "failed", "blocked"} /\ gathered' = <<>>
           /\ gathered' \in Seq(Everybody \X Status)
           /\ results' \in [Everybody -> Status] /\ at' = at + 1 /\ pc' = "stages"
<1>1. passed' \in [StageId -> {"none", "yes", "no"}]
  BY DEF RunTyped, CloseStage
<1>2. failure' \in {"none", "failed", "blocked"} /\ gathered' = <<>> /\ at' = at + 1 /\ pc' = "stages"
  BY DEF RunTyped, CloseStage
<1>3. \A a \in Everybody : (\E n \in DOMAIN rs : rs[n][1] = a) =>
         rs[CHOOSE n \in DOMAIN rs : rs[n][1] = a][2] \in Status
  <2>1. \A n \in DOMAIN rs : rs[n][2] \in Status
    OBVIOUS
  <2>2. QED
    BY <2>1
<1>4. results \in [Everybody -> Status]
  BY DEF RunTyped
<1>5. results' \in [Everybody -> Status]
  BY <1>3, <1>4 DEF CloseStage
<1>6. QED
  BY <1>1, <1>2, <1>5

(* The results a stage is closed with.                                     *)
Closing ==
    IF pc = "parallel" THEN IF cancelled THEN gathered \o Fill(pending) ELSE gathered
    ELSE IF Left = <<>> THEN gathered
    ELSE IF task[Due] = "failed" THEN Append(gathered, <<Due, "failed">>) \o Fill(Tail(Left))
    ELSE gathered \o Fill(Left)

LEMMA StageCloses ==
    ASSUME TypeInv, ParallelEnds \/ SerialEnds
    PROVE  /\ pc \in {"parallel", "serial"} /\ CloseStage(Closing)
           /\ Closing \in Seq(Everybody \X Status)
           /\ UNCHANGED <<plan, indegree, queue, ordered, ran, late, panics, retry, rounds>>
           /\ UNCHANGED <<reported, cancelled, stopped>>
           /\ pc = "parallel" => /\ joinset = {} \/ cancelled
                                 /\ task' = Aborted(joinset) /\ joinset' = {} /\ pending' = <<>>
           /\ pc = "serial" => /\ UNCHANGED <<task, joinset, pending>>
                               /\ \/ Left = <<>>
                                  \/ InTurn /\ cancelled /\ task[Due] = "idle"
                                  \/ InTurn /\ task[Due] = "failed"
<1>1. pc \in {"parallel", "serial"} /\ CloseStage(Closing)
  BY DEF ParallelEnds, SerialEnds, Closing, InTurn
<1>2. gathered \in Seq(Everybody \X Status) /\ pending \in Seq(Agent)
  BY DEF TypeInv, RunTyped
<1>3. Closing \in Seq(Everybody \X Status)
  <2>1. Fill(pending) \in Seq(Everybody \X Status)
    BY <1>2, FillShape
  <2>2. gathered \o Fill(pending) \in Seq(Everybody \X Status)
    BY <1>2, <2>1, ConcatProperties
  <2>3. CASE pc = "serial" /\ Left # <<>>
    <3>1. Left \in Seq(Agent) /\ Tail(Left) \in Seq(Agent) /\ Due \in Agent
      BY <2>3, DueShape DEF InTurn
    <3>2. Fill(Left) \in Seq(Everybody \X Status) /\ Fill(Tail(Left)) \in Seq(Everybody \X Status)
      BY <3>1, FillShape
    <3>3. <<Due, "failed">> \in Everybody \X Status
      BY <3>1 DEF Everybody, Status
    <3>4. Append(gathered, <<Due, "failed">>) \in Seq(Everybody \X Status)
      BY <1>2, <3>3
    <3>5. Append(gathered, <<Due, "failed">>) \o Fill(Tail(Left)) \in Seq(Everybody \X Status)
      BY <3>2, <3>4, ConcatProperties
    <3>6. gathered \o Fill(Left) \in Seq(Everybody \X Status)
      BY <1>2, <3>2, ConcatProperties
    <3>7. QED
      BY <2>3, <3>5, <3>6 DEF Closing
  <2>4. QED
    BY <1>1, <1>2, <2>2, <2>3 DEF Closing
<1>4. /\ UNCHANGED <<plan, indegree, queue, ordered, ran, late, panics, retry, rounds>>
      /\ UNCHANGED <<reported, cancelled, stopped>>
  BY DEF ParallelEnds, SerialEnds, sorting, started, reviewing
<1>5. pc = "parallel" => /\ joinset = {} \/ cancelled
                         /\ task' = Aborted(joinset) /\ joinset' = {} /\ pending' = <<>>
  BY DEF ParallelEnds, SerialEnds, InTurn
<1>6. pc = "serial" => /\ UNCHANGED <<task, joinset, pending>>
                       /\ \/ Left = <<>>
                          \/ InTurn /\ cancelled /\ task[Due] = "idle"
                          \/ InTurn /\ task[Due] = "failed"
  BY DEF ParallelEnds, SerialEnds
<1>7. QED
  BY <1>1, <1>3, <1>4, <1>5, <1>6

LEMMA ClosedTypes ==
    ASSUME TypeInv, ParallelEnds \/ SerialEnds
    PROVE  TypeInv'
<1>1. SortTyped /\ RunTyped /\ OrderInv /\ SortedInv
  BY DEF TypeInv
<1>2. /\ plan' = plan /\ UNCHANGED <<indegree, queue, ordered>>
      /\ pc \in {"parallel", "serial"} /\ pc' = "stages" /\ at' = at + 1 /\ at <= Len(ordered)
  <2>1. pc \in {"parallel", "serial"} /\ plan' = plan /\ UNCHANGED <<indegree, queue, ordered>>
        /\ CloseStage(Closing)
    BY StageCloses
  <2>2. QED
    BY <1>1, <2>1 DEF CloseStage, SortTyped, InStage
<1>3. SortTyped' /\ OrderInv' /\ SortedInv'
  BY <1>1, <1>2, SortKept DEF Label, InStage, SortTyped
<1>4. RunTyped'
  <2>1. PICK rs : rs = Closing
    OBVIOUS
  <2>2. rs \in Seq(Everybody \X Status) /\ CloseStage(rs)
    BY <2>1, StageCloses
  <2>3. /\ passed' \in [StageId -> {"none", "yes", "no"}]
        /\ failure' \in {"none", "failed", "blocked"} /\ gathered' \in Seq(Everybody \X Status)
        /\ results' \in [Everybody -> Status]
    BY <1>1, <2>2, CloseTypes
  <2>4. /\ UNCHANGED <<plan, ran, late, panics, retry, rounds, reported, cancelled, stopped>>
        /\ joinset' \in SUBSET Agent /\ pending' \in Seq(Agent)
        /\ task' \in [Agent -> {"idle", "running", "success", "failed", "panicked", "aborted"}]
    <3>1. joinset' \in SUBSET Agent /\ pending' \in Seq(Agent)
      <4>1. \/ joinset' = {} /\ pending' = <<>>
            \/ joinset' = joinset /\ pending' = pending
        BY StageCloses
      <4>2. joinset \in SUBSET Agent /\ pending \in Seq(Agent) /\ <<>> \in Seq(Agent)
        BY <1>1 DEF RunTyped
      <4>3. QED
        BY <4>1, <4>2
    <3>2. task' \in [Agent -> {"idle", "running", "success", "failed", "panicked", "aborted"}]
      BY <1>1, StageCloses DEF RunTyped, Aborted
    <3>3. QED
      BY <3>1, <3>2, StageCloses
  <2>5. QED
    BY <1>1, <1>2, <2>3, <2>4 DEF RunTyped
<1>5. QED
  BY <1>3, <1>4 DEF TypeInv

LEMMA StopTypes ==
    ASSUME TypeInv, Cancel \/ StopTurn
    PROVE  TypeInv'
<1>1. /\ UNCHANGED <<plan, pc, indegree, queue, ordered, at, passed, failure, task, joinset, pending>>
      /\ UNCHANGED <<gathered, results, retry, rounds, reported, ran, late, panics>>
      /\ cancelled' \in BOOLEAN /\ stopped' \in BOOLEAN
  BY DEF Cancel, StopTurn, sorting, progress, execution, started, reviewing, TypeInv, RunTyped
<1>2. SortTyped'
  BY <1>1 DEF TypeInv, SortTyped
<1>3. RunTyped'
  BY <1>1 DEF TypeInv, RunTyped
<1>4. OrderInv' /\ SortedInv'
  BY <1>1 DEF TypeInv, OrderInv, SortedInv, Fresh, Sensible
<1>5. QED
  BY <1>2, <1>3, <1>4 DEF TypeInv

LEMMA FreshTypes ==
    ASSUME TypeInv, Fresh', pc' \in {"stages", "end"}, plan' = plan, UNCHANGED <<indegree, queue, ordered>>,
           UNCHANGED <<cancelled, stopped, panics>>, SortedInv', Len(ordered) \in Nat
    PROVE  TypeInv'
<1>1. OrderInv'
  BY OrderKept DEF TypeInv
<1>2. SortTyped'
  BY DEF TypeInv, SortTyped, Fresh, Label, InStage
<1>3. plan.retries \in Nat
  BY PlanShape DEF TypeInv, SortTyped
<1>4. pending' \in Seq(Agent) /\ gathered' \in Seq(Everybody \X Status) /\ retry' \in Seq(Agent)
  BY DEF Fresh
<1>5. results' \in [Everybody -> Status] /\ ran' \in [Agent -> Nat]
  BY DEF Fresh, Everybody, Status
<1>6. RunTyped'
  BY <1>3, <1>4, <1>5 DEF TypeInv, RunTyped, Fresh
<1>7. QED
  BY <1>1, <1>2, <1>6 DEF TypeInv

LEMMA SortingTypes ==
    ASSUME TypeInv, Refuse \/ Sorted
    PROVE  TypeInv' /\ Fresh' /\ pc' \in {"stages", "end"}
<1>1. /\ plan' = plan /\ UNCHANGED <<indegree, queue, ordered>> /\ Fresh /\ Fresh'
      /\ IF Sensible THEN pc' = "stages" /\ Len(ordered) = Len(plan.stages)
                     ELSE pc' = "end"
  BY SortEnds DEF TypeInv
<1>2. UNCHANGED <<cancelled, stopped, panics>> /\ pc' \in {"stages", "end"}
  BY <1>1 DEF Refuse, Sorted, execution
<1>3. SortedInv'
  BY <1>1, <1>2 DEF SortedInv, Sensible
<1>4. Len(ordered) \in Nat
  BY LenProperties DEF TypeInv, SortTyped
<1>5. TypeInv'
  BY <1>1, <1>2, <1>3, <1>4, FreshTypes
<1>6. QED
  BY <1>1, <1>2, <1>5

LEMMA PlacingTypes ==
    ASSUME TypeInv, Place
    PROVE  TypeInv'
<1>1. SortTyped' /\ SortedInv' /\ OrderInv'
  BY PlaceTypes, PlaceOrders DEF TypeInv
<1>2. /\ UNCHANGED <<plan, pc, passed, failure, task, joinset, pending>>
      /\ UNCHANGED <<gathered, results, retry, rounds, reported, ran, late, panics, cancelled, stopped>>
  BY DEF Place, progress, execution, started, reviewing
<1>3. RunTyped'
  BY <1>2 DEF TypeInv, RunTyped
<1>4. QED
  BY <1>1, <1>3 DEF TypeInv
-----------------------------------------------------------------------------
(***************************************************************************)
(* The stages.                                                             *)
(***************************************************************************)
(* A step that leaves the agents of the stages that are not being run.      *)
LEMMA Elsewhere ==
    ASSUME AgentInv, plan' = plan, UNCHANGED <<ordered, at, passed, results>>,
           cancelled => cancelled', pc \in InStage <=> pc' \in InStage,
           \A s \in Ids(plan), a \in Agent : a \in AgentsOf(s) /\ (~AtStage(s) \/ passed[s] # "none") =>
              task'[a] = task[a] /\ ran'[a] = ran[a],
           \A s \in Ids(plan) : AgentsOf(s) \subseteq Agent
    PROVE  AgentInv'
<1>1. SUFFICES ASSUME NEW s \in Ids(plan), NEW a \in Agent, a \in AgentsOf(s)
               PROVE  /\ passed[s] = "none" /\ ~AtStage(s)' => Untouched(a)'
                      /\ passed[s] = "yes" => Succeeded(a)'
                      /\ passed[s] = "no" => Accounted(s, a)'
  BY DEF AgentInv, AgentsOf
<1>2. AtStage(s)' <=> AtStage(s)
  BY DEF AtStage, Current
<1>3. /\ passed[s] = "none" /\ ~AtStage(s) => Untouched(a)
      /\ passed[s] = "yes" => Succeeded(a)
      /\ passed[s] = "no" => Accounted(s, a)
  BY <1>1 DEF AgentInv
<1>4. ~AtStage(s) \/ passed[s] # "none" =>
         \A b \in AgentsOf(s) : task'[b] = task[b] /\ ran'[b] = ran[b]
  BY <1>1
<1>5. passed[s] = "none" /\ ~AtStage(s)' => Untouched(a)'
  BY <1>1, <1>2, <1>3, <1>4 DEF Untouched
<1>6. passed[s] = "yes" => Succeeded(a)'
  BY <1>1, <1>3, <1>4 DEF Succeeded
<1>7. ASSUME passed[s] = "no" PROVE Accounted(s, a)'
  <2>1. AgentsOf(s)' = AgentsOf(s)
    BY DEF AgentsOf
  <2>2. Accounted(s, a) /\ \A b \in AgentsOf(s) : task'[b] = task[b]
    BY <1>3, <1>4, <1>7
  <2>3. QED
    BY <1>1, <2>1, <2>2 DEF Accounted
<1>8. QED
  BY <1>5, <1>6, <1>7

LEMMA InLoopFacts ==
    ASSUME TypeInv, StageInv, pc \in InLoops
    PROVE  /\ SortTyped /\ RunTyped /\ OrderInv /\ SortedInv /\ InPlan
           /\ PassedInv /\ FailureInv /\ AgentInv /\ QuietInv
           /\ \A s \in Ids(plan) : AgentsOf(s) \subseteq Agent
           /\ pc \in InStage => at \in 1 .. Len(ordered) /\ passed[Current.id] = "none"
<1>1. SortTyped /\ RunTyped /\ OrderInv /\ SortedInv
  BY DEF TypeInv
<1>2. PassedInv /\ FailureInv /\ AgentInv /\ QuietInv
  BY DEF StageInv, LoopInv
<1>3. InPlan
  BY <1>1, Structure DEF InLoops, InStage
<1>4. pc \in InStage => at \in 1 .. Len(ordered) /\ passed[Current.id] = "none"
  <2>1. HAVE pc \in InStage
  <2>2. at \in 1 .. Len(ordered) /\ at >= at
    BY <1>1, <1>3, <2>1 DEF SortTyped, InPlan
  <2>3. QED
    BY <1>2, <2>2 DEF PassedInv, Current
<1>5. QED
  BY <1>1, <1>2, <1>3, <1>4 DEF InPlan

LEMMA SortingStage ==
    ASSUME TypeInv, Refuse \/ Sorted
    PROVE  StageInv'
<1>1. TypeInv' /\ Fresh' /\ pc' \in {"stages", "end"}
  BY SortingTypes
<1>2. SUFFICES ASSUME pc' = "stages" PROVE LoopInv'
  BY <1>1 DEF StageInv, InLoops, InStage
<1>3. PassedInv'
  <2>1. (SortTyped /\ OrderInv /\ SortedInv)' /\ pc' # "sort" /\ pc' # "end"
    BY <1>1, <1>2 DEF TypeInv
  <2>2. \A n \in 1 .. Len(ordered') : ordered'[n].id \in StageId /\ ~(n < 1) /\ n >= 1
    <3>1. ordered' \in Seq(Stage)
      BY <2>1 DEF SortTyped
    <3>2. \A n \in 1 .. Len(ordered') : ordered'[n] \in Stage
      BY <3>1, ElementOfSeq
    <3>3. Len(ordered') \in Nat
      BY <3>1, LenProperties
    <3>4. QED
      BY <3>2, <3>3 DEF Stage
  <2>3. at' = 1 /\ passed' = [s \in StageId |-> "none"]
    BY <1>1 DEF Fresh
  <2>4. QED
    BY <2>2, <2>3 DEF PassedInv
<1>4. FailureInv'
  BY <1>1, <1>2 DEF FailureInv, Fresh, InStage, Everybody
<1>5. AgentInv'
  <2>1. \A a \in Agent : Untouched(a)'
    BY <1>1 DEF Fresh, Untouched, Everybody
  <2>2. \A s \in Ids(plan') : passed'[s] = "none"
    <3>1. Ids(plan') \subseteq StageId
      BY <1>1, PlanShape DEF TypeInv, SortTyped
    <3>2. QED
      BY <1>1, <3>1 DEF Fresh
  <2>3. QED
    BY <2>1, <2>2 DEF AgentInv
<1>6. QuietInv'
  BY <1>1 DEF QuietInv, Fresh
<1>7. QED
  BY <1>3, <1>4, <1>5, <1>6 DEF LoopInv

LEMMA SkipStep ==
    ASSUME TypeInv, StageInv, SkipStage
    PROVE  StageInv'
<1>1. /\ pc = "stages" /\ pc' = pc /\ at <= Len(ordered) /\ at' = at + 1 /\ failure' # "none"
      /\ Blocked(Current) \/ failure # "none"
      /\ UNCHANGED <<plan, ordered, passed, results, task, ran, cancelled, joinset, pending, gathered>>
      /\ UNCHANGED <<retry, rounds, reported>>
  BY DEF SkipStage, InLoop, sorting, execution, started, reviewing
<1>2. /\ InPlan /\ SortTyped /\ OrderInv /\ SortedInv
      /\ PassedInv /\ FailureInv /\ AgentInv /\ QuietInv
  BY <1>1, InLoopFacts DEF InLoops
<1>3. at \in 1 .. Len(ordered) /\ Len(ordered) \in Nat
  BY <1>1, <1>2 DEF SortTyped, InPlan
<1>4. failure # "none"
  <2>1. SUFFICES ASSUME failure = "none" PROVE ~Blocked(Current)
    BY <1>1
  <2>2. ASSUME NEW d \in Current.deps PROVE passed[d] = "yes"
    <3>1. d \in Deps(plan, ordered[at].id)
      BY <1>1, <1>2, CurrentShape DEF Current
    <3>2. d \in {ordered[m].id : m \in 1 .. at - 1}
      BY <1>2, <1>3, <3>1 DEF OrderInv, After
    <3>3. PICK m \in 1 .. at - 1 : d = ordered[m].id
      BY <3>2
    <3>4. m \in 1 .. Len(ordered) /\ m < at
      BY <1>3, <3>3
    <3>5. QED
      BY <1>2, <2>1, <3>3, <3>4 DEF PassedInv
  <2>3. QED
    BY <2>2 DEF Blocked
<1>5. PassedInv'
  BY <1>1, <1>2, <1>3 DEF PassedInv
<1>6. FailureInv'
  BY <1>1, <1>2, <1>4 DEF FailureInv, InStage
<1>7. AgentInv'
  BY <1>1, <1>2 DEF AgentInv, AgentsOf, AtStage, InStage, Untouched, Succeeded, Accounted
<1>8. QuietInv'
  BY <1>1, <1>2 DEF QuietInv
<1>9. QED
  BY <1>1, <1>5, <1>6, <1>7, <1>8 DEF StageInv, LoopInv

LEMMA StartStep ==
    ASSUME TypeInv, StageInv, StartStage
    PROVE  StageInv'
<1>1. /\ pc = "stages" /\ pc' = "announce" /\ at <= Len(ordered) /\ failure = "none"
      /\ UNCHANGED <<plan, ordered, at, passed, failure, results, task, ran, cancelled>>
      /\ UNCHANGED <<joinset, pending, gathered, retry, rounds, reported>>
  BY DEF StartStage, InLoop, sorting, execution, started, reviewing, progress
<1>2. /\ InPlan /\ SortTyped /\ OrderInv /\ SortedInv
      /\ PassedInv /\ FailureInv /\ AgentInv /\ QuietInv
  BY <1>1, InLoopFacts DEF InLoops
<1>3. at \in 1 .. Len(ordered) /\ at >= at
  BY <1>1, <1>2 DEF SortTyped, InPlan
<1>4. passed[Current.id] = "none"
  BY <1>2, <1>3 DEF PassedInv, Current
<1>5. PassedInv'
  BY <1>1, <1>2 DEF PassedInv
<1>6. FailureInv'
  BY <1>1, <1>2 DEF FailureInv
<1>7. AgentInv'
  BY <1>1, <1>2 DEF AgentInv, AgentsOf, AtStage, InStage, Untouched, Succeeded, Accounted
<1>8. QuietInv'
  BY <1>1, <1>2 DEF QuietInv
<1>9. AnnounceInv'
  <2>1. ASSUME NEW a \in Members(Current) PROVE Untouched(a)
    <3>1. a \in AgentsOf(Current.id) /\ a \in Agent /\ Current.id \in Ids(plan)
      BY <1>1, <1>2, CurrentShape
    <3>2. ~AtStage(Current.id)
      BY <1>1 DEF AtStage, InStage
    <3>3. QED
      BY <1>2, <1>4, <3>1, <3>2 DEF AgentInv
  <2>2. Current' = Current
    BY <1>1 DEF Current
  <2>3. QED
    BY <1>1, <2>1, <2>2 DEF AnnounceInv, Untouched
<1>10. QED
  BY <1>1, <1>5, <1>6, <1>7, <1>8, <1>9 DEF StageInv, LoopInv

LEMMA OneStage ==
    ASSUME InPlan, NEW s \in Ids(plan), NEW r \in Ids(plan), NEW a \in AgentsOf(s), a \in AgentsOf(r)
    PROVE  s = r
<1>1. AgentsOf(s) \subseteq Agent
  BY DEF InPlan
<1>2. QED
  BY <1>1 DEF InPlan

(* An agent of a stage that runs is one of the stage that is being run.     *)
LEMMA RunningIsCurrent ==
    ASSUME TypeInv, StageInv, pc \in InLoops, NEW a \in Agent, task[a] = "running",
           NEW s \in Ids(plan), a \in AgentsOf(s)
    PROVE  AtStage(s) /\ passed[s] = "none"
<1>1. AgentInv /\ passed[s] \in {"none", "yes", "no"}
  BY InLoopFacts DEF RunTyped, InPlan
<1>2. ~Untouched(a) /\ ~Succeeded(a) /\ ~Accounted(s, a)
  BY DEF Untouched, Succeeded, Accounted, Ended
<1>3. QED
  BY <1>1, <1>2 DEF AgentInv

LEMMA EndsStep ==
    ASSUME TypeInv, StageInv, NEW a \in Agent, AgentEnds(a)
    PROVE  StageInv'
<1>1. PICK how \in {"success", "failed", "panicked"} :
         task[a] = "running" /\ task' = [task EXCEPT ![a] = how]
  BY DEF AgentEnds
<1>2. /\ UNCHANGED <<plan, pc, ordered, at, passed, failure, results, ran, cancelled>>
      /\ UNCHANGED <<joinset, pending, gathered, retry, rounds, reported>>
  BY DEF AgentEnds, sorting, progress, started, reviewing
<1>3. SUFFICES ASSUME pc \in InLoops PROVE StageInv'
  BY <1>2 DEF StageInv, InLoops, InStage
<1>4. /\ InPlan /\ SortTyped /\ OrderInv /\ SortedInv /\ RunTyped
      /\ PassedInv /\ FailureInv /\ AgentInv /\ QuietInv
      /\ \A s \in Ids(plan) : AgentsOf(s) \subseteq Agent
  BY <1>3, InLoopFacts
<1>5. task'[a] = how /\ \A b \in Agent : b # a => task'[b] = task[b]
  BY <1>1, <1>4 DEF RunTyped
<1>6. PassedInv' /\ FailureInv' /\ QuietInv'
  BY <1>2, <1>4 DEF PassedInv, FailureInv, QuietInv
<1>7. AgentInv'
  <2>1. \A s \in Ids(plan), b \in Agent : b \in AgentsOf(s) /\ (~AtStage(s) \/ passed[s] # "none") =>
           task'[b] = task[b] /\ ran'[b] = ran[b]
    BY <1>1, <1>2, <1>3, <1>5, RunningIsCurrent
  <2>2. QED
    BY <1>2, <1>4, <2>1, Elsewhere
<1>8. pc' = "announce" => AnnounceInv'
  <2>1. HAVE pc' = "announce"
  <2>2. Current' = Current /\ AnnounceInv
    BY <1>2, <2>1 DEF Current, StageInv
  <2>3. Members(Current) \subseteq Agent
    BY <1>2, <1>4, <2>1, CurrentShape DEF SortTyped, InStage
  <2>4. QED
    BY <1>1, <1>2, <1>5, <2>2, <2>3 DEF AnnounceInv, Untouched
<1>9. pc' = "parallel" => ParallelInv'
  <2>1. HAVE pc' = "parallel"
  <2>2. Current' = Current /\ ParallelInv
    BY <1>2, <2>1 DEF Current, StageInv
  <2>3. Members(Current) \subseteq Agent
    BY <1>2, <1>4, <2>1, CurrentShape DEF SortTyped, InStage
  <2>4. ToSet(pending) \subseteq Members(Current)
    BY <2>2 DEF ParallelInv
  <2>5. ASSUME NEW n \in 1 .. Len(gathered)
        PROVE  \/ gathered[n] = <<Unknown, "failed">>
               \/ /\ gathered[n][1] \in Members(Current) \ ToSet(pending)
                  /\ gathered[n][2] = task'[gathered[n][1]] /\ gathered[n][2] \in Ended
    BY <1>1, <1>5, <2>2, <2>3 DEF ParallelInv, Ended
  <2>6. ASSUME NEW b \in Members(Current)
        PROVE  /\ ran[b] = 1 /\ results[b] = "none"
               /\ b \in joinset => task'[b] \in {"running", "success", "failed", "panicked"}
               /\ b \in ToSet(pending) \ joinset =>
                     /\ task'[b] = "panicked"
                     /\ \E n \in 1 .. Len(gathered) : gathered[n] = <<Unknown, "failed">>
               /\ b \notin ToSet(pending) => \E n \in 1 .. Len(gathered) : gathered[n][1] = b
    BY <1>1, <1>5, <2>2, <2>3 DEF ParallelInv
  <2>7. QED
    BY <1>2, <2>2, <2>5, <2>6 DEF ParallelInv
<1>10. pc' = "serial" => SerialInv'
  <2>1. HAVE pc' = "serial"
  <2>2. Current' = Current /\ SerialInv
    BY <1>2, <2>1 DEF Current, StageInv
  <2>3. Current.agents \in Seq(Agent)
    BY <1>2, <1>4, <2>1, CurrentShape DEF SortTyped, InStage
  <2>4. PICK us : us = Current.agents
    OBVIOUS
  <2>5. ASSUME NEW n \in 1 .. Len(us)
        PROVE  /\ results[us[n]] = "none"
               /\ n <= Len(gathered) => task'[us[n]] = "success" /\ ran[us[n]] = 1
               /\ n = Len(gathered) + 1 =>
                     \/ task'[us[n]] = "idle" /\ ran[us[n]] = 0
                     \/ ran[us[n]] = 1 /\ task'[us[n]] \in {"running", "success", "failed", "panicked"}
               /\ n > Len(gathered) + 1 => task'[us[n]] = "idle" /\ ran[us[n]] = 0
    <3>1. us[n] \in Agent
      BY <2>3, <2>4
    <3>2. QED
      BY <1>1, <1>5, <2>2, <2>4, <3>1 DEF SerialInv, Untouched
  <2>6. QED
    BY <1>2, <2>2, <2>4, <2>5 DEF SerialInv, Untouched
<1>11. QED
  BY <1>2, <1>6, <1>7, <1>8, <1>9, <1>10 DEF StageInv, LoopInv

LEMMA StopStep ==
    ASSUME TypeInv, StageInv, Cancel \/ StopTurn
    PROVE  StageInv'
<1>1. /\ UNCHANGED <<plan, pc, ordered, at, passed, failure, results, ran, task>>
      /\ UNCHANGED <<joinset, pending, gathered, retry, rounds, reported>>
      /\ cancelled => cancelled'
  BY DEF Cancel, StopTurn, sorting, progress, execution, started, reviewing
<1>2. SUFFICES ASSUME pc \in InLoops PROVE StageInv'
  BY <1>1 DEF StageInv, InLoops, InStage
<1>3. /\ PassedInv /\ FailureInv /\ AgentInv /\ QuietInv
      /\ \A s \in Ids(plan) : AgentsOf(s) \subseteq Agent
  BY <1>2, InLoopFacts
<1>4. PassedInv' /\ FailureInv' /\ QuietInv'
  BY <1>1, <1>3 DEF PassedInv, FailureInv, QuietInv
<1>5. AgentInv'
  BY <1>1, <1>3, Elsewhere
<1>6. Current' = Current
  BY <1>1 DEF Current
<1>7. pc' = "announce" => AnnounceInv'
  BY <1>1, <1>6 DEF StageInv, AnnounceInv, Untouched
<1>8. pc' = "parallel" => ParallelInv'
  BY <1>1, <1>6 DEF StageInv, ParallelInv
<1>9. pc' = "serial" => SerialInv'
  BY <1>1, <1>6 DEF StageInv, SerialInv, Untouched
<1>10. QED
  BY <1>1, <1>4, <1>5, <1>7, <1>8, <1>9 DEF StageInv, LoopInv

LEMMA LaunchStep ==
    ASSUME TypeInv, StageInv, Launch
    PROVE  StageInv'
<1>1. /\ pc = "announce" /\ pc' \in {"parallel", "serial"} /\ pc \in InStage
      /\ UNCHANGED <<plan, ordered, at, passed, failure, results, cancelled>>
      /\ UNCHANGED <<gathered, retry, rounds, reported>>
  BY DEF Launch, sorting, progress, reviewing, InStage
<1>2. /\ InPlan /\ SortTyped /\ OrderInv /\ SortedInv /\ RunTyped
      /\ PassedInv /\ FailureInv /\ AgentInv /\ QuietInv
      /\ at \in 1 .. Len(ordered) /\ passed[Current.id] = "none"
      /\ \A s \in Ids(plan) : AgentsOf(s) \subseteq Agent
  BY <1>1, InLoopFacts DEF InLoops
<1>3. /\ Current.id \in Ids(plan) /\ Current.agents \in Seq(Agent)
      /\ Members(Current) = AgentsOf(Current.id) /\ Members(Current) \subseteq Agent
      /\ Members(Current) = ToSet(Current.agents)
  BY <1>1, <1>2, CurrentShape
<1>4. Current' = Current
  BY <1>1 DEF Current
<1>5. gathered = <<>> /\ joinset = {} /\ pending = <<>> /\ AnnounceInv
  BY <1>1, <1>2 DEF QuietInv, StageInv
<1>6. PassedInv' /\ FailureInv'
  BY <1>1, <1>2 DEF PassedInv, FailureInv, InStage
<1>7. CASE Current.parallel
  <2>1. /\ task' = [a \in Agent |-> IF a \in Members(Current) THEN "running" ELSE task[a]]
        /\ ran' = [a \in Agent |-> IF a \in Members(Current) THEN ran[a] + 1 ELSE ran[a]]
        /\ joinset' = Members(Current) /\ pending' = Current.agents /\ pc' = "parallel"
    BY <1>7 DEF Launch, Run
  <2>2. \A a \in Members(Current) :
           task'[a] = "running" /\ ran'[a] = 1 /\ results[a] = "none" /\ a \in Agent
    BY <1>3, <1>5, <2>1 DEF AnnounceInv, Untouched
  <2>3. \A a \in Agent : a \notin Members(Current) => task'[a] = task[a] /\ ran'[a] = ran[a]
    BY <2>1
  <2>4. AgentInv'
    <3>1. ASSUME NEW s \in Ids(plan), NEW a \in Agent, a \in AgentsOf(s),
                 ~AtStage(s) \/ passed[s] # "none"
          PROVE  task'[a] = task[a] /\ ran'[a] = ran[a]
      <4>1. s # Current.id
        BY <1>1, <1>2, <3>1 DEF AtStage
      <4>2. a \notin Members(Current)
        BY <1>2, <1>3, <3>1, <4>1, OneStage
      <4>3. QED
        BY <2>3, <4>2
    <3>2. pc \in InStage <=> pc' \in InStage
      BY <1>1 DEF InStage
    <3>3. QED
      BY <1>1, <1>2, <3>1, <3>2, Elsewhere
  <2>5. QuietInv'
    <3>1. \A a \in Agent : ran'[a] <= 1
      BY <1>2, <2>2, <2>3 DEF QuietInv
    <3>2. QED
      BY <1>1, <1>2, <2>1, <3>1 DEF QuietInv
  <2>6. ParallelInv'
    <3>1. ToSet(pending') = Members(Current) /\ Len(gathered') = 0
      BY <1>1, <1>3, <1>5, <2>1
    <3>2. QED
      BY <1>1, <1>4, <2>1, <2>2, <3>1 DEF ParallelInv
  <2>7. QED
    BY <1>6, <2>1, <2>4, <2>5, <2>6 DEF StageInv, LoopInv
<1>8. CASE ~Current.parallel
  <2>1. pc' = "serial" /\ UNCHANGED <<task, ran, joinset, pending>>
    BY <1>8 DEF Launch, started
  <2>2. AgentInv'
    <3>1. pc \in InStage <=> pc' \in InStage
      BY <1>1 DEF InStage
    <3>2. QED
      BY <1>1, <1>2, <2>1, <3>1, Elsewhere
  <2>3. QuietInv'
    BY <1>1, <1>2, <1>5, <2>1 DEF QuietInv
  <2>4. SerialInv'
    <3>1. PICK us : us = Current.agents
      OBVIOUS
    <3>2. us \in Seq(Agent) /\ Len(us) \in Nat /\ Len(gathered) = 0
      BY <1>3, <1>5, <3>1
    <3>3. \A n \in 1 .. Len(us) : task[us[n]] = "idle" /\ ran[us[n]] = 0 /\ results[us[n]] = "none"
      BY <1>3, <1>5, <3>1, SetOf DEF AnnounceInv, Untouched
    <3>4. QED
      BY <1>1, <1>4, <2>1, <3>1, <3>2, <3>3 DEF SerialInv, Untouched
  <2>5. QED
    BY <1>6, <2>1, <2>2, <2>3, <2>4 DEF StageInv, LoopInv
<1>9. QED
  BY <1>7, <1>8

LEMMA SerialStartStep ==
    ASSUME TypeInv, StageInv, SerialStart
    PROVE  StageInv'
<1>1. /\ pc = "serial" /\ pc' = pc /\ pc \in InStage /\ task[Due] = "idle" /\ InTurn
      /\ UNCHANGED <<plan, ordered, at, passed, failure, results, cancelled>>
      /\ UNCHANGED <<gathered, joinset, pending, retry, rounds, reported>>
      /\ task' = [a \in Agent |-> IF a = Due THEN "running" ELSE task[a]]
      /\ ran' = [a \in Agent |-> IF a = Due THEN ran[a] + 1 ELSE ran[a]]
  BY DEF SerialStart, InTurn, Run, sorting, progress, reviewing, InStage
<1>2. /\ InPlan /\ SortTyped /\ OrderInv /\ SortedInv /\ RunTyped
      /\ PassedInv /\ FailureInv /\ AgentInv /\ QuietInv
      /\ at \in 1 .. Len(ordered) /\ passed[Current.id] = "none"
      /\ \A s \in Ids(plan) : AgentsOf(s) \subseteq Agent
  BY <1>1, InLoopFacts DEF InLoops
<1>3. PICK us, k, due : us = Current.agents /\ k = Len(gathered) /\ due = Due
  OBVIOUS
<1>4. /\ us \in Seq(Agent) /\ IsInjective(us) /\ k \in Nat /\ k + 1 \in 1 .. Len(us)
      /\ due = us[k + 1] /\ due \in Agent /\ due \in Members(Current)
  BY <1>1, <1>3, DueShape
<1>5. Current.id \in Ids(plan) /\ Members(Current) = AgentsOf(Current.id)
  BY <1>1, <1>2, CurrentShape
<1>6. SerialInv /\ Current' = Current
  BY <1>1 DEF StageInv, Current
<1>7. task[due] = "idle" /\ ran[due] = 0
  BY <1>1, <1>3, <1>4, <1>6 DEF SerialInv, Untouched
<1>8. PassedInv' /\ FailureInv'
  BY <1>1, <1>2 DEF PassedInv, FailureInv, InStage
<1>9. AgentInv'
  <2>1. ASSUME NEW s \in Ids(plan), NEW a \in Agent, a \in AgentsOf(s),
               ~AtStage(s) \/ passed[s] # "none"
        PROVE  task'[a] = task[a] /\ ran'[a] = ran[a]
    <3>1. s # Current.id
      BY <1>1, <1>2, <2>1 DEF AtStage
    <3>2. a # due
      BY <1>2, <1>4, <1>5, <2>1, <3>1, OneStage
    <3>3. QED
      BY <1>1, <1>3, <3>2
  <2>2. QED
    BY <1>1, <1>2, <2>1, Elsewhere
<1>10. QuietInv'
  <2>1. \A a \in Agent : ran'[a] <= 1
    BY <1>1, <1>2, <1>3, <1>7 DEF QuietInv
  <2>2. QED
    BY <1>1, <1>2, <2>1 DEF QuietInv
<1>11. SerialInv'
  <2>1. ASSUME NEW n \in 1 .. Len(us)
        PROVE  /\ results[us[n]] = "none"
               /\ n <= k => task'[us[n]] = "success" /\ ran'[us[n]] = 1
               /\ n = k + 1 =>
                     \/ task'[us[n]] = "idle" /\ ran'[us[n]] = 0
                     \/ ran'[us[n]] = 1 /\ task'[us[n]] \in {"running", "success", "failed", "panicked"}
               /\ n > k + 1 => task'[us[n]] = "idle" /\ ran'[us[n]] = 0
    <3>1. /\ results[us[n]] = "none"
          /\ n <= k => task[us[n]] = "success" /\ ran[us[n]] = 1
          /\ n > k + 1 => task[us[n]] = "idle" /\ ran[us[n]] = 0
      BY <1>3, <1>6 DEF SerialInv, Untouched
    <3>2. us[n] \in Agent
      BY <1>4
    <3>3. n # k + 1 => us[n] # due
      BY <1>4, SetOf
    <3>4. n # k + 1 => task'[us[n]] = task[us[n]] /\ ran'[us[n]] = ran[us[n]]
      BY <1>1, <1>3, <3>2, <3>3
    <3>5. n = k + 1 => task'[us[n]] = "running" /\ ran'[us[n]] = 1
      BY <1>1, <1>3, <1>4, <1>7
    <3>6. n \in Nat /\ k \in Nat
      BY <1>4
    <3>7. QED
      BY <3>1, <3>4, <3>5, <3>6
  <2>2. k <= Len(us) /\ \A n \in 1 .. k : gathered[n] = <<us[n], "success">>
    BY <1>3, <1>6 DEF SerialInv
  <2>3. QED
    BY <1>1, <1>3, <1>6, <2>1, <2>2 DEF SerialInv, Untouched
<1>12. QED
  BY <1>1, <1>8, <1>9, <1>10, <1>11 DEF StageInv, LoopInv

LEMMA SerialNextStep ==
    ASSUME TypeInv, StageInv, SerialNext
    PROVE  StageInv'
<1>1. /\ pc = "serial" /\ pc' = pc /\ pc \in InStage /\ task[Due] = "success" /\ InTurn
      /\ gathered' = Append(gathered, <<Due, "success">>)
      /\ UNCHANGED <<plan, ordered, at, passed, failure, results, cancelled, task, ran>>
      /\ UNCHANGED <<joinset, pending, retry, rounds, reported>>
  BY DEF SerialNext, InTurn, sorting, progress, started, reviewing, InStage
<1>2. /\ InPlan /\ SortTyped /\ OrderInv /\ SortedInv /\ RunTyped
      /\ PassedInv /\ FailureInv /\ AgentInv /\ QuietInv
      /\ \A s \in Ids(plan) : AgentsOf(s) \subseteq Agent
  BY <1>1, InLoopFacts DEF InLoops
<1>3. PICK us, k, due : us = Current.agents /\ k = Len(gathered) /\ due = Due
  OBVIOUS
<1>4. us \in Seq(Agent) /\ k \in Nat /\ k + 1 \in 1 .. Len(us) /\ due = us[k + 1]
  BY <1>1, <1>3, DueShape
<1>5. SerialInv /\ Current' = Current
  BY <1>1 DEF StageInv, Current
<1>6. PassedInv' /\ FailureInv' /\ QuietInv'
  BY <1>1, <1>2 DEF PassedInv, FailureInv, QuietInv, InStage
<1>7. AgentInv'
  BY <1>1, <1>2, Elsewhere
<1>8. SerialInv'
  <2>1. Len(gathered') = k + 1 /\ gathered'[k + 1] = <<due, "success">>
        /\ \A n \in 1 .. k : gathered'[n] = gathered[n]
    BY <1>1, <1>2, <1>3 DEF RunTyped
  <2>2. /\ \A n \in 1 .. k : gathered[n] = <<us[n], "success">>
        /\ \A n \in 1 .. Len(us) :
              /\ results[us[n]] = "none"
              /\ n <= k => task[us[n]] = "success" /\ ran[us[n]] = 1
              /\ n = k + 1 =>
                    Untouched(us[n]) \/ (ran[us[n]] = 1 /\ task[us[n]] \in {"running", "success", "failed", "panicked"})
              /\ n > k + 1 => Untouched(us[n])
    BY <1>3, <1>5 DEF SerialInv
  <2>3. task[us[k + 1]] = "success" /\ ran[us[k + 1]] = 1
    BY <1>1, <1>3, <1>4, <2>2 DEF Untouched
  <2>4. \A n \in 1 .. k + 1 : gathered'[n] = <<us[n], "success">>
    <3>1. TAKE n \in 1 .. k + 1
    <3>2. n \in 1 .. k \/ n = k + 1
      BY <1>4
    <3>3. QED
      BY <1>4, <2>1, <2>2, <3>2
  <2>5. ASSUME NEW n \in 1 .. Len(us)
        PROVE  /\ results[us[n]] = "none"
               /\ n <= k + 1 => task[us[n]] = "success" /\ ran[us[n]] = 1
               /\ n = k + 1 + 1 => Untouched(us[n])
               /\ n > k + 1 + 1 => Untouched(us[n])
    BY <1>4, <2>2, <2>3
  <2>6. k + 1 <= Len(us)
    BY <1>4
  <2>7. QED
    BY <1>1, <1>3, <1>5, <2>1, <2>4, <2>5, <2>6 DEF SerialInv, Untouched
<1>9. QED
  BY <1>1, <1>6, <1>7, <1>8 DEF StageInv, LoopInv

LEMMA JoinStep ==
    ASSUME TypeInv, StageInv, NEW a \in Agent, Join(a)
    PROVE  StageInv'
<1>1. /\ pc = "parallel" /\ pc' = pc /\ pc \in InStage /\ a \in joinset /\ joinset' = joinset \ {a}
      /\ UNCHANGED <<plan, ordered, at, passed, failure, results, cancelled, task, ran>>
      /\ UNCHANGED <<retry, rounds, reported>>
  BY DEF Join, sorting, progress, started, reviewing, InStage
<1>2. /\ InPlan /\ SortTyped /\ OrderInv /\ SortedInv /\ RunTyped
      /\ PassedInv /\ FailureInv /\ AgentInv /\ QuietInv
      /\ \A s \in Ids(plan) : AgentsOf(s) \subseteq Agent
  BY <1>1, InLoopFacts DEF InLoops
<1>3. ParallelInv /\ Current' = Current
  BY <1>1 DEF StageInv, Current
<1>4. PassedInv' /\ FailureInv' /\ QuietInv'
  BY <1>1, <1>2 DEF PassedInv, FailureInv, QuietInv, InStage
<1>5. AgentInv'
  BY <1>1, <1>2, Elsewhere
<1>6. PICK M, k, P : M = Members(Current) /\ k = Len(gathered) /\ P = ToSet(pending)
  OBVIOUS
<1>7. k \in Nat /\ M \subseteq Agent /\ pending \in Seq(Agent) /\ gathered \in Seq(Everybody \X Status)
  <2>1. at <= Len(ordered)
    BY <1>1, <1>2 DEF SortTyped
  <2>2. Members(Current) \subseteq Agent
    BY <1>1, <1>2, <2>1, CurrentShape
  <2>3. pending \in Seq(Agent) /\ gathered \in Seq(Everybody \X Status)
    BY <1>2 DEF RunTyped
  <2>4. QED
    BY <1>6, <2>2, <2>3
<1>8. /\ joinset \subseteq P /\ P \subseteq M
      /\ \A n \in 1 .. k :
            \/ gathered[n] = <<Unknown, "failed">>
            \/ /\ gathered[n][1] \in M \ P
               /\ gathered[n][2] = task[gathered[n][1]] /\ gathered[n][2] \in Ended
      /\ \A b \in M :
            /\ ran[b] = 1 /\ results[b] = "none"
            /\ b \in joinset => task[b] \in {"running", "success", "failed", "panicked"}
            /\ b \in P \ joinset =>
                  task[b] = "panicked" /\ \E n \in 1 .. k : gathered[n] = <<Unknown, "failed">>
            /\ b \notin P => \E n \in 1 .. k : gathered[n][1] = b
  BY <1>3, <1>6 DEF ParallelInv
<1>9. \A n : n \in 1 .. k + 1 <=> n \in 1 .. k \/ n = k + 1
  BY <1>7
<1>10. ParallelInv'
  <2>1. CASE task[a] = "panicked"
    <3>1. gathered' = Append(gathered, <<Unknown, "failed">>) /\ pending' = pending
      BY <2>1 DEF Join
    <3>2. Len(gathered') = k + 1 /\ gathered'[k + 1] = <<Unknown, "failed">>
          /\ \A n \in 1 .. k : gathered'[n] = gathered[n]
      BY <1>6, <1>7, <3>1
    <3>3. ASSUME NEW n \in 1 .. k + 1
          PROVE  \/ gathered'[n] = <<Unknown, "failed">>
                 \/ /\ gathered'[n][1] \in M \ P
                    /\ gathered'[n][2] = task[gathered'[n][1]] /\ gathered'[n][2] \in Ended
      BY <1>8, <1>9, <3>2
    <3>4. ASSUME NEW b \in M
          PROVE  /\ ran[b] = 1 /\ results[b] = "none"
                 /\ b \in joinset' => task[b] \in {"running", "success", "failed", "panicked"}
                 /\ b \in P \ joinset' =>
                       task[b] = "panicked" /\ \E n \in 1 .. k + 1 : gathered'[n] = <<Unknown, "failed">>
                 /\ b \notin P => \E n \in 1 .. k + 1 : gathered'[n][1] = b
      BY <1>1, <1>8, <1>9, <2>1, <3>2
    <3>5. joinset' \subseteq P
      BY <1>1, <1>8
    <3>6. ToSet(pending') = P /\ Len(gathered') = k + 1 /\ P \subseteq M /\ Members(Current') = M
          /\ UNCHANGED <<task, ran, results>>
      BY <1>1, <1>3, <1>6, <1>8, <3>1, <3>2
    <3>7. QED
      BY <3>3, <3>4, <3>5, <3>6 DEF ParallelInv
  <2>2. CASE task[a] # "panicked"
    <3>1. gathered' = Append(gathered, <<a, task[a]>>) /\ pending' = Only(pending, Agent \ {a})
          /\ task[a] \in Ended
      BY <2>2 DEF Join, Ended
    <3>2. Len(gathered') = k + 1 /\ gathered'[k + 1] = <<a, task[a]>>
          /\ \A n \in 1 .. k : gathered'[n] = gathered[n]
      <4>1. <<a, task[a]>> \in Everybody \X Status
        BY <3>1 DEF Everybody, Status, Ended
      <4>2. QED
        BY <1>6, <1>7, <3>1, <4>1
    <3>3. ToSet(pending') = P \ {a}
      <4>1. ToSet(pending') = P \cap (Agent \ {a})
        BY <1>6, <1>7, <3>1, OnlyMembers
      <4>2. QED
        BY <1>7, <1>8, <4>1
    <3>4. a \in M
      BY <1>1, <1>8
    <3>5. ASSUME NEW n \in 1 .. k + 1
          PROVE  \/ gathered'[n] = <<Unknown, "failed">>
                 \/ /\ gathered'[n][1] \in M \ (P \ {a})
                    /\ gathered'[n][2] = task[gathered'[n][1]] /\ gathered'[n][2] \in Ended
      <4>1. CASE n \in 1 .. k
        BY <1>8, <3>2, <4>1
      <4>2. CASE n = k + 1
        BY <3>1, <3>2, <3>4, <4>2
      <4>3. QED
        BY <1>9, <4>1, <4>2
    <3>6. ASSUME NEW b \in M
          PROVE  /\ ran[b] = 1 /\ results[b] = "none"
                 /\ b \in joinset' => task[b] \in {"running", "success", "failed", "panicked"}
                 /\ b \in (P \ {a}) \ joinset' =>
                       task[b] = "panicked" /\ \E n \in 1 .. k + 1 : gathered'[n] = <<Unknown, "failed">>
                 /\ b \notin P \ {a} => \E n \in 1 .. k + 1 : gathered'[n][1] = b
      <4>1. \E n \in 1 .. k + 1 : gathered'[n][1] = a
        BY <1>9, <3>2
      <4>2. b \notin P => \E n \in 1 .. k + 1 : gathered'[n][1] = b
        BY <1>8, <1>9, <3>2
      <4>3. (\E n \in 1 .. k : gathered[n] = <<Unknown, "failed">>) =>
               \E n \in 1 .. k + 1 : gathered'[n] = <<Unknown, "failed">>
        BY <1>9, <3>2
      <4>4. QED
        BY <1>1, <1>8, <4>1, <4>2, <4>3
    <3>7. joinset' \subseteq P \ {a} /\ P \ {a} \subseteq M
      BY <1>1, <1>8
    <3>8. Len(gathered') = k + 1 /\ Members(Current') = M /\ UNCHANGED <<task, ran, results>>
      BY <1>1, <1>3, <1>6, <3>2
    <3>9. QED
      BY <3>3, <3>5, <3>6, <3>7, <3>8 DEF ParallelInv
  <2>3. QED
    BY <2>1, <2>2
<1>11. QED
  BY <1>1, <1>4, <1>5, <1>10 DEF StageInv, LoopInv

LEMMA ConcatShape ==
    ASSUME NEW T, NEW r \in Seq(T), NEW t \in Seq(T)
    PROVE  /\ r \o t \in Seq(T) /\ Len(r \o t) = Len(r) + Len(t)
           /\ Len(r) \in Nat /\ Len(t) \in Nat
           /\ \A n \in 1 .. Len(r) : (r \o t)[n] = r[n]
           /\ \A n \in 1 .. Len(t) : (r \o t)[Len(r) + n] = t[n]
BY ConcatProperties, LenProperties

(* The result of an agent is one of those the stage is closed with, or the  *)
(* one it had.                                                             *)
LEMMA CloseResults ==
    ASSUME RunTyped, NEW rs \in Seq(Everybody \X Status), CloseStage(rs), NEW a \in Everybody
    PROVE  \/ \E n \in 1 .. Len(rs) : rs[n][1] = a /\ results'[a] = rs[n][2]
           \/ (\A n \in 1 .. Len(rs) : rs[n][1] # a) /\ results'[a] = results[a]
<1>1. DOMAIN rs = 1 .. Len(rs) /\ DOMAIN results = Everybody
  BY LenProperties DEF RunTyped
<1>2. results'[a] = IF \E n \in DOMAIN rs : rs[n][1] = a
                    THEN rs[CHOOSE n \in DOMAIN rs : rs[n][1] = a][2] ELSE results[a]
  BY <1>1 DEF CloseStage
<1>3. CASE \E n \in DOMAIN rs : rs[n][1] = a
  <2>1. PICK m : m = CHOOSE n \in DOMAIN rs : rs[n][1] = a
    OBVIOUS
  <2>2. m \in DOMAIN rs /\ rs[m][1] = a
    BY <1>3, <2>1
  <2>3. QED
    BY <1>1, <1>2, <1>3, <2>1, <2>2
<1>4. CASE ~\E n \in DOMAIN rs : rs[n][1] = a
  BY <1>1, <1>2, <1>4
<1>5. QED
  BY <1>3, <1>4

LEMMA CloseStep ==
    ASSUME TypeInv, StageInv, pc \in InStage, NEW rs \in Seq(Everybody \X Status), CloseStage(rs),
           plan' = plan, UNCHANGED <<ordered, ran, retry, rounds, reported>>, cancelled => cancelled',
           joinset' = {}, pending' = <<>>,
           NEW s, s = Current.id, NEW M, M = Members(Current),
           \A a \in Agent : a \notin M => task'[a] = task[a],
           \A n \in 1 .. Len(rs) : rs[n][1] \in M \cup {Unknown}
                                   /\ rs[n][2] \in {"success", "failed", "cancelled"},
           \A a \in M : IF Holds(rs) THEN Succeeded(a)' ELSE Accounted(s, a)'
    PROVE  StageInv'
<1>1. /\ InPlan /\ SortTyped /\ OrderInv /\ SortedInv /\ RunTyped
      /\ PassedInv /\ FailureInv /\ AgentInv /\ QuietInv
      /\ at \in 1 .. Len(ordered) /\ passed[s] = "none" /\ failure = "none"
  BY InLoopFacts DEF InLoops, FailureInv
<1>2. /\ s \in Ids(plan) /\ s \in StageId /\ M = AgentsOf(s) /\ M \subseteq Agent
      /\ s = ordered[at].id
  BY <1>1, CurrentShape DEF Current, InStage
<1>3. /\ passed' = [passed EXCEPT ![s] = IF Holds(rs) THEN "yes" ELSE "no"]
      /\ failure' = IF Holds(rs) THEN failure ELSE "failed"
      /\ at' = at + 1 /\ gathered' = <<>> /\ pc' = "stages"
  BY DEF CloseStage
<1>4. /\ passed'[s] = IF Holds(rs) THEN "yes" ELSE "no"
      /\ \A r \in Ids(plan) : r # s => passed'[r] = passed[r]
  BY <1>1, <1>2, <1>3 DEF RunTyped, InPlan
<1>5. PassedInv'
  <2>1. ASSUME NEW n \in 1 .. Len(ordered)
        PROVE  /\ n < at + 1 /\ failure' = "none" => passed'[ordered[n].id] = "yes"
               /\ n >= at + 1 => passed'[ordered[n].id] = "none"
    <3>1. n \in Nat /\ at \in Nat
      BY <1>1 DEF InPlan
    <3>2. CASE n = at
      BY <1>2, <1>3, <1>4, <3>1, <3>2
    <3>3. CASE n # at
      <4>1. ordered[n].id # s /\ ordered[n].id \in Ids(plan)
        BY <1>1, <1>2, <3>3 DEF InPlan
      <4>2. passed'[ordered[n].id] = passed[ordered[n].id]
        BY <1>4, <4>1
      <4>3. QED
        BY <1>1, <3>1, <3>3, <4>2 DEF PassedInv
    <3>4. QED
      BY <3>2, <3>3
  <2>2. QED
    BY <1>3, <2>1 DEF PassedInv
<1>6. FailureInv'
  <2>1. ASSUME Holds(rs), NEW a \in Everybody PROVE results'[a] \in {"none", "success"}
    <3>1. results[a] \in {"none", "success"}
      BY <1>1 DEF FailureInv
    <3>2. \A n \in 1 .. Len(rs) : rs[n][2] = "success"
      BY <2>1 DEF Holds
    <3>3. QED
      BY <1>1, <3>1, <3>2, CloseResults
  <2>2. ASSUME ~Holds(rs) PROVE \E a \in Everybody : results'[a] # "none"
    <3>1. PICK n \in 1 .. Len(rs) : rs[n][2] # "success"
      BY <2>2 DEF Holds
    <3>2. PICK a : a = rs[n][1]
      OBVIOUS
    <3>3. a \in Everybody
      BY <1>2, <3>2 DEF Everybody
    <3>4. results'[a] # "none"
      <4>1. \E m \in 1 .. Len(rs) : rs[m][1] = a /\ results'[a] = rs[m][2]
        BY <1>1, <3>2, <3>3, CloseResults
      <4>2. QED
        BY <4>1
    <3>5. QED
      BY <3>3, <3>4
  <2>3. QED
    BY <1>1, <1>3, <2>1, <2>2 DEF FailureInv, InStage
<1>7. AgentInv'
  <2>1. ASSUME NEW r \in Ids(plan), NEW a \in Agent, a \in AgentsOf(r), r # s
        PROVE  /\ passed'[r] = passed[r] /\ passed[r] # "no" /\ ~AtStage(r)
               /\ task'[a] = task[a] /\ results'[a] = results[a]
    <3>1. a \notin M
      BY <1>1, <1>2, <2>1, OneStage
    <3>2. results'[a] = results[a]
      <4>1. a \in Everybody /\ a # Unknown
        BY PlanAssumption DEF Everybody
      <4>2. \A n \in 1 .. Len(rs) : rs[n][1] # a
        BY <3>1, <4>1
      <4>3. QED
        BY <1>1, <4>1, <4>2, CloseResults
    <3>3. passed[r] # "no"
      <4>1. PICK n \in 1 .. Len(ordered) : ordered[n].id = r
        BY <1>1 DEF InPlan
      <4>2. n \in Nat /\ at \in Nat
        BY <1>1 DEF InPlan
      <4>3. n < at \/ n >= at
        BY <4>2
      <4>4. QED
        BY <1>1, <4>1, <4>3 DEF PassedInv
    <3>4. ~AtStage(r)
      BY <2>1 DEF AtStage
    <3>5. QED
      BY <1>4, <2>1, <3>1, <3>2, <3>3, <3>4
  <2>2. ASSUME NEW r \in Ids(plan), NEW a \in Agent, a \in AgentsOf(r)
        PROVE  /\ passed'[r] = "none" => Untouched(a)'
               /\ passed'[r] = "yes" => Succeeded(a)'
               /\ passed'[r] = "no" => Accounted(r, a)'
    <3>1. CASE r = s
      BY <1>2, <1>4, <2>2, <3>1
    <3>2. CASE r # s
      <4>1. /\ passed[r] = "none" => Untouched(a)
            /\ passed[r] = "yes" => Succeeded(a)
            /\ passed'[r] = passed[r] /\ passed[r] # "no"
            /\ task'[a] = task[a] /\ results'[a] = results[a] /\ ran'[a] = ran[a]
        BY <1>1, <2>1, <2>2, <3>2 DEF AgentInv
      <4>2. QED
        BY <4>1 DEF Untouched, Succeeded
    <3>3. QED
      BY <3>1, <3>2
  <2>3. QED
    BY <2>2 DEF AgentInv, AgentsOf
<1>8. QuietInv'
  BY <1>1, <1>3 DEF QuietInv
<1>9. QED
  BY <1>3, <1>5, <1>6, <1>7, <1>8 DEF StageInv, LoopInv

LEMMA ParallelClose ==
    ASSUME TypeInv, StageInv, ParallelEnds, pc = "parallel",
           NEW rs, rs = Closing, NEW s, s = Current.id, NEW M, M = Members(Current)
    PROVE  /\ \A a \in Agent : a \notin M => task'[a] = task[a]
           /\ \A n \in 1 .. Len(rs) : rs[n][1] \in M \cup {Unknown}
                                      /\ rs[n][2] \in {"success", "failed", "cancelled"}
           /\ \A a \in M : IF Holds(rs) THEN Succeeded(a)' ELSE Accounted(s, a)'
<1>1. /\ InPlan /\ SortTyped /\ OrderInv /\ SortedInv /\ RunTyped /\ at <= Len(ordered)
  BY InLoopFacts DEF InLoops, InStage, InPlan
<1>2. /\ rs \in Seq(Everybody \X Status) /\ CloseStage(rs) /\ UNCHANGED <<plan, ran, cancelled>>
      /\ joinset = {} \/ cancelled
      /\ task' = Aborted(joinset)
  BY StageCloses
<1>3. PICK g, P, k : g = gathered /\ P = ToSet(pending) /\ k = Len(gathered)
  OBVIOUS
<1>4. /\ g \in Seq(Everybody \X Status) /\ pending \in Seq(Agent) /\ k = Len(g) /\ k \in Nat
      /\ M \subseteq Agent /\ M = AgentsOf(s)
  BY <1>1, <1>3, CurrentShape DEF RunTyped
<1>5. /\ joinset \subseteq P /\ P \subseteq M
      /\ \A n \in 1 .. k :
            \/ g[n] = <<Unknown, "failed">>
            \/ /\ g[n][1] \in M \ P
               /\ g[n][2] = task[g[n][1]] /\ g[n][2] \in Ended
      /\ \A a \in M :
            /\ ran[a] = 1 /\ results[a] = "none"
            /\ a \in joinset => task[a] \in {"running", "success", "failed", "panicked"}
            /\ a \in P \ joinset =>
                  task[a] = "panicked" /\ \E n \in 1 .. k : g[n] = <<Unknown, "failed">>
            /\ a \notin P => \E n \in 1 .. k : g[n][1] = a
  BY <1>3 DEF StageInv, ParallelInv
<1>6. /\ \A n \in 1 .. k : n \in 1 .. Len(rs) /\ rs[n] = g[n]
      /\ ~cancelled => Len(rs) = k
      /\ \A n \in 1 .. Len(rs) : n \in 1 .. k \/ (cancelled /\ \E a \in P : rs[n] = <<a, "cancelled">>)
      /\ cancelled => \A a \in P : \E n \in 1 .. Len(rs) : rs[n] = <<a, "cancelled">>
  <2>1. CASE cancelled
    <3>1. PICK t : t = Fill(pending)
      OBVIOUS
    <3>2. t \in Seq(Everybody \X Status) /\ Len(t) = Len(pending)
          /\ \A i \in 1 .. Len(t) : t[i] = <<pending[i], "cancelled">>
      BY <1>4, <3>1, FillShape
    <3>3. rs = g \o t
      BY <1>3, <2>1, <3>1 DEF Closing
    <3>4. /\ Len(rs) = k + Len(t) /\ Len(t) \in Nat
          /\ \A n \in 1 .. k : rs[n] = g[n]
          /\ \A i \in 1 .. Len(t) : rs[k + i] = t[i]
      <4>1. PICK T : T = Everybody \X Status
        OBVIOUS
      <4>2. g \in Seq(T) /\ t \in Seq(T) /\ k = Len(g)
        BY <1>4, <3>2, <4>1
      <4>3. /\ Len(g \o t) = Len(g) + Len(t) /\ Len(t) \in Nat
            /\ \A n \in 1 .. Len(g) : (g \o t)[n] = g[n]
            /\ \A n \in 1 .. Len(t) : (g \o t)[Len(g) + n] = t[n]
        BY <4>2, ConcatShape
      <4>4. QED
        BY ONLY <3>3, <4>2, <4>3
    <3>5. P = {pending[i] : i \in 1 .. Len(t)}
      BY <1>3, <1>4, <3>2, SetOf
    <3>6. \A n \in 1 .. k : n \in 1 .. Len(rs)
      BY <1>4, <3>4
    <3>7. ASSUME NEW n \in 1 .. Len(rs), n \notin 1 .. k
          PROVE  \E a \in P : rs[n] = <<a, "cancelled">>
      <4>1. n - k \in 1 .. Len(t) /\ k + (n - k) = n
        BY <1>4, <3>4, <3>7
      <4>2. rs[n] = <<pending[n - k], "cancelled">>
        BY <3>2, <3>4, <4>1
      <4>3. QED
        BY <3>5, <4>1, <4>2
    <3>8. ASSUME NEW a \in P PROVE \E n \in 1 .. Len(rs) : rs[n] = <<a, "cancelled">>
      <4>1. PICK i \in 1 .. Len(t) : a = pending[i]
        BY <3>5
      <4>2. k + i \in 1 .. Len(rs) /\ rs[k + i] = <<a, "cancelled">>
        BY <1>4, <3>2, <3>4, <4>1
      <4>3. QED
        BY <4>2
    <3>9. QED
      BY <2>1, <3>4, <3>6, <3>7, <3>8
  <2>2. CASE ~cancelled
    <3>1. rs = g
      BY <1>3, <2>2 DEF Closing
    <3>2. QED
      BY <1>4, <2>2, <3>1
  <2>3. QED
    BY <2>1, <2>2
<1>7. \A a \in Agent : task'[a] = IF a \in joinset /\ task[a] = "running" THEN "aborted" ELSE task[a]
  BY <1>2 DEF Aborted
<1>8. \A a \in Agent : a \notin M => task'[a] = task[a]
  BY <1>5, <1>7
<1>9. \A n \in 1 .. Len(rs) : rs[n][1] \in M \cup {Unknown}
                              /\ rs[n][2] \in {"success", "failed", "cancelled"}
  <2>1. TAKE n \in 1 .. Len(rs)
  <2>2. CASE n \in 1 .. k
    <3>1. rs[n] = g[n]
      BY <1>6, <2>2
    <3>2. CASE g[n] = <<Unknown, "failed">>
      BY <3>1, <3>2
    <3>3. CASE g[n][1] \in M \ P /\ g[n][2] \in Ended
      BY <3>1, <3>3 DEF Ended
    <3>4. QED
      BY <1>5, <2>2, <3>2, <3>3
  <2>3. CASE cancelled /\ \E a \in P : rs[n] = <<a, "cancelled">>
    <3>1. PICK a \in P : rs[n] = <<a, "cancelled">>
      BY <2>3
    <3>2. QED
      BY <1>5, <3>1
  <2>4. QED
    BY <1>6, <2>2, <2>3
<1>10. ASSUME NEW a \in M
       PROVE  IF Holds(rs) THEN Succeeded(a)' ELSE Accounted(s, a)'
  <2>1. a \in Agent /\ a \in Everybody /\ a # Unknown /\ ran'[a] = 1 /\ results[a] = "none"
    BY <1>2, <1>4, <1>5, PlanAssumption DEF Everybody
  <2>2. CASE a \notin P
    <3>1. PICK m \in 1 .. k : g[m][1] = a
      BY <1>5, <2>2
    <3>2. ASSUME NEW n \in 1 .. Len(rs), rs[n][1] = a PROVE rs[n][2] = task[a] /\ task[a] \in Ended
      <4>1. n \in 1 .. k
        <5>1. SUFFICES ASSUME NEW b \in P, rs[n] = <<b, "cancelled">> PROVE FALSE
          BY <1>6
        <5>2. b = a
          BY <3>2, <5>1
        <5>3. QED
          BY <2>2, <5>2
      <4>2. rs[n] = g[n] /\ g[n] # <<Unknown, "failed">>
        BY <1>6, <2>1, <3>2, <4>1
      <4>3. QED
        BY <1>5, <3>2, <4>1, <4>2
    <3>3. m \in 1 .. Len(rs) /\ rs[m][1] = a
      BY <1>6, <3>1
    <3>4. results'[a] = task[a] /\ task[a] \in Ended
      BY <1>1, <1>2, <2>1, <3>2, <3>3, CloseResults
    <3>5. task'[a] = task[a]
      BY <1>7, <2>1, <3>4 DEF Ended
    <3>6. Holds(rs) => task[a] = "success"
      <4>1. HAVE Holds(rs)
      <4>2. rs[m][2] = "success"
        BY <1>2, <3>3, <4>1 DEF Holds
      <4>3. QED
        BY <3>2, <3>3, <4>2
    <3>7. QED
      BY <2>1, <3>4, <3>5, <3>6 DEF Succeeded, Accounted
  <2>3. CASE a \in P /\ cancelled
    <3>1. PICK m \in 1 .. Len(rs) : rs[m] = <<a, "cancelled">>
      BY <1>6, <2>3
    <3>2. ~Holds(rs)
      BY <1>2, <3>1 DEF Holds
    <3>3. ASSUME NEW n \in 1 .. Len(rs), rs[n][1] = a PROVE rs[n][2] = "cancelled"
      <4>1. n \notin 1 .. k
        <5>1. SUFFICES ASSUME n \in 1 .. k PROVE FALSE
          OBVIOUS
        <5>2. g[n][1] = a /\ g[n] # <<Unknown, "failed">>
          BY <1>6, <2>1, <3>3, <5>1
        <5>3. QED
          BY <1>5, <2>3, <5>1, <5>2
      <4>2. QED
        BY <1>6, <4>1
    <3>4. rs[m][1] = a
      BY <3>1
    <3>5. results'[a] = "cancelled"
      <4>1. \E n \in 1 .. Len(rs) : rs[n][1] = a /\ results'[a] = rs[n][2]
        BY <1>1, <1>2, <2>1, <3>4, CloseResults
      <4>2. QED
        BY <3>3, <4>1
    <3>6. task'[a] # "running"
      <4>1. a \in joinset \/ a \in P \ joinset
        BY <2>3
      <4>2. QED
        BY <1>5, <1>7, <2>1, <4>1
    <3>7. QED
      BY <1>2, <2>3, <3>2, <3>5, <3>6 DEF Accounted
  <2>4. CASE a \in P /\ ~cancelled
    <3>1. a \in P \ joinset
      BY <1>2, <2>4
    <3>2. PICK m \in 1 .. k : g[m] = <<Unknown, "failed">>
      BY <1>5, <3>1
    <3>3. m \in 1 .. Len(rs) /\ rs[m] = <<Unknown, "failed">>
      BY <1>6, <3>2
    <3>4. ~Holds(rs)
      BY <1>2, <3>3 DEF Holds
    <3>5. task'[a] = "panicked"
      BY <1>5, <1>7, <2>1, <3>1
    <3>6. \A n \in 1 .. Len(rs) : rs[n][1] # a /\ (rs[n][1] = Unknown => rs[n][2] = "failed")
      <4>1. TAKE n \in 1 .. Len(rs)
      <4>2. n \in 1 .. k /\ rs[n] = g[n]
        BY <1>6, <2>4
      <4>3. CASE g[n] = <<Unknown, "failed">>
        BY <2>1, <4>2, <4>3
      <4>4. CASE g[n][1] \in M \ P
        BY <1>4, <2>4, <4>2, <4>4, PlanAssumption
      <4>5. QED
        BY <1>5, <4>2, <4>3, <4>4
    <3>7. results'[a] = "none"
      BY <1>1, <1>2, <2>1, <3>6, CloseResults
    <3>8. results'[Unknown] = "failed"
      <4>1. rs[m][1] = Unknown /\ Unknown \in Everybody
        BY <3>3 DEF Everybody
      <4>2. QED
        BY <1>1, <1>2, <3>3, <3>6, <4>1, CloseResults
    <3>9. QED
      BY <3>4, <3>5, <3>7, <3>8 DEF Accounted
  <2>5. QED
    BY <2>2, <2>3, <2>4
<1>11. QED
  BY <1>8, <1>9, <1>10

LEMMA SerialClose ==
    ASSUME TypeInv, StageInv, SerialEnds,
           NEW rs, rs = Closing, NEW s, s = Current.id, NEW M, M = Members(Current)
    PROVE  /\ \A a \in Agent : a \notin M => task'[a] = task[a]
           /\ \A n \in 1 .. Len(rs) : rs[n][1] \in M \cup {Unknown}
                                      /\ rs[n][2] \in {"success", "failed", "cancelled"}
           /\ \A a \in M : IF Holds(rs) THEN Succeeded(a)' ELSE Accounted(s, a)'
<1>1. pc = "serial" /\ pc \in InStage
  BY DEF SerialEnds, InStage
<1>2. /\ InPlan /\ SortTyped /\ OrderInv /\ SortedInv /\ RunTyped /\ at <= Len(ordered)
  BY <1>1, InLoopFacts DEF InLoops, InPlan
<1>3. /\ rs \in Seq(Everybody \X Status) /\ CloseStage(rs) /\ UNCHANGED <<plan, ran, cancelled, task>>
      /\ \/ Left = <<>>
         \/ InTurn /\ cancelled /\ task[Due] = "idle"
         \/ InTurn /\ task[Due] = "failed"
  BY <1>1, StageCloses
<1>4. PICK us, k, g, T : us = Current.agents /\ k = Len(gathered) /\ g = gathered
                         /\ T = Everybody \X Status
  OBVIOUS
<1>5. /\ us \in Seq(Agent) /\ IsInjective(us) /\ k \in Nat /\ g \in Seq(T) /\ Len(us) \in Nat
      /\ M \subseteq Agent /\ M = AgentsOf(s) /\ M = ToSet(us)
  <2>1. us \in Seq(Agent) /\ IsInjective(us) /\ M \subseteq Agent /\ M = AgentsOf(s) /\ M = ToSet(us)
    BY <1>1, <1>2, <1>4, CurrentShape
  <2>2. g \in Seq(T) /\ k \in Nat
    BY <1>2, <1>4 DEF RunTyped
  <2>3. QED
    BY <2>1, <2>2
<1>6. /\ k <= Len(us) /\ \A n \in 1 .. k : g[n] = <<us[n], "success">>
      /\ \A n \in 1 .. Len(us) :
            /\ results[us[n]] = "none"
            /\ n <= k => task[us[n]] = "success" /\ ran[us[n]] = 1
            /\ n > k + 1 => task[us[n]] = "idle"
  BY <1>1, <1>4 DEF StageInv, SerialInv, Untouched
<1>7. M = {us[n] : n \in 1 .. Len(us)}
  BY <1>5, SetOf
<1>8. /\ Len(rs) = Len(us)
      /\ \A n \in 1 .. Len(us) :
            /\ rs[n][1] = us[n]
            /\ n <= k => rs[n][2] = "success"
            /\ n > k => \/ rs[n][2] = "failed" /\ task[us[n]] = "failed"
                        \/ /\ rs[n][2] = "cancelled" /\ task[us[n]] = "idle"
                           /\ cancelled \/ \E b \in M : task[b] = "failed"
  <2>1. CASE Left = <<>>
    <3>1. rs = g
      BY <1>1, <1>3, <1>4, <2>1 DEF Closing
    <3>2. Len(us) <= k
      <4>1. PICK m, l, left : m = k + 1 /\ l = Len(us) /\ left = SubSeq(us, m, l)
        OBVIOUS
      <4>2. left = <<>>
        BY <1>4, <2>1, <4>1 DEF Left
      <4>3. m \in Int /\ l \in Int /\ \A i \in m .. l : us[i] \in Agent
        BY <1>5, <4>1
      <4>4. Len(left) = (IF m <= l THEN l - m + 1 ELSE 0)
        BY <4>1, <4>3, SubSeqProperties
      <4>5. Len(left) = 0
        BY <4>2
      <4>6. ~(m <= l)
        BY <4>3, <4>4, <4>5
      <4>7. QED
        BY <1>5, <4>1, <4>6
    <3>3. k = Len(us) /\ Len(rs) = k
      BY <1>4, <1>5, <1>6, <3>1, <3>2
    <3>4. \A n \in 1 .. Len(us) : n \in 1 .. k /\ n <= k /\ ~(n > k)
      BY <1>5, <3>3
    <3>5. QED
      BY <1>6, <3>1, <3>3, <3>4
  <2>2. CASE Left # <<>>
    <3>1. InTurn
      BY <1>1, <2>2 DEF InTurn
    <3>2. PICK left, due, rest : left = Left /\ due = Due /\ rest = Tail(Left)
      OBVIOUS
    <3>3. /\ k + 1 \in 1 .. Len(us) /\ due = us[k + 1]
          /\ left \in Seq(Agent) /\ Len(left) = Len(us) - k
          /\ \A i \in 1 .. Len(left) : left[i] = us[k + i]
          /\ rest \in Seq(Agent) /\ Len(rest) = Len(us) - k - 1
          /\ \A i \in 1 .. Len(rest) : rest[i] = us[k + 1 + i]
      BY <1>4, <3>1, <3>2, DueShape
    <3>4. due \in M
      BY <1>7, <3>3
    <3>5. CASE task[due] = "failed"
      <4>1. PICK h, t : h = Append(g, <<due, "failed">>) /\ t = Fill(rest)
        OBVIOUS
      <4>2. rs = h \o t
        BY <1>1, <1>4, <2>2, <3>2, <3>5, <4>1 DEF Closing
      <4>3. <<due, "failed">> \in T
        BY <1>4, <1>5, <3>4 DEF Everybody, Status
      <4>4. h \in Seq(T) /\ Len(h) = k + 1 /\ h[k + 1] = <<due, "failed">>
            /\ \A n \in 1 .. k : h[n] = g[n]
        BY <1>4, <1>5, <4>1, <4>3
      <4>5. t \in Seq(T) /\ Len(t) = Len(rest) /\ \A i \in 1 .. Len(rest) : t[i] = <<rest[i], "cancelled">>
        BY <1>4, <3>3, <4>1, FillShape
      <4>6. /\ Len(rs) = Len(h) + Len(t) /\ Len(t) \in Nat
            /\ \A n \in 1 .. Len(h) : rs[n] = h[n]
            /\ \A n \in 1 .. Len(t) : rs[Len(h) + n] = t[n]
        <5>0. h \in Seq(T) /\ t \in Seq(T)
          BY <4>4, <4>5
        <5>1. /\ Len(h \o t) = Len(h) + Len(t) /\ Len(t) \in Nat
              /\ \A n \in 1 .. Len(h) : (h \o t)[n] = h[n]
              /\ \A n \in 1 .. Len(t) : (h \o t)[Len(h) + n] = t[n]
          BY <5>0, ConcatShape
        <5>2. QED
          BY ONLY <4>2, <5>1
      <4>7. Len(rs) = Len(us)
        BY <1>5, <3>3, <4>4, <4>5, <4>6
      <4>8. ASSUME NEW n \in 1 .. Len(us)
            PROVE  /\ n <= k => rs[n] = <<us[n], "success">>
                   /\ n = k + 1 => rs[n] = <<us[n], "failed">>
                   /\ n > k + 1 => rs[n] = <<us[n], "cancelled">>
        <5>1. CASE n <= k
          <6>1. n \in 1 .. k /\ n \in 1 .. Len(h) /\ n # k + 1 /\ ~(n > k + 1)
            BY <1>5, <4>4, <5>1
          <6>2. QED
            BY <1>6, <4>4, <4>6, <6>1
        <5>2. CASE n = k + 1
          <6>1. n \in 1 .. Len(h) /\ ~(n <= k) /\ ~(n > k + 1)
            BY <1>5, <4>4, <5>2
          <6>2. QED
            BY <3>3, <4>4, <4>6, <5>2, <6>1
        <5>3. CASE n > k + 1
          <6>1. n - (k + 1) \in 1 .. Len(rest) /\ k + 1 + (n - (k + 1)) = n /\ ~(n <= k) /\ n # k + 1
            BY <1>5, <3>3, <5>3
          <6>2. PICK i : i = n - (k + 1)
            OBVIOUS
          <6>3. rs[n] = t[i] /\ t[i] = <<rest[i], "cancelled">> /\ rest[i] = us[n]
            BY <3>3, <4>4, <4>5, <4>6, <6>1, <6>2
          <6>4. QED
            BY <6>1, <6>3
        <5>4. QED
          BY <1>5, <5>1, <5>2, <5>3
      <4>9. ASSUME NEW n \in 1 .. Len(us)
            PROVE  /\ rs[n][1] = us[n]
                   /\ n <= k => rs[n][2] = "success"
                   /\ n > k => \/ rs[n][2] = "failed" /\ task[us[n]] = "failed"
                               \/ /\ rs[n][2] = "cancelled" /\ task[us[n]] = "idle"
                                  /\ \E b \in M : task[b] = "failed"
        <5>1. n <= k \/ n = k + 1 \/ n > k + 1
          BY <1>5
        <5>2. n <= k => ~(n > k)
          BY <1>5
        <5>3. QED
          BY <1>6, <3>3, <3>4, <3>5, <4>8, <5>1, <5>2
      <4>10. QED
        BY <4>7, <4>9
    <3>6. CASE task[due] # "failed"
      <4>1. PICK t : t = Fill(left)
        OBVIOUS
      <4>2. rs = g \o t /\ cancelled /\ task[due] = "idle"
        BY <1>1, <1>3, <1>4, <2>2, <3>2, <3>6, <4>1 DEF Closing
      <4>3. t \in Seq(T) /\ Len(t) = Len(left) /\ \A i \in 1 .. Len(left) : t[i] = <<left[i], "cancelled">>
        BY <1>4, <3>3, <4>1, FillShape
      <4>4. /\ Len(rs) = Len(g) + Len(t) /\ Len(t) \in Nat
            /\ \A n \in 1 .. Len(g) : rs[n] = g[n]
            /\ \A n \in 1 .. Len(t) : rs[Len(g) + n] = t[n]
        <5>0. g \in Seq(T) /\ t \in Seq(T)
          BY <1>5, <4>3
        <5>1. /\ Len(g \o t) = Len(g) + Len(t) /\ Len(t) \in Nat
              /\ \A n \in 1 .. Len(g) : (g \o t)[n] = g[n]
              /\ \A n \in 1 .. Len(t) : (g \o t)[Len(g) + n] = t[n]
          BY <5>0, ConcatShape
        <5>2. QED
          BY ONLY <4>2, <5>1
      <4>5. Len(rs) = Len(us) /\ Len(g) = k
        BY <1>4, <1>5, <3>3, <4>3, <4>4
      <4>6. ASSUME NEW n \in 1 .. Len(us)
            PROVE  /\ n <= k => rs[n] = <<us[n], "success">>
                   /\ n > k => rs[n] = <<us[n], "cancelled">>
        <5>1. CASE n <= k
          <6>1. n \in 1 .. k /\ ~(n > k)
            BY <1>5, <5>1
          <6>2. QED
            BY <1>6, <4>4, <4>5, <6>1
        <5>2. CASE n > k
          <6>1. n - k \in 1 .. Len(left) /\ k + (n - k) = n /\ ~(n <= k)
            BY <1>5, <3>3, <5>2
          <6>2. PICK i : i = n - k
            OBVIOUS
          <6>3. rs[n] = t[i] /\ t[i] = <<left[i], "cancelled">> /\ left[i] = us[n]
            BY <3>3, <4>3, <4>4, <4>5, <6>1, <6>2
          <6>4. QED
            BY <6>1, <6>3
        <5>3. QED
          BY <1>5, <5>1, <5>2
      <4>7. ASSUME NEW n \in 1 .. Len(us)
            PROVE  /\ rs[n][1] = us[n]
                   /\ n <= k => rs[n][2] = "success"
                   /\ n > k => rs[n][2] = "cancelled" /\ task[us[n]] = "idle"
        <5>1. CASE n <= k
          <6>1. ~(n > k)
            BY <1>5, <5>1
          <6>2. QED
            BY <4>6, <5>1, <6>1
        <5>2. CASE n > k
          <6>1. n = k + 1 \/ n > k + 1
            BY <1>5, <5>2
          <6>2. task[us[n]] = "idle"
            BY <1>6, <3>3, <4>2, <6>1
          <6>3. ~(n <= k)
            BY <1>5, <5>2
          <6>4. QED
            BY <4>6, <5>2, <6>2, <6>3
        <5>3. QED
          BY <1>5, <5>1, <5>2
      <4>8. QED
        BY <4>2, <4>5, <4>7
    <3>7. QED
      BY <3>5, <3>6
  <2>3. QED
    BY <2>1, <2>2
<1>9. \A a \in Agent : a \notin M => task'[a] = task[a]
  BY <1>3
<1>10. \A n \in 1 .. Len(rs) : rs[n][1] \in M \cup {Unknown}
                               /\ rs[n][2] \in {"success", "failed", "cancelled"}
  <2>1. TAKE n \in 1 .. Len(rs)
  <2>2. n <= k \/ n > k
    BY <1>5, <1>8
  <2>3. QED
    BY <1>7, <1>8, <2>2
<1>11. ASSUME NEW a \in M
       PROVE  IF Holds(rs) THEN Succeeded(a)' ELSE Accounted(s, a)'
  <2>1. a \in Agent /\ a \in Everybody
    BY <1>5 DEF Everybody
  <2>2. PICK n \in 1 .. Len(us) : a = us[n]
    BY <1>7
  <2>3. \A m \in 1 .. Len(rs) : rs[m][1] = a => m = n
    BY <1>5, <1>8, <2>2, SetOf
  <2>4. n \in 1 .. Len(rs) /\ rs[n][1] = a
    BY <1>8, <2>2
  <2>5. results'[a] = rs[n][2]
    <3>1. \E m \in 1 .. Len(rs) : rs[m][1] = a /\ results'[a] = rs[m][2]
      BY <1>2, <1>3, <2>1, <2>4, CloseResults
    <3>2. QED
      BY <2>3, <3>1
  <2>6. Holds(rs) => rs[n][2] = "success"
    BY <1>3, <2>4 DEF Holds
  <2>7. CASE n <= k
    <3>1. results'[a] = "success" /\ task'[a] = "success" /\ ran'[a] = 1
      BY <1>3, <1>6, <1>8, <2>2, <2>5, <2>7
    <3>2. QED
      BY <3>1 DEF Succeeded, Accounted, Ended
  <2>8. CASE n > k
    <3>1. /\ rs[n][2] # "success"
          /\ \/ rs[n][2] = "failed" /\ task[a] = "failed"
             \/ /\ rs[n][2] = "cancelled" /\ task[a] = "idle"
                /\ cancelled \/ \E b \in M : task[b] = "failed"
      BY <1>8, <2>2, <2>8
    <3>2. ~Holds(rs)
      BY <2>6, <3>1
    <3>3. AgentsOf(s)' = M
      BY <1>3, <1>5 DEF AgentsOf
    <3>4. QED
      BY <1>3, <2>5, <3>1, <3>2, <3>3 DEF Accounted, Ended
  <2>9. QED
    BY <1>5, <2>7, <2>8
<1>12. QED
  BY <1>9, <1>10, <1>11

LEMMA ClosedStep ==
    ASSUME TypeInv, StageInv, ParallelEnds \/ SerialEnds
    PROVE  StageInv'
<1>1. PICK rs, s, M : rs = Closing /\ s = Current.id /\ M = Members(Current)
  OBVIOUS
<1>2. /\ pc \in {"parallel", "serial"} /\ CloseStage(rs) /\ rs \in Seq(Everybody \X Status)
      /\ plan' = plan /\ UNCHANGED <<ordered, ran, retry, rounds, reported, cancelled>>
      /\ pc = "parallel" => joinset' = {} /\ pending' = <<>>
      /\ pc = "serial" => UNCHANGED <<joinset, pending>>
  BY <1>1, StageCloses
<1>3. pc \in InStage
  BY <1>2 DEF InStage
<1>4. joinset' = {} /\ pending' = <<>>
  <2>1. pc # "parallel" => joinset = {} /\ pending = <<>>
    BY <1>3, InLoopFacts DEF InLoops, QuietInv
  <2>2. QED
    BY <1>2, <2>1
<1>5. /\ \A a \in Agent : a \notin M => task'[a] = task[a]
      /\ \A n \in 1 .. Len(rs) : rs[n][1] \in M \cup {Unknown}
                                 /\ rs[n][2] \in {"success", "failed", "cancelled"}
      /\ \A a \in M : IF Holds(rs) THEN Succeeded(a)' ELSE Accounted(s, a)'
  <2>1. CASE pc = "parallel"
    <3>1. ParallelEnds
      BY <2>1 DEF SerialEnds
    <3>2. QED
      BY <1>1, <2>1, <3>1, ParallelClose
  <2>2. CASE pc = "serial"
    <3>1. SerialEnds
      BY <2>2 DEF ParallelEnds
    <3>2. QED
      BY <1>1, <3>1, SerialClose
  <2>3. QED
    BY <1>2, <2>1, <2>2
<1>6. QED
  BY <1>1, <1>2, <1>3, <1>4, <1>5, CloseStep
-----------------------------------------------------------------------------
(***************************************************************************)
(* The review and its retries.                                             *)
(***************************************************************************)
LEMMA ReviewFacts ==
    ASSUME TypeInv, ReviewInv, pc \in InReview
    PROVE  /\ SortTyped /\ RunTyped /\ OrderInv /\ SortedInv /\ InPlan
           /\ pc # "sort" /\ pc # "end" /\ pc \notin InLoops /\ rounds \in Nat
           /\ \A a \in Agent : ran[a] \in Nat
<1>1. SortTyped /\ RunTyped /\ OrderInv /\ SortedInv
  BY DEF TypeInv
<1>2. pc # "sort" /\ pc # "end" /\ pc \notin InLoops
  BY DEF InReview, InLoops, InStage
<1>3. InPlan
  BY <1>1, <1>2, Structure
<1>4. rounds \in Nat /\ \A a \in Agent : ran[a] \in Nat
  BY <1>1 DEF RunTyped
<1>5. QED
  BY <1>1, <1>2, <1>3, <1>4

(* What a step has to leave of the review.                                  *)
LEMMA ReviewKept ==
    ASSUME plan' = plan, plan.review, failure' = "none", joinset' = {}, reported' = "none",
           \A s \in Ids(plan) : passed'[s] = "yes",
           \A s \in Ids(plan), a \in Agent : a \in AgentsOf(s) =>
              /\ ran'[a] >= 1 /\ results'[a] \in Ended
              /\ ran'[a] = 1 => results'[a] = "success"
              /\ IF pc' = "retrying" /\ a = Head(retry')
                 THEN task'[a] # "idle" /\ ran'[a] > 1 ELSE task'[a] = results'[a],
           \A a \in ToSet(retry') : \E s \in Ids(plan) : a \in AgentsOf(s),
           IsInjective(retry'),
           \A a \in Agent :
              /\ ran'[a] <= rounds' + 1
              /\ a \in ToSet(retry') /\ ~(pc' = "retrying" /\ a = Head(retry')) => ran'[a] <= rounds'
    PROVE  ReviewInv'
BY DEF ReviewInv, AgentsOf, Retrying

(* An orchestration that reports has accounted for its results.             *)
LEMMA ReportStep ==
    ASSUME InPlan, plan' = plan, UNCHANGED <<passed, results, ran, task, cancelled, rounds>>,
           reported' \in {"success", "failure"},
           \A s \in Ids(plan), a \in Agent : a \in AgentsOf(s) =>
              IF passed[s] = "none" THEN results[a] = "none" /\ ran[a] = 0 ELSE Accounted(s, a),
           reported' = "success" => \A s \in Ids(plan) :
              /\ passed[s] = "yes"
              /\ \A a \in AgentsOf(s) : results[a] = "success" \/ (plan.review /\ ran[a] > 1),
           \A a \in Agent : ran[a] <= rounds + 1
    PROVE  EndInv'
<1>1. ResultsAccounted'
  <2>1. ASSUME NEW s \in Ids(plan), NEW a \in AgentsOf(s)
        PROVE  IF passed[s] = "none" THEN results[a] = "none" /\ ran[a] = 0
               ELSE \/ results[a] \in {"success", "failed"} /\ results[a] = task[a]
                    \/ results[a] = "cancelled" /\ task[a] # "running"
                       /\ (cancelled \/ \E b \in AgentsOf(s) : task[b] = "failed")
                    \/ results[a] = "none" /\ task[a] = "panicked"
                       /\ results[Unknown] = "failed"
    <3>1. a \in Agent
      BY <2>1 DEF InPlan
    <3>2. QED
      BY <2>1, <3>1 DEF Accounted, Ended
  <2>2. QED
    BY <2>1 DEF ResultsAccounted, AgentsOf
<1>2. SuccessEarned'
  <2>1. Told' = "success" => reported' = "success"
    BY DEF Told
  <2>2. QED
    BY <2>1 DEF SuccessEarned, AgentsOf
<1>3. QED
  BY <1>1, <1>2 DEF EndInv

(* A future that ends without a report has nothing to account for.          *)
LEMMA SilentEnd ==
    ASSUME reported' = "none", \A a \in Agent : ran'[a] <= rounds' + 1
    PROVE  EndInv'
<1>1. Told' = "error"
  BY DEF Told
<1>2. QED
  BY <1>1 DEF EndInv, ResultsAccounted, SuccessEarned

LEMMA SettleStep ==
    ASSUME TypeInv, StageInv, Settle
    PROVE  StageInv' /\ ReviewInv' /\ EndInv'
<1>1. /\ pc = "stages" /\ plan' = plan /\ UNCHANGED <<ordered, at, passed, failure, task, joinset>>
      /\ UNCHANGED <<results, retry, rounds, ran, cancelled>>
      /\ at > Len(ordered) \/ cancelled
  BY DEF Settle, sorting, progress, execution, started, reviewing
<1>2. /\ InPlan /\ SortTyped /\ RunTyped
      /\ PassedInv /\ FailureInv /\ AgentInv /\ QuietInv
  BY <1>1, InLoopFacts DEF InLoops
<1>3. ASSUME NEW s \in Ids(plan), NEW a \in Agent, a \in AgentsOf(s)
      PROVE  /\ passed[s] = "none" => Untouched(a)
             /\ passed[s] = "yes" => Succeeded(a)
             /\ passed[s] = "no" => Accounted(s, a)
  <2>1. ~AtStage(s)
    BY <1>1 DEF AtStage, InStage
  <2>2. QED
    BY <1>2, <1>3, <2>1 DEF AgentInv
<1>4. ASSUME failure = "none", ~cancelled, NEW s \in Ids(plan) PROVE passed[s] = "yes"
  <2>1. PICK n \in 1 .. Len(ordered) : ordered[n].id = s
    BY <1>2 DEF InPlan
  <2>2. n < at
    <3>1. at > Len(ordered) /\ Len(ordered) \in Nat /\ at \in 1 .. Len(ordered) + 1
      BY <1>1, <1>2, <1>4 DEF SortTyped, InPlan
    <3>2. QED
      BY <3>1
  <2>3. QED
    BY <1>2, <1>4, <2>1, <2>2 DEF PassedInv
<1>5. \A s \in Ids(plan) : passed[s] \in {"none", "yes", "no"}
  BY <1>2 DEF RunTyped, InPlan
<1>6. \/ pc' = "end" /\ reported' = "failure"
      \/ pc' = "end" /\ reported' = "success" /\ failure = "none" /\ ~cancelled
      \/ pc' = "review" /\ reported' = reported /\ plan.review /\ failure = "none" /\ ~cancelled
  <2>1. failure # "none" => \E a \in DOMAIN results : results[a] # "none"
    BY <1>2 DEF FailureInv, RunTyped
  <2>2. QED
    BY <2>1 DEF Settle, Report
<1>7. \A a \in Agent : ran[a] <= 1 /\ ran[a] \in Nat
  BY <1>2 DEF QuietInv, RunTyped
<1>8. StageInv'
  BY <1>6 DEF StageInv, InLoops, InStage
<1>9. CASE pc' = "end"
  <2>1. \A s \in Ids(plan), a \in Agent : a \in AgentsOf(s) =>
           IF passed[s] = "none" THEN results[a] = "none" /\ ran[a] = 0 ELSE Accounted(s, a)
    <3>1. ASSUME NEW s \in Ids(plan), NEW a \in Agent, a \in AgentsOf(s)
          PROVE  IF passed[s] = "none" THEN results[a] = "none" /\ ran[a] = 0 ELSE Accounted(s, a)
      BY <1>3, <1>5, <3>1 DEF Untouched, Succeeded, Accounted, Ended
    <3>2. QED
      BY <3>1
  <2>2. reported' = "success" => \A s \in Ids(plan) :
           /\ passed[s] = "yes"
           /\ \A a \in AgentsOf(s) : results[a] = "success" \/ (plan.review /\ ran[a] > 1)
    <3>1. ASSUME reported' = "success", NEW s \in Ids(plan)
          PROVE  passed[s] = "yes" /\ \A a \in AgentsOf(s) : results[a] = "success"
      <4>1. passed[s] = "yes"
        BY <1>4, <1>6, <1>9, <3>1
      <4>2. AgentsOf(s) \subseteq Agent
        BY <1>2 DEF InPlan
      <4>3. QED
        BY <1>3, <4>1, <4>2 DEF Succeeded
    <3>2. QED
      BY <3>1
  <2>3. rounds = 0
    BY <1>2 DEF QuietInv
  <2>4. reported' \in {"success", "failure"} /\ \A a \in Agent : ran[a] <= rounds + 1
    BY <1>6, <1>7, <1>9, <2>3
  <2>5. EndInv'
    BY <1>1, <1>2, <2>1, <2>2, <2>4, ReportStep
  <2>6. QED
    BY <1>8, <1>9, <2>5 DEF ReviewInv, InReview
<1>10. CASE pc' = "review"
  <2>1. plan.review /\ failure' = "none" /\ \A s \in Ids(plan) : passed'[s] = "yes"
    BY <1>1, <1>4, <1>6, <1>10
  <2>2. joinset' = {} /\ reported' = "none" /\ retry' = <<>> /\ rounds' = 0
    BY <1>1, <1>2, <1>6, <1>10 DEF QuietInv
  <2>3. ASSUME NEW s \in Ids(plan), NEW a \in Agent, a \in AgentsOf(s)
        PROVE  ran'[a] = 1 /\ results'[a] = "success" /\ task'[a] = "success"
    BY <1>1, <1>3, <2>1, <2>3 DEF Succeeded
  <2>4. ToSet(retry') = {} /\ IsInjective(retry')
    BY <2>2 DEF ToSet, IsInjective
  <2>5. \A a \in Agent : ran'[a] <= rounds' + 1
    BY <1>1, <1>7, <2>2
  <2>6. pc' # "retrying"
    BY <1>10
  <2>7. \A s \in Ids(plan), a \in Agent : a \in AgentsOf(s) =>
              /\ ran'[a] >= 1 /\ results'[a] \in Ended
              /\ ran'[a] = 1 => results'[a] = "success"
              /\ IF pc' = "retrying" /\ a = Head(retry')
                 THEN task'[a] # "idle" /\ ran'[a] > 1 ELSE task'[a] = results'[a]
    BY <2>3, <2>6 DEF Ended
  <2>8. ReviewInv'
    BY <1>1, <2>1, <2>2, <2>4, <2>5, <2>7, ReviewKept
  <2>9. QED
    BY <1>8, <1>10, <2>8 DEF EndInv
<1>11. QED
  BY <1>6, <1>9, <1>10

(* An agent of the review, in a state that is not a retry.                  *)
LEMMA ReviewedAgent ==
    ASSUME ReviewInv, pc \in InReview, NEW s \in Ids(plan), NEW a \in Agent, a \in AgentsOf(s)
    PROVE  /\ ran[a] >= 1 /\ results[a] \in Ended /\ passed[s] = "yes"
           /\ ran[a] = 1 => results[a] = "success"
           /\ ~Retrying(a) => task[a] = results[a]
           /\ Retrying(a) => task[a] # "idle" /\ ran[a] > 1
BY DEF ReviewInv

LEMMA ReviewStep ==
    ASSUME TypeInv, ReviewInv, Review
    PROVE  ReviewInv' /\ EndInv'
<1>1. /\ pc = "review" /\ pc \in InReview /\ plan' = plan
      /\ UNCHANGED <<ordered, passed, failure, task, joinset, results, ran, cancelled>>
  BY DEF Review, InReview, sorting, progress, execution, started
<1>2. /\ SortTyped /\ RunTyped /\ OrderInv /\ SortedInv /\ InPlan
      /\ pc # "sort" /\ pc # "end" /\ rounds \in Nat /\ \A a \in Agent : ran[a] \in Nat
  BY <1>1, ReviewFacts
<1>3. \A a \in Agent : ~Retrying(a) /\ ran[a] <= rounds + 1
  BY <1>1 DEF Retrying, ReviewInv
<1>4. \/ pc' = "retry" /\ rounds' = rounds + 1 /\ reported' = reported
         /\ \E us : retry' = InPlanOrder(us)
      \/ pc' = "end" /\ reported' \in {"success", "failure"} /\ rounds' = rounds
  BY DEF Review, Report, reviewing
<1>5. CASE pc' = "end"
  <2>1. reported' \in {"success", "failure"} /\ rounds' = rounds
    BY <1>4, <1>5
  <2>2. ASSUME NEW s \in Ids(plan), NEW a \in Agent, a \in AgentsOf(s)
        PROVE  /\ passed[s] = "yes" /\ Accounted(s, a)
               /\ results[a] = "success" \/ (plan.review /\ ran[a] > 1)
    <3>1. /\ ran[a] >= 1 /\ results[a] \in Ended /\ passed[s] = "yes"
          /\ ran[a] = 1 => results[a] = "success"
          /\ task[a] = results[a]
      BY <1>1, <1>3, <2>2, ReviewedAgent
    <3>2. plan.review /\ ran[a] \in Nat
      BY <1>1, <1>2 DEF ReviewInv
    <3>3. ran[a] = 1 \/ ran[a] > 1
      BY <3>1, <3>2
    <3>4. Accounted(s, a)
      BY <3>1 DEF Accounted
    <3>5. QED
      BY <3>1, <3>2, <3>3, <3>4
  <2>3. \A s \in Ids(plan) : passed[s] = "yes" /\ AgentsOf(s) \subseteq Agent
    BY <1>1, <1>2 DEF ReviewInv, InPlan
  <2>4. \A s \in Ids(plan), a \in Agent : a \in AgentsOf(s) =>
           IF passed[s] = "none" THEN results[a] = "none" /\ ran[a] = 0 ELSE Accounted(s, a)
    BY <2>2, <2>3
  <2>5. \A s \in Ids(plan) :
           /\ passed[s] = "yes"
           /\ \A a \in AgentsOf(s) : results[a] = "success" \/ (plan.review /\ ran[a] > 1)
    BY <2>2, <2>3
  <2>6. EndInv'
    BY <1>1, <1>2, <1>3, <2>1, <2>4, <2>5, ReportStep
  <2>7. QED
    BY <1>5, <2>6 DEF ReviewInv, InReview
<1>6. CASE pc' = "retry"
  <2>1. rounds' = rounds + 1 /\ reported' = reported
    BY <1>4, <1>6
  <2>2. /\ IsInjective(retry')
        /\ \A a \in ToSet(retry') : \E s \in Ids(plan) : a \in AgentsOf(s)
    BY <1>2, <1>4, <1>6, PlanOrder
  <2>3. /\ plan.review /\ failure' = "none" /\ joinset' = {} /\ reported' = "none"
        /\ \A s \in Ids(plan) : passed'[s] = "yes"
    BY <1>1, <2>1 DEF ReviewInv
  <2>4. \A s \in Ids(plan), a \in Agent : a \in AgentsOf(s) =>
              /\ ran'[a] >= 1 /\ results'[a] \in Ended
              /\ ran'[a] = 1 => results'[a] = "success"
              /\ IF pc' = "retrying" /\ a = Head(retry')
                 THEN task'[a] # "idle" /\ ran'[a] > 1 ELSE task'[a] = results'[a]
    BY <1>1, <1>3, <1>6, ReviewedAgent
  <2>5. \A a \in Agent : ran'[a] <= rounds' + 1 /\ ran'[a] <= rounds'
    BY <1>1, <1>2, <1>3, <2>1
  <2>6. ReviewInv'
    BY <1>1, <2>2, <2>3, <2>4, <2>5, ReviewKept
  <2>7. QED
    BY <1>6, <2>6 DEF EndInv
<1>7. QED
  BY <1>4, <1>5, <1>6

LEMMA AnnounceStep ==
    ASSUME TypeInv, ReviewInv, AnnounceRetry
    PROVE  ReviewInv'
<1>1. /\ pc = "retry" /\ pc' = "again" /\ pc \in InReview /\ plan' = plan
      /\ UNCHANGED <<passed, failure, task, joinset, results, ran, retry, rounds, reported>>
  BY DEF AnnounceRetry, InReview, sorting, progress, execution, started, reviewing
<1>2. \A a : ~Retrying(a) /\ ~Retrying(a)'
  BY <1>1 DEF Retrying
<1>3. QED
  BY <1>1, <1>2 DEF ReviewInv, AgentsOf

LEMMA RetriesDoneStep ==
    ASSUME TypeInv, ReviewInv, RetriesDone
    PROVE  ReviewInv'
<1>1. /\ pc = "retry" /\ pc' = "review" /\ pc \in InReview /\ plan' = plan /\ retry' = <<>>
      /\ UNCHANGED <<passed, failure, task, joinset, results, ran, rounds, reported>>
  BY DEF RetriesDone, InReview, sorting, progress, execution, started
<1>2. \A a : ~Retrying(a) /\ ~Retrying(a)'
  BY <1>1 DEF Retrying
<1>3. ToSet(retry') = {} /\ IsInjective(retry')
  BY <1>1 DEF ToSet, IsInjective
<1>4. QED
  BY <1>1, <1>2, <1>3 DEF ReviewInv, AgentsOf

LEMMA StopReview ==
    ASSUME ReviewInv, Cancel \/ StopTurn
    PROVE  ReviewInv'
<1>1. /\ plan' = plan /\ pc' = pc
      /\ UNCHANGED <<passed, failure, task, joinset, results, ran, retry, rounds, reported>>
  BY DEF Cancel, StopTurn, sorting, progress, execution, started, reviewing
<1>2. QED
  BY <1>1 DEF ReviewInv, AgentsOf, Retrying

(* The agent that is retried, and the others of the list.                   *)
LEMMA RetryShape ==
    ASSUME TypeInv, ReviewInv, pc \in InReview, retry # <<>>
    PROVE  LET h == Head(retry) IN
           /\ h \in Agent /\ h \in ToSet(retry) /\ h \notin ToSet(Tail(retry))
           /\ IsInjective(Tail(retry)) /\ ToSet(Tail(retry)) \subseteq ToSet(retry)
           /\ \E s \in Ids(plan) : h \in AgentsOf(s)
<1>1. retry \in Seq(Agent) /\ IsInjective(retry)
  BY DEF TypeInv, RunTyped, ReviewInv
<1>2. /\ Head(retry) \in Agent /\ ToSet(retry) = {Head(retry)} \cup ToSet(Tail(retry))
      /\ IsInjective(Tail(retry)) /\ Head(retry) \notin ToSet(Tail(retry))
  BY <1>1, HeadTail
<1>3. \E s \in Ids(plan) : Head(retry) \in AgentsOf(s)
  BY <1>2 DEF ReviewInv
<1>4. QED
  BY <1>2, <1>3

LEMMA RetryStartStep ==
    ASSUME TypeInv, ReviewInv, RetryStart
    PROVE  ReviewInv'
<1>1. PICK h : h = Head(retry)
  OBVIOUS
<1>2. /\ pc = "again" /\ pc' = "retrying" /\ pc \in InReview /\ plan' = plan
      /\ UNCHANGED <<passed, failure, joinset, results, retry, rounds, reported>> /\ Run({h})
  BY <1>1 DEF RetryStart, InReview, sorting, progress, reviewing
<1>3. RunTyped /\ rounds \in Nat /\ \A a \in Agent : ran[a] \in Nat
  BY <1>2, ReviewFacts
<1>4. h \in Agent /\ h \in ToSet(retry) /\ IsInjective(retry)
  <2>1. retry # <<>>
    BY <1>2, <1>3 DEF RunTyped
  <2>2. QED
    BY <1>1, <1>2, <2>1, RetryShape DEF ReviewInv
<1>5. \A a \in Agent : ~Retrying(a)
  BY <1>2 DEF Retrying
<1>6. /\ \A a \in Agent : a # h => task'[a] = task[a] /\ ran'[a] = ran[a]
      /\ task'[h] = "running" /\ ran'[h] = ran[h] + 1
  BY <1>2, <1>4 DEF Run
<1>7. ASSUME NEW s \in Ids(plan), NEW a \in Agent, a \in AgentsOf(s)
      PROVE  /\ ran'[a] >= 1 /\ results'[a] \in Ended
             /\ ran'[a] = 1 => results'[a] = "success"
             /\ IF pc' = "retrying" /\ a = Head(retry')
                THEN task'[a] # "idle" /\ ran'[a] > 1 ELSE task'[a] = results'[a]
  <2>1. /\ ran[a] >= 1 /\ results[a] \in Ended /\ task[a] = results[a]
        /\ ran[a] = 1 => results[a] = "success"
    BY <1>2, <1>5, <1>7, ReviewedAgent
  <2>2. CASE a = h
    BY <1>1, <1>2, <1>3, <1>6, <2>1, <2>2
  <2>3. CASE a # h
    BY <1>1, <1>2, <1>6, <2>1, <2>3
  <2>4. QED
    BY <2>2, <2>3
<1>8. ASSUME NEW a \in Agent
      PROVE  /\ ran'[a] <= rounds' + 1
             /\ a \in ToSet(retry') /\ ~(pc' = "retrying" /\ a = Head(retry')) => ran'[a] <= rounds'
  <2>1. ran[a] <= rounds + 1 /\ (a \in ToSet(retry) => ran[a] <= rounds)
    BY <1>2, <1>5 DEF ReviewInv
  <2>2. CASE a = h
    BY <1>1, <1>2, <1>3, <1>4, <1>6, <2>1, <2>2
  <2>3. CASE a # h
    BY <1>1, <1>2, <1>6, <2>1, <2>3
  <2>4. QED
    BY <2>2, <2>3
<1>9. /\ plan.review /\ failure' = "none" /\ joinset' = {} /\ reported' = "none"
      /\ \A s \in Ids(plan) : passed'[s] = "yes"
      /\ \A a \in ToSet(retry') : \E s \in Ids(plan) : a \in AgentsOf(s)
  BY <1>2 DEF ReviewInv
<1>10. QED
  BY <1>2, <1>4, <1>7, <1>8, <1>9, ReviewKept

LEMMA RetryEndsStep ==
    ASSUME TypeInv, ReviewInv, RetryEnds
    PROVE  ReviewInv'
<1>1. PICK h : h = Head(retry)
  OBVIOUS
<1>2. /\ pc = "retrying" /\ pc' = "retry" /\ pc \in InReview /\ plan' = plan
      /\ UNCHANGED <<passed, failure, joinset, task, ran, rounds, reported>>
      /\ task[h] \in Ended /\ results' = [results EXCEPT ![h] = task[h]] /\ retry' = Tail(retry)
  BY <1>1 DEF RetryEnds, InReview, progress, execution, started, Ended
<1>3. RunTyped /\ rounds \in Nat /\ \A a \in Agent : ran[a] \in Nat
  BY <1>2, ReviewFacts
<1>4. /\ h \in Agent /\ h \notin ToSet(retry') /\ IsInjective(retry')
      /\ ToSet(retry') \subseteq ToSet(retry)
  <2>1. retry # <<>>
    BY <1>2, <1>3 DEF RunTyped
  <2>2. QED
    BY <1>1, <1>2, <2>1, RetryShape
<1>5. \A a \in Agent : Retrying(a) <=> a = h
  BY <1>1, <1>2 DEF Retrying
<1>6. results'[h] = task[h] /\ \A a \in Agent : a # h => results'[a] = results[a]
  BY <1>2, <1>3, <1>4 DEF RunTyped, Everybody
<1>7. ASSUME NEW s \in Ids(plan), NEW a \in Agent, a \in AgentsOf(s)
      PROVE  /\ ran'[a] >= 1 /\ results'[a] \in Ended
             /\ ran'[a] = 1 => results'[a] = "success"
             /\ IF pc' = "retrying" /\ a = Head(retry')
                THEN task'[a] # "idle" /\ ran'[a] > 1 ELSE task'[a] = results'[a]
  <2>1. /\ ran[a] >= 1 /\ results[a] \in Ended
        /\ ran[a] = 1 => results[a] = "success"
        /\ a # h => task[a] = results[a]
        /\ a = h => ran[a] > 1
    BY <1>2, <1>5, <1>7, ReviewedAgent
  <2>2. CASE a = h
    BY <1>2, <1>3, <1>6, <2>1, <2>2
  <2>3. CASE a # h
    BY <1>2, <1>6, <2>1, <2>3
  <2>4. QED
    BY <2>2, <2>3
<1>8. ASSUME NEW a \in Agent
      PROVE  /\ ran'[a] <= rounds' + 1
             /\ a \in ToSet(retry') /\ ~(pc' = "retrying" /\ a = Head(retry')) => ran'[a] <= rounds'
  <2>1. ran[a] <= rounds + 1 /\ (a \in ToSet(retry) /\ a # h => ran[a] <= rounds)
    BY <1>2, <1>5 DEF ReviewInv
  <2>2. QED
    BY <1>2, <1>4, <2>1
<1>9. /\ plan.review /\ failure' = "none" /\ joinset' = {} /\ reported' = "none"
      /\ \A s \in Ids(plan) : passed'[s] = "yes"
      /\ \A a \in ToSet(retry') : \E s \in Ids(plan) : a \in AgentsOf(s)
  BY <1>2, <1>4 DEF ReviewInv
<1>10. QED
  BY <1>2, <1>4, <1>7, <1>8, <1>9, ReviewKept

(* Only the agent that is retried runs.                                     *)
LEMMA ReviewEnds ==
    ASSUME TypeInv, ReviewInv, NEW b \in Agent, AgentEnds(b)
    PROVE  ReviewInv'
<1>1. PICK how \in {"success", "failed", "panicked"} :
         task[b] = "running" /\ task' = [task EXCEPT ![b] = how]
  BY DEF AgentEnds
<1>2. /\ UNCHANGED <<plan, pc, passed, failure, results, ran>>
      /\ UNCHANGED <<joinset, retry, rounds, reported>>
  BY DEF AgentEnds, sorting, progress, started, reviewing
<1>3. SUFFICES ASSUME pc \in InReview PROVE ReviewInv'
  BY <1>2 DEF ReviewInv
<1>4. task'[b] = how /\ \A a \in Agent : a # b => task'[a] = task[a]
  BY <1>1, <1>3, ReviewFacts DEF RunTyped
<1>5. ASSUME NEW s \in Ids(plan), NEW a \in Agent, a \in AgentsOf(s)
      PROVE  /\ ran'[a] >= 1 /\ results'[a] \in Ended
             /\ ran'[a] = 1 => results'[a] = "success"
             /\ IF pc' = "retrying" /\ a = Head(retry')
                THEN task'[a] # "idle" /\ ran'[a] > 1 ELSE task'[a] = results'[a]
  <2>1. /\ ran[a] >= 1 /\ results[a] \in Ended
        /\ ran[a] = 1 => results[a] = "success"
        /\ ~Retrying(a) => task[a] = results[a]
        /\ Retrying(a) => task[a] # "idle" /\ ran[a] > 1
    BY <1>3, <1>5, ReviewedAgent
  <2>2. a = b => Retrying(a)
    BY <1>1, <2>1 DEF Ended
  <2>3. QED
    BY <1>1, <1>2, <1>4, <2>1, <2>2 DEF Retrying
<1>6. QED
  BY <1>2, <1>3, <1>5, ReviewKept DEF ReviewInv, Retrying

LEMMA DroppedEnd ==
    ASSUME TypeInv, StageInv, ReviewInv, Panics \/ Dropped
    PROVE  StageInv' /\ ReviewInv' /\ EndInv'
<1>1. /\ pc' = "end" /\ pc # "sort" /\ pc # "end" /\ UNCHANGED <<ran, rounds, reported>>
  BY DEF Panics, Dropped, InTurn, execution, started, reviewing
<1>2. pc \in InLoops \cup InReview /\ rounds \in Nat /\ \A a \in Agent : ran[a] \in Nat
  BY <1>1 DEF TypeInv, SortTyped, RunTyped, Label, InLoops, InStage, InReview
<1>3. reported = "none" /\ \A a \in Agent : ran[a] <= rounds + 1
  <2>1. CASE pc \in InLoops
    BY <1>2, <2>1, InLoopFacts DEF QuietInv
  <2>2. CASE pc \in InReview
    BY <2>2 DEF ReviewInv
  <2>3. QED
    BY <1>2, <2>1, <2>2
<1>4. EndInv'
  BY <1>1, <1>3, SilentEnd
<1>5. QED
  BY <1>1, <1>4 DEF StageInv, ReviewInv, InLoops, InStage, InReview
-----------------------------------------------------------------------------
(***************************************************************************)
(* The invariant.                                                          *)
(***************************************************************************)
LEMMA Inside ==
    ASSUME pc' \in InLoops
    PROVE  ReviewInv' /\ EndInv'
BY DEF ReviewInv, EndInv, InReview, InLoops, InStage

LEMMA Outside ==
    ASSUME pc' \notin InLoops
    PROVE  StageInv'
BY DEF StageInv, InLoops, InStage

LEMMA NotAtEnd ==
    ASSUME pc' # "end"
    PROVE  EndInv'
BY DEF EndInv

LEMMA SortPhase ==
    ASSUME OrchestrationInv, Refuse \/ Sorted \/ Place
    PROVE  OrchestrationInv'
<1>1. TypeInv
  BY DEF OrchestrationInv
<1>2. CASE Place
  <2>1. pc' = "sort"
    BY <1>2 DEF Place
  <2>2. TypeInv'
    BY <1>1, <1>2, PlacingTypes
  <2>3. QED
    BY <2>1, <2>2 DEF OrchestrationInv, StageInv, ReviewInv, EndInv, InLoops, InStage, InReview
<1>3. CASE Refuse \/ Sorted
  <2>1. TypeInv' /\ Fresh' /\ pc' \in {"stages", "end"}
    BY <1>1, <1>3, SortingTypes
  <2>2. StageInv'
    BY <1>1, <1>3, SortingStage
  <2>3. ReviewInv'
    BY <2>1 DEF ReviewInv, InReview
  <2>4. reported' = "none" /\ \A a \in Agent : ran'[a] <= rounds' + 1
    BY <2>1 DEF Fresh
  <2>5. EndInv'
    BY <2>4, SilentEnd
  <2>6. QED
    BY <2>1, <2>2, <2>3, <2>5 DEF OrchestrationInv
<1>4. QED
  BY <1>2, <1>3

LEMMA StagePhase ==
    ASSUME OrchestrationInv,
           \/ SkipStage \/ StartStage \/ Launch \/ ParallelEnds \/ SerialStart \/ SerialNext
           \/ SerialEnds \/ \E a \in Agent : Join(a)
    PROVE  OrchestrationInv'
<1>1. TypeInv /\ StageInv
  BY DEF OrchestrationInv
<1>2. CASE SkipStage
  <2>1. pc' \in InLoops
    BY <1>2 DEF SkipStage, InLoop, InLoops
  <2>2. TypeInv' /\ StageInv'
    BY <1>1, <1>2, SkipTypes, SkipStep
  <2>3. QED
    BY <2>1, <2>2, Inside DEF OrchestrationInv
<1>3. CASE StartStage
  <2>1. pc' \in InLoops
    BY <1>3 DEF StartStage, InLoops, InStage
  <2>2. TypeInv' /\ StageInv'
    BY <1>1, <1>3, StartTypes, StartStep
  <2>3. QED
    BY <2>1, <2>2, Inside DEF OrchestrationInv
<1>4. CASE Launch
  <2>1. pc' \in InLoops
    BY <1>4 DEF Launch, InLoops, InStage
  <2>2. TypeInv' /\ StageInv'
    BY <1>1, <1>4, LaunchTypes, LaunchStep
  <2>3. QED
    BY <2>1, <2>2, Inside DEF OrchestrationInv
<1>5. CASE ParallelEnds \/ SerialEnds
  <2>1. pc' \in InLoops
    BY <1>5 DEF ParallelEnds, SerialEnds, CloseStage, InLoops
  <2>2. TypeInv' /\ StageInv'
    BY <1>1, <1>5, ClosedTypes, ClosedStep
  <2>3. QED
    BY <2>1, <2>2, Inside DEF OrchestrationInv
<1>6. CASE SerialStart
  <2>1. pc' \in InLoops
    BY <1>6 DEF SerialStart, InTurn, InLoops, InStage
  <2>2. TypeInv' /\ StageInv'
    BY <1>1, <1>6, SerialStartTypes, SerialStartStep
  <2>3. QED
    BY <2>1, <2>2, Inside DEF OrchestrationInv
<1>7. CASE SerialNext
  <2>1. pc' \in InLoops
    BY <1>7 DEF SerialNext, InTurn, InLoops, InStage
  <2>2. TypeInv' /\ StageInv'
    BY <1>1, <1>7, SerialNextTypes, SerialNextStep
  <2>3. QED
    BY <2>1, <2>2, Inside DEF OrchestrationInv
<1>8. ASSUME NEW a \in Agent, Join(a) PROVE OrchestrationInv'
  <2>1. pc' \in InLoops
    BY <1>8 DEF Join, InLoops, InStage
  <2>2. TypeInv' /\ StageInv'
    BY <1>1, <1>8, JoinTypes, JoinStep
  <2>3. QED
    BY <2>1, <2>2, Inside DEF OrchestrationInv
<1>9. QED
  BY <1>2, <1>3, <1>4, <1>5, <1>6, <1>7, <1>8

LEMMA ReviewPhase ==
    ASSUME OrchestrationInv, Review \/ AnnounceRetry \/ RetryStart \/ RetryEnds \/ RetriesDone
    PROVE  OrchestrationInv'
<1>1. TypeInv /\ ReviewInv
  BY DEF OrchestrationInv
<1>2. pc' \notin InLoops
  BY DEF Review, Report, AnnounceRetry, RetryStart, RetryEnds, RetriesDone, InLoops, InStage
<1>3. CASE Review
  BY <1>1, <1>2, <1>3, Outside, ReviewTypes, ReviewStep DEF OrchestrationInv
<1>4. CASE AnnounceRetry
  <2>1. pc' # "end"
    BY <1>4 DEF AnnounceRetry
  <2>2. QED
    BY <1>1, <1>2, <1>4, <2>1, Outside, NotAtEnd, AnnounceTypes, AnnounceStep DEF OrchestrationInv
<1>5. CASE RetryStart
  <2>1. pc' # "end"
    BY <1>5 DEF RetryStart
  <2>2. QED
    BY <1>1, <1>2, <1>5, <2>1, Outside, NotAtEnd, RetryStartTypes, RetryStartStep DEF OrchestrationInv
<1>6. CASE RetryEnds
  <2>1. pc' # "end"
    BY <1>6 DEF RetryEnds
  <2>2. QED
    BY <1>1, <1>2, <1>6, <2>1, Outside, NotAtEnd, RetryEndsTypes, RetryEndsStep DEF OrchestrationInv
<1>7. CASE RetriesDone
  <2>1. pc' # "end"
    BY <1>7 DEF RetriesDone
  <2>2. QED
    BY <1>1, <1>2, <1>7, <2>1, Outside, NotAtEnd, RetriesDoneTypes, RetriesDoneStep DEF OrchestrationInv
<1>8. QED
  BY <1>3, <1>4, <1>5, <1>6, <1>7

LEMMA AnyPhase ==
    ASSUME OrchestrationInv,
           \/ Settle \/ Panics \/ Dropped \/ Cancel \/ StopTurn \/ \E a \in Agent : AgentEnds(a)
    PROVE  OrchestrationInv'
<1>1. TypeInv /\ StageInv /\ ReviewInv
  BY DEF OrchestrationInv
<1>2. CASE Settle
  BY <1>1, <1>2, SettleTypes, SettleStep DEF OrchestrationInv
<1>3. CASE Panics \/ Dropped
  BY <1>1, <1>3, PanicsTypes, DroppedTypes, DroppedEnd DEF OrchestrationInv
<1>4. CASE Cancel \/ StopTurn
  <2>1. pc' # "end"
    BY <1>4 DEF Cancel, StopTurn
  <2>2. QED
    BY <1>1, <1>4, <2>1, NotAtEnd, StopTypes, StopStep, StopReview DEF OrchestrationInv
<1>5. ASSUME NEW a \in Agent, AgentEnds(a) PROVE OrchestrationInv'
  <2>1. pc' # "end"
    BY <1>5 DEF AgentEnds
  <2>2. QED
    BY <1>1, <1>5, <2>1, NotAtEnd, EndsTypes, EndsStep, ReviewEnds DEF OrchestrationInv
<1>6. QED
  BY <1>2, <1>3, <1>4, <1>5

LEMMA StandStill ==
    ASSUME OrchestrationInv, UNCHANGED vars
    PROVE  OrchestrationInv'
<1>1. /\ UNCHANGED <<plan, pc, indegree, queue, ordered, at, passed, failure, task, joinset>>
      /\ UNCHANGED <<pending, gathered, results, retry, rounds, reported, cancelled, stopped>>
      /\ UNCHANGED <<ran, late, panics>>
  BY DEF vars, sorting, progress, execution, started, reviewing
<1>2. TypeInv'
  BY <1>1 DEF OrchestrationInv, TypeInv, SortTyped, RunTyped, OrderInv, SortedInv, Fresh, Sensible
<1>3. StageInv'
  BY <1>1 DEF OrchestrationInv, StageInv, LoopInv, PassedInv, FailureInv, AgentInv, QuietInv, AnnounceInv,
              ParallelInv, SerialInv, Untouched, Succeeded, Accounted, AtStage, Current, AgentsOf
<1>4. ReviewInv'
  BY <1>1 DEF OrchestrationInv, ReviewInv, Retrying, AgentsOf
<1>5. EndInv'
  BY <1>1 DEF OrchestrationInv, EndInv, ResultsAccounted, SuccessEarned, Told, AgentsOf
<1>6. QED
  BY <1>2, <1>3, <1>4, <1>5 DEF OrchestrationInv

(* Every step of the engine, whoever holds its token, keeps the invariant.  *)
LEMMA InvStep ==
    ASSUME OrchestrationInv, [Engine \/ Dropped \/ Cancel \/ StopTurn]_vars
    PROVE  OrchestrationInv'
<1>1. CASE UNCHANGED vars
  BY <1>1, StandStill
<1>2. CASE Engine
  BY <1>2, SortPhase, StagePhase, ReviewPhase, AnyPhase DEF Engine
<1>3. CASE Dropped \/ Cancel \/ StopTurn
  BY <1>3, AnyPhase
<1>4. QED
  BY <1>1, <1>2, <1>3
-----------------------------------------------------------------------------
(***************************************************************************)
(* What the invariant says of the results and of the report.               *)
(***************************************************************************)
LEMMA RanBound ==
    ASSUME OrchestrationInv
    PROVE  ran \in [Agent -> 0 .. rounds + 1]
<1>1. /\ pc \in Label /\ rounds \in Nat /\ ran \in [Agent -> Nat]
  BY DEF OrchestrationInv, TypeInv, SortTyped, RunTyped
<1>2. \A a \in Agent : ran[a] <= rounds + 1
  <2>1. CASE pc = "sort"
    BY <2>1 DEF OrchestrationInv, TypeInv, SortedInv, Fresh
  <2>2. CASE pc \in InLoops
    BY <1>1, <2>2 DEF OrchestrationInv, StageInv, LoopInv, QuietInv
  <2>3. CASE pc \in InReview
    BY <2>3 DEF OrchestrationInv, ReviewInv
  <2>4. CASE pc = "end"
    BY <2>4 DEF OrchestrationInv, EndInv
  <2>5. QED
    BY <1>1, <2>1, <2>2, <2>3, <2>4 DEF Label, InLoops, InStage, InReview
<1>3. \A a \in Agent : ran[a] \in 0 .. rounds + 1
  BY <1>1, <1>2
<1>4. QED
  BY <1>1, <1>3

LEMMA InvTypes == OrchestrationInv => TypeOK
<1>1. SUFFICES ASSUME OrchestrationInv PROVE TypeOK
  OBVIOUS
<1>2. SortTyped /\ RunTyped /\ OrderInv
  BY <1>1 DEF OrchestrationInv, TypeInv
<1>3. queue \in Seq(StageId)
  <2>1. Ids(plan) \subseteq StageId /\ queue \in Seq(Ids(plan))
    BY <1>2, PlanShape DEF SortTyped
  <2>2. QED
    BY <2>1
<1>4. ran \in [Agent -> 0 .. rounds + 1]
  BY <1>1, RanBound
<1>5. indegree \in [Ids(plan) -> Nat]
  BY <1>2 DEF OrderInv
<1>6. QED
  BY <1>2, <1>3, <1>4, <1>5 DEF TypeOK, SortTyped, RunTyped, Label, Everybody

LEMMA InvSorts == OrchestrationInv => SortCorrect
<1>1. SUFFICES ASSUME OrchestrationInv PROVE SortCorrect
  OBVIOUS
<1>2. SortTyped /\ SortedInv /\ After(plan, ordered)
  BY <1>1 DEF OrchestrationInv, TypeInv, OrderInv
<1>3. ordered \in Seq(Stage) /\ DOMAIN ordered = 1 .. Len(ordered)
  BY <1>2, LenProperties DEF SortTyped
<1>4. IsInjective(ordered)
  <2>1. \A m, n \in 1 .. Len(ordered) : ordered[m] = ordered[n] => m = n
    BY <1>2 DEF After
  <2>2. QED
    BY <1>3, <2>1, SetOf
<1>5. \A n \in DOMAIN ordered :
         Deps(plan, ordered[n].id) \subseteq {ordered[m].id : m \in 1 .. n - 1}
  BY <1>2, <1>3 DEF After
<1>6. pc # "sort" =>
          IF WellFormed(plan) /\ ~Cyclic(plan) THEN Len(ordered) = Len(plan.stages)
          ELSE pc = "end" /\ reported = "none" /\ \A a \in Agent : ran[a] = 0
  BY <1>2 DEF SortedInv, Sensible, Fresh
<1>7. QED
  BY <1>4, <1>5, <1>6 DEF SortCorrect

LEMMA InvReports == OrchestrationInv => ResultsAccounted /\ SuccessEarned
<1>1. SUFFICES ASSUME OrchestrationInv PROVE ResultsAccounted /\ SuccessEarned
  OBVIOUS
<1>2. CASE pc = "end"
  BY <1>1, <1>2 DEF OrchestrationInv, EndInv
<1>3. CASE pc # "end"
  <2>1. reported = "none"
    <3>1. pc \in Label
      BY <1>1 DEF OrchestrationInv, TypeInv, SortTyped
    <3>2. CASE pc = "sort"
      BY <1>1, <3>2 DEF OrchestrationInv, TypeInv, SortedInv, Fresh
    <3>3. CASE pc \in InLoops
      BY <1>1, <3>3 DEF OrchestrationInv, StageInv, LoopInv, QuietInv
    <3>4. CASE pc \in InReview
      BY <1>1, <3>4 DEF OrchestrationInv, ReviewInv
    <3>5. QED
      BY <1>3, <3>1, <3>2, <3>3, <3>4 DEF Label, InLoops, InStage, InReview
  <2>2. Told = "error"
    BY <2>1 DEF Told
  <2>3. QED
    BY <2>1, <2>2 DEF ResultsAccounted, SuccessEarned
<1>4. QED
  BY <1>2, <1>3
-----------------------------------------------------------------------------
(***************************************************************************)
(* The stop.                                                               *)
(***************************************************************************)
LEMMA RunLate ==
    ASSUME NEW us, Run(us), late \in Nat
    PROVE  late' \in Nat /\ late' <= late + 1 /\ (~stopped => late' = late)
BY DEF Run

LEMMA StopKept ==
    ASSUME OrchestrationInv, StopInv, [Engine \/ Dropped \/ Cancel]_vars
    PROVE  StopInv'
<1>1. late \in Nat /\ cancelled \in BOOLEAN /\ stopped \in BOOLEAN
  BY DEF OrchestrationInv, TypeInv, RunTyped
<1>2. stopped = cancelled /\ late <= 1 /\ (~cancelled => late = 0)
      /\ (late = 1 => pc \notin {"announce", "again"})
  BY DEF StopInv
<1>3. CASE UNCHANGED vars
  BY <1>3 DEF StopInv, vars, execution, started
<1>4. CASE Launch
  <2>1. /\ pc = "announce" /\ pc' \in {"parallel", "serial"} /\ UNCHANGED <<cancelled, stopped>>
        /\ Run(Members(Current)) \/ late' = late
    BY <1>4 DEF Launch, started
  <2>2. late = 0
    BY <1>1, <1>2, <2>1
  <2>3. late' \in Nat /\ late' <= 1 /\ (~stopped => late' = 0)
    BY <1>1, <2>1, <2>2, RunLate
  <2>4. QED
    BY <1>2, <2>1, <2>3 DEF StopInv
<1>5. CASE RetryStart
  <2>1. pc = "again" /\ pc' = "retrying" /\ UNCHANGED <<cancelled, stopped>> /\ Run({Head(retry)})
    BY <1>5 DEF RetryStart
  <2>2. late = 0
    BY <1>1, <1>2, <2>1
  <2>3. late' \in Nat /\ late' <= 1 /\ (~stopped => late' = 0)
    BY <1>1, <2>1, <2>2, RunLate
  <2>4. QED
    BY <1>2, <2>1, <2>3 DEF StopInv
<1>6. CASE SerialStart
  <2>1. pc' = pc /\ ~cancelled /\ UNCHANGED <<cancelled, stopped>> /\ Run({Due})
    BY <1>6 DEF SerialStart
  <2>2. late' = 0
    BY <1>1, <1>2, <2>1, RunLate
  <2>3. QED
    BY <1>2, <2>1, <2>2 DEF StopInv
<1>7. CASE StartStage \/ AnnounceRetry
  <2>1. ~cancelled /\ UNCHANGED <<cancelled, stopped, late>>
    BY <1>7 DEF StartStage, InLoop, AnnounceRetry, execution, started
  <2>2. QED
    BY <1>2, <2>1 DEF StopInv
<1>8. CASE Cancel
  <2>1. ~cancelled /\ cancelled' = TRUE /\ stopped' = TRUE /\ UNCHANGED <<pc, late>>
    BY <1>8 DEF Cancel, execution, started
  <2>2. QED
    BY <1>2, <2>1 DEF StopInv
<1>9. ASSUME UNCHANGED <<cancelled, stopped, late>>, pc' = pc \/ pc' \notin {"announce", "again"}
      PROVE  StopInv'
  BY <1>2, <1>9 DEF StopInv
<1>10. CASE Refuse \/ Place \/ Sorted \/ SkipStage \/ SerialNext
  BY <1>9, <1>10 DEF Refuse, Place, Sorted, SkipStage, SerialNext, execution, started
<1>11. CASE ParallelEnds \/ SerialEnds
  <2>1. UNCHANGED <<cancelled, stopped, late>> /\ pc' = "stages"
    BY <1>11 DEF ParallelEnds, SerialEnds, CloseStage, started
  <2>2. QED
    BY <1>9, <2>1
<1>12. CASE Settle \/ Review
  <2>1. UNCHANGED <<cancelled, stopped, late>> /\ pc' \in {"review", "retry", "end"}
    BY <1>12 DEF Settle, Review, Report, execution, started
  <2>2. QED
    BY <1>9, <2>1
<1>13. CASE RetryEnds \/ RetriesDone \/ Panics
  BY <1>9, <1>13 DEF RetryEnds, RetriesDone, Panics, execution, started
<1>14. CASE Dropped
  BY <1>9, <1>14 DEF Dropped, started
<1>15. ASSUME NEW a \in Agent, AgentEnds(a) \/ Join(a) PROVE StopInv'
  BY <1>9, <1>15 DEF AgentEnds, Join, started
<1>16. QED
  BY <1>3, <1>4, <1>5, <1>6, <1>7, <1>8, <1>10, <1>11, <1>12, <1>13, <1>14, <1>15 DEF Engine
-----------------------------------------------------------------------------
(***************************************************************************)
(* The agents that are started.                                            *)
(***************************************************************************)
LEMMA WhoStarts ==
    ASSUME OrchestrationInv, [Engine \/ Dropped \/ Cancel \/ StopTurn]_vars,
           NEW a \in Agent, Starts(a)
    PROVE  \/ pc = "announce" /\ a \in Members(Current)
           \/ InTurn /\ a = Due
           \/ pc = "again" /\ a = Head(retry)
<1>1. task[a] # "running" /\ task'[a] = "running"
  BY DEF Starts
<1>2. CASE UNCHANGED vars
  BY <1>1, <1>2 DEF vars, execution
<1>3. CASE Launch
  BY <1>1, <1>3 DEF Launch, Run
<1>4. CASE SerialStart
  BY <1>1, <1>4 DEF SerialStart, Run
<1>5. CASE RetryStart
  BY <1>1, <1>5 DEF RetryStart, Run
<1>6. CASE ParallelEnds \/ Dropped
  BY <1>1, <1>6 DEF ParallelEnds, Dropped, Aborted
<1>7. ASSUME NEW b \in Agent, AgentEnds(b) PROVE FALSE
  <2>1. task \in [Agent -> {"idle", "running", "success", "failed", "panicked", "aborted"}]
    BY DEF OrchestrationInv, TypeInv, RunTyped
  <2>2. PICK how \in {"success", "failed", "panicked"} : task' = [task EXCEPT ![b] = how]
    BY <1>7 DEF AgentEnds
  <2>3. QED
    BY <1>1, <2>1, <2>2
<1>8. ASSUME task' = task PROVE FALSE
  BY <1>1, <1>8
<1>9. CASE Refuse \/ Place \/ Sorted \/ SkipStage \/ StartStage \/ SerialNext
  BY <1>8, <1>9 DEF Refuse, Place, Sorted, SkipStage, StartStage, SerialNext, execution
<1>10. CASE SerialEnds
  BY <1>8, <1>10 DEF SerialEnds
<1>11. CASE Settle \/ Review
  <2>1. CASE Settle
    BY <1>8, <2>1 DEF Settle, execution
  <2>2. CASE Review
    BY <1>8, <2>2 DEF Review, execution
  <2>3. QED
    BY <1>11, <2>1, <2>2
<1>12. CASE AnnounceRetry \/ RetryEnds \/ RetriesDone \/ Panics \/ Cancel \/ StopTurn
  BY <1>8, <1>12 DEF AnnounceRetry, RetryEnds, RetriesDone, Panics, Cancel, StopTurn, execution
<1>13. ASSUME NEW b \in Agent, Join(b) PROVE FALSE
  BY <1>8, <1>13 DEF Join
<1>14. QED
  BY <1>2, <1>3, <1>4, <1>5, <1>6, <1>7, <1>9, <1>10, <1>11, <1>12, <1>13 DEF Engine

LEMMA FirstStart ==
    ASSUME OrchestrationInv, [Engine \/ Dropped \/ Cancel \/ StopTurn]_vars,
           NEW s \in Ids(plan), NEW a \in AgentsOf(s), Starts(a), ran[a] = 0
    PROVE  /\ \A d \in Deps(plan, s) : \A b \in AgentsOf(d) : results[b] = "success"
           /\ \A b \in Agent \ AgentsOf(s) : results[b] \in {"none", "success"}
<1>1. TypeInv /\ StageInv /\ ReviewInv
  BY DEF OrchestrationInv
<1>2. a \in Agent
  BY <1>1, NamedShape DEF TypeInv, SortTyped, AgentsOf
<1>3. ~(pc = "again" /\ a = Head(retry))
  <2>1. ASSUME pc = "again" PROVE ran[a] >= 1
    BY <1>1, <1>2, <2>1, ReviewedAgent DEF InReview
  <2>2. QED
    BY <2>1
<1>4. /\ pc \in InStage /\ a \in Members(Current)
  BY <1>1, <1>2, <1>3, WhoStarts, DueShape DEF InStage, InTurn
<1>5. /\ InPlan /\ SortTyped /\ OrderInv /\ SortedInv
      /\ PassedInv /\ FailureInv /\ AgentInv
      /\ at \in 1 .. Len(ordered)
  BY <1>1, <1>4, InLoopFacts DEF InLoops
<1>6. s = ordered[at].id /\ failure = "none"
  <2>1. Current.id \in Ids(plan) /\ Members(Current) = AgentsOf(Current.id)
    BY <1>4, <1>5, CurrentShape DEF InStage
  <2>2. s = Current.id
    BY <1>4, <1>5, <2>1, OneStage
  <2>3. QED
    BY <1>4, <1>5, <2>2 DEF FailureInv, Current
<1>7. ASSUME NEW d \in Deps(plan, s), NEW b \in AgentsOf(d) PROVE results[b] = "success"
  <2>1. d \in {ordered[m].id : m \in 1 .. at - 1}
    BY <1>5, <1>6 DEF OrderInv, After
  <2>2. PICK m \in 1 .. at - 1 : d = ordered[m].id
    BY <2>1
  <2>3. m \in 1 .. Len(ordered) /\ m < at
    BY <1>5, <2>2 DEF InPlan
  <2>4. passed[d] = "yes" /\ d \in Ids(plan) /\ b \in Agent
    BY <1>5, <1>6, <2>2, <2>3 DEF PassedInv, InPlan
  <2>5. QED
    BY <1>5, <2>4 DEF AgentInv, Succeeded
<1>8. \A b \in Agent \ AgentsOf(s) : results[b] \in {"none", "success"}
  BY <1>5, <1>6 DEF FailureInv, Everybody
<1>9. QED
  BY <1>7, <1>8
-----------------------------------------------------------------------------
(***************************************************************************)
(* The theorems.                                                           *)
(***************************************************************************)
(* Everything the engine keeps of an orchestration is of its type, and its  *)
(* parts agree, in every state (planner.rs:112, mod.rs:132, mod.rs:228).    *)
THEOREM OrchestrationHolds == Spec => []OrchestrationInv
<1>1. ASSUME OrchestrationInv, [Engine \/ Dropped \/ Cancel]_vars PROVE OrchestrationInv'
  BY <1>1, InvStep
<1>2. QED
  BY <1>1, InitHolds, PTL DEF Spec

(* The same of the engine that a turn calls, whose stop does not reach it.  *)
THEOREM ToolHolds == ToolSpec => []OrchestrationInv
<1>1. ASSUME OrchestrationInv, [Engine \/ Dropped \/ StopTurn]_vars PROVE OrchestrationInv'
  BY <1>1, InvStep
<1>2. QED
  BY <1>1, InitHolds, PTL DEF ToolSpec

LEMMA StopsHold == Spec => []StopInv
<1>1. Init => StopInv
  <2>1. SUFFICES ASSUME Init PROVE StopInv
    OBVIOUS
  <2>2. cancelled = FALSE /\ stopped = FALSE /\ late = 0
    BY <2>1 DEF Init
  <2>3. stopped = cancelled /\ late <= 1 /\ late # 1
    <3>1. stopped = cancelled
      BY <2>2
    <3>2. late <= 1 /\ late # 1
      BY <2>2
    <3>3. QED
      BY <3>1, <3>2
  <2>4. QED
    BY <2>2, <2>3 DEF StopInv
<1>2. ASSUME OrchestrationInv, StopInv, [Engine \/ Dropped \/ Cancel]_vars PROVE StopInv'
  BY <1>2, StopKept
<1>3. QED
  BY <1>1, <1>2, OrchestrationHolds, PTL DEF Spec

(* A plan is given an order exactly when it makes sense, the results that   *)
(* are reported are those of the executions, success is reported only when  *)
(* it was earned, and after a stop agents are started once more at most     *)
(* (planner.rs:112, mod.rs:132, mod.rs:228).                                *)
THEOREM OrchestrationEarnsItsResults == Spec => []ResultsEarned
<1>1. ASSUME OrchestrationInv, StopInv PROVE ResultsEarned
  <2>1. TypeOK /\ SortCorrect /\ ResultsAccounted /\ SuccessEarned
    BY <1>1, InvTypes, InvSorts, InvReports
  <2>2. StopEndsStarts
    BY <1>1 DEF StopInv, StopEndsStarts
  <2>3. QED
    BY <2>1, <2>2 DEF ResultsEarned
<1>2. QED
  BY <1>1, OrchestrationHolds, StopsHold, PTL

(* Without a token the stop ends nothing, but results and report are as     *)
(* true as with one (mod.rs:132, mod.rs:228).                               *)
THEOREM ToolResults == ToolSpec => [](TypeOK /\ SortCorrect /\ ResultsAccounted /\ SuccessEarned)
<1>1. ASSUME OrchestrationInv PROVE TypeOK /\ SortCorrect /\ ResultsAccounted /\ SuccessEarned
  BY <1>1, InvTypes, InvSorts, InvReports
<1>2. QED
  BY <1>1, ToolHolds, PTL

(* An agent is started for its stage only when all the stages its stage     *)
(* depends on have succeeded and no agent of another stage has failed       *)
(* (mod.rs:132).                                                            *)
THEOREM StagesWait == Spec => AfterDependencies
<1>1. ASSUME OrchestrationInv, [Engine \/ Dropped \/ Cancel]_vars
      PROVE  [\A s \in Ids(plan) : \A a \in AgentsOf(s) :
                 Starts(a) /\ ran[a] = 0 =>
                   /\ \A d \in Deps(plan, s) : \A b \in AgentsOf(d) : results[b] = "success"
                   /\ \A b \in Agent \ AgentsOf(s) : results[b] \in {"none", "success"}]_vars
  BY <1>1, FirstStart
<1>2. QED
  BY <1>1, OrchestrationHolds, PTL DEF Spec, AfterDependencies

(* The same without a token (mod.rs:132).                                   *)
THEOREM ToolStagesWait == ToolSpec => AfterDependencies
<1>1. ASSUME OrchestrationInv, [Engine \/ Dropped \/ StopTurn]_vars
      PROVE  [\A s \in Ids(plan) : \A a \in AgentsOf(s) :
                 Starts(a) /\ ran[a] = 0 =>
                   /\ \A d \in Deps(plan, s) : \A b \in AgentsOf(d) : results[b] = "success"
                   /\ \A b \in Agent \ AgentsOf(s) : results[b] \in {"none", "success"}]_vars
  BY <1>1, FirstStart
<1>2. QED
  BY <1>1, ToolHolds, PTL DEF ToolSpec, AfterDependencies

(***************************************************************************)
(*                    T U R N S   A N D   S E R V E R S                     *)
(***************************************************************************)

(***************************************************************************)
(* The connection to a server of tools.                                    *)
(***************************************************************************)
McpPc == {"idle", "registered", "waits", "greets"}
Early == {"connecting", "greeting", "failed"}
McpTyped ==
    /\ mNext \in Nat \ {0}
    /\ mCaller \in [Caller -> [pc : McpPc, id : 0 .. mNext - 1]]
    /\ mStage \in Early \cup {"ready", "closed"} /\ mServer \in {"runs", "ended"}
    /\ mGreeted \in BOOLEAN
    /\ mInbox \subseteq 1 .. mNext - 1 /\ mOutbox \in Seq(Nat \X Nat)
    /\ \A c \in Caller : mCaller[c].pc \in {"registered", "waits"} => mCaller[c].id # 0
(* Until it is greeted, one caller speaks to the server.                    *)
McpAlone ==
    /\ mStage \in Early => mNext <= 2
    /\ mStage \in {"connecting", "greeting"} =>
          \A c, d \in Caller : mCaller[c].pc # "idle" /\ mCaller[d].pc # "idle" => c = d
    /\ mStage = "connecting" /\ mNext = 1 => \A c \in Caller : mCaller[c].pc = "idle"
    /\ \A c \in Caller : mCaller[c].pc = "greets" => mStage = "greeting"
    /\ \A c \in Caller : mCaller[c].pc # "idle" /\ mStage = "greeting" => mCaller[c].pc = "greets"
    /\ mStage \in {"ready", "closed"} => mGreeted \/ mServer = "ended"
    /\ \A i \in mInbox : i # 1 => mGreeted
(* What is on its way names the request it answers.                         *)
McpOwn ==
    /\ \A n \in 1 .. Len(mOutbox) : mOutbox[n][1] = mOutbox[n][2]
    /\ \A a \in mChannel : a[1] = a[2]
    /\ Mcp!OwnAnswer
McpInv == McpTyped /\ McpAlone /\ McpOwn

LEMMA McpInit == Mcp!Init => McpInv
<1> SUFFICES ASSUME Mcp!Init PROVE McpInv
  OBVIOUS
<1>1. McpTyped
  <2>1. mNext = 1 /\ mCaller = [c \in Caller |-> [pc |-> "idle", id |-> 0]]
    BY DEF Mcp!Init, Mcp!Idle, Mcp!NoId
  <2>2. mCaller \in [Caller -> [pc : McpPc, id : 0 .. mNext - 1]]
    BY <2>1 DEF McpPc
  <2>3. mOutbox \in Seq(Nat \X Nat)
    BY DEF Mcp!Init
  <2>4. mNext \in Nat \ {0} /\ mInbox \subseteq 1 .. mNext - 1
    BY <2>1 DEF Mcp!Init
  <2>5. mStage \in Early \cup {"ready", "closed"} /\ mServer \in {"runs", "ended"} /\ mGreeted \in BOOLEAN
    BY DEF Mcp!Init, Early
  <2>6. \A c \in Caller : mCaller[c].pc = "idle"
    BY <2>1
  <2>7. QED
    BY <2>2, <2>3, <2>4, <2>5, <2>6 DEF McpTyped
<1>2. McpAlone
  BY DEF Mcp!Init, McpAlone, Mcp!Idle, Mcp!NoId, Early
<1>3. McpOwn
  BY DEF Mcp!Init, McpOwn, Mcp!OwnAnswer
<1>4. QED
  BY <1>1, <1>2, <1>3 DEF McpInv

LEMMA McpWaits ==
    ASSUME McpTyped, NEW c \in Caller
    PROVE  [mCaller EXCEPT ![c].pc = "waits"] =
              [mCaller EXCEPT ![c] = [pc |-> "waits", id |-> mCaller[c].id]]
<1>1. mCaller[c] \in [pc : McpPc, id : 0 .. mNext - 1]
  BY DEF McpTyped
<1>2. [mCaller[c] EXCEPT !.pc = "waits"] = [pc |-> "waits", id |-> mCaller[c].id]
  BY <1>1
<1>3. QED
  BY <1>2

LEMMA McpStages ==
    ASSUME McpTyped, Mcp!Disappoint
    PROVE  /\ mStage' = IF mStage \in {"connecting", "greeting"} THEN "failed" ELSE mStage
           /\ mStage' \in Early \cup {"ready", "closed"}
BY DEF Mcp!Disappoint, McpTyped, Early

LEMMA McpRests ==
    ASSUME McpTyped, NEW c \in Caller, mNext' = mNext, mCaller' = [mCaller EXCEPT ![c] = Mcp!Idle]
    PROVE  /\ mCaller'[c].pc = "idle" /\ mCaller'[c].id = 0 /\ \A d \in Caller \ {c} : mCaller'[d] = mCaller[d]
           /\ mCaller' \in [Caller -> [pc : McpPc, id : 0 .. mNext' - 1]]
           /\ \A d \in Caller : mCaller'[d].pc \in {"registered", "waits"} => mCaller'[d].id # 0
BY DEF McpTyped, McpPc, Mcp!Idle, Mcp!NoId

LEMMA McpReturns ==
    ASSUME McpTyped, NEW c \in Caller, Mcp!Return(c)
    PROVE  /\ mCaller[c].pc = "waits" /\ UNCHANGED <<mNext, mGreeted, mServer, mInbox, mOutbox>>
           /\ IF mStage = "connecting"
              THEN mStage' = "greeting" /\ mCaller' = [mCaller EXCEPT ![c] = [pc |-> "greets", id |-> 0]]
              ELSE mStage' = mStage /\ mCaller' = [mCaller EXCEPT ![c] = Mcp!Idle]
BY DEF Mcp!Return, Mcp!Receive, Mcp!NoId

LEMMA McpTypes == McpInv /\ [Mcp!Next]_mcpVars => McpTyped'
<1> SUFFICES ASSUME McpInv, [Mcp!Next]_mcpVars PROVE McpTyped'
  OBVIOUS
<1> USE DEF McpInv, McpTyped, McpPc, Early
<1>1. CASE UNCHANGED mcpVars
  BY <1>1 DEF mcpVars
<1>2. ASSUME NEW c \in Caller, Mcp!Register(c) PROVE McpTyped'
  BY <1>2 DEF Mcp!Register
<1>3. ASSUME NEW c \in Caller, Mcp!Lock(c) PROVE McpTyped'
  BY <1>3 DEF Mcp!Lock
<1>4. ASSUME NEW c \in Caller, Mcp!Written(c) PROVE McpTyped'
  <2>1. mCaller' = [mCaller EXCEPT ![c] = [pc |-> "waits", id |-> mCaller[c].id]]
    BY <1>4, McpWaits DEF Mcp!Written
  <2>2. mCaller[c].id \in 1 .. mNext - 1
    BY <1>4 DEF Mcp!Written
  <2>3. QED
    BY <1>4, <2>1, <2>2 DEF Mcp!Written
<1>5. ASSUME NEW c \in Caller, Mcp!WriteFails(c) PROVE McpTyped'
  <2>1. CASE mStdio
    BY <1>5, <2>1, McpStages, McpRests DEF Mcp!WriteFails
  <2>2. CASE ~mStdio
    <3>1. mCaller' = [mCaller EXCEPT ![c] = [pc |-> "waits", id |-> mCaller[c].id]]
      BY <1>5, <2>2, McpWaits DEF Mcp!WriteFails
    <3>2. QED
      BY <1>5, <2>2, <3>1 DEF Mcp!WriteFails
  <2>3. QED
    BY <2>1, <2>2
<1>6. ASSUME NEW c \in Caller, Mcp!Return(c) PROVE McpTyped'
  <2>1. CASE mStage = "connecting"
    <3>1. /\ mCaller' = [mCaller EXCEPT ![c] = [pc |-> "greets", id |-> 0]] /\ mStage' = "greeting"
          /\ UNCHANGED <<mNext, mGreeted, mServer, mInbox, mOutbox>>
      BY <1>6, <2>1, McpReturns
    <3>2. [pc |-> "greets", id |-> 0] \in [pc : McpPc, id : 0 .. mNext - 1]
      OBVIOUS
    <3>3. mCaller' \in [Caller -> [pc : McpPc, id : 0 .. mNext' - 1]]
      BY <3>1, <3>2
    <3>4. QED
      BY <3>1, <3>3
  <2>2. CASE mStage # "connecting"
    BY <1>6, <2>2, McpReturns, McpRests
  <2>3. QED
    BY <2>1, <2>2
<1>7. ASSUME NEW c \in Caller, Mcp!Refuse(c) PROVE McpTyped'
  BY <1>7, McpStages, McpRests DEF Mcp!Refuse, Mcp!Receive
<1>8. ASSUME NEW c \in Caller, Mcp!Notify(c) PROVE McpTyped'
  BY <1>8, McpStages, McpRests DEF Mcp!Notify
<1>9. ASSUME NEW c \in Caller, Mcp!Drop(c) PROVE McpTyped'
  BY <1>9, McpStages, McpRests DEF Mcp!Drop
<1>10. ASSUME NEW i \in Mcp!Ids, Mcp!Serve(i) \/ Mcp!Repeat(i) PROVE McpTyped'
  <2>1. /\ UNCHANGED <<mNext, mCaller, mStage, mServer, mGreeted>> /\ mInbox' \subseteq mInbox
        /\ mOutbox' = Append(mOutbox, <<i, i>>) /\ i \in Nat
    BY <1>10 DEF Mcp!Serve, Mcp!Repeat, Mcp!Ids
  <2>2. mOutbox' \in Seq(Nat \X Nat)
    BY <2>1
  <2>3. QED
    BY <2>1, <2>2
<1>11. CASE Mcp!Close \/ Mcp!ServerEnds \/ Mcp!ReaderEnds
  BY <1>11 DEF Mcp!Close, Mcp!ServerEnds, Mcp!ReaderEnds
<1>12. CASE Mcp!Read
  BY <1>12 DEF Mcp!Read
<1>13. QED
  BY <1>1, <1>2, <1>3, <1>4, <1>5, <1>6, <1>7, <1>8, <1>9, <1>10, <1>11, <1>12 DEF Mcp!Next, Mcp!Ids

(* The steps of a caller, and the others.                                   *)
LEMMA McpAloneStep == McpInv /\ [Mcp!Next]_mcpVars => McpAlone'
<1> SUFFICES ASSUME McpTyped, McpAlone, [Mcp!Next]_mcpVars PROVE McpAlone'
  BY DEF McpInv
<1>a. mNext \in Nat /\ \A c \in Caller : mCaller[c].id <= mNext - 1 /\ mCaller[c].id \in Nat
  BY DEF McpTyped
<1> USE DEF McpAlone, Early
<1>1. CASE UNCHANGED mcpVars
  BY <1>1 DEF mcpVars
<1>2. ASSUME NEW c \in Caller, Mcp!Register(c) PROVE McpAlone'
  <2>1. /\ mNext' = mNext + 1 /\ UNCHANGED <<mStage, mGreeted, mInbox, mServer>>
        /\ mCaller' = [mCaller EXCEPT ![c] = [pc |-> "registered", id |-> mNext]]
        /\ mStage = "ready" \/ (mStage = "connecting" /\ mNext = 1)
    BY <1>2 DEF Mcp!Register, Mcp!MaySend
  <2>2. QED
    BY <1>a, <2>1 DEF McpTyped
<1>3. ASSUME NEW c \in Caller, Mcp!Lock(c) PROVE McpAlone'
  BY <1>3 DEF Mcp!Lock
<1>4. ASSUME NEW c \in Caller, Mcp!Written(c) PROVE McpAlone'
  <2>1. mCaller' = [mCaller EXCEPT ![c] = [pc |-> "waits", id |-> mCaller[c].id]]
    BY <1>4, McpWaits DEF Mcp!Written
  <2>2. /\ mCaller[c].pc = "registered" /\ mServer = "runs" /\ mInbox' = mInbox \cup {mCaller[c].id}
        /\ UNCHANGED <<mStage, mGreeted, mNext, mServer>>
    BY <1>4 DEF Mcp!Written
  <2>3. mCaller[c].id # 1 => mGreeted
    BY <1>a, <2>2 DEF McpTyped
  <2>4. QED
    BY <2>1, <2>2, <2>3 DEF McpTyped
<1>5. ASSUME NEW c \in Caller, Mcp!WriteFails(c) PROVE McpAlone'
  <2>1. CASE mStdio
    BY <1>5, <2>1, McpStages, McpRests DEF Mcp!WriteFails
  <2>2. CASE ~mStdio
    <3>1. mCaller' = [mCaller EXCEPT ![c] = [pc |-> "waits", id |-> mCaller[c].id]]
      BY <1>5, <2>2, McpWaits DEF Mcp!WriteFails
    <3>2. QED
      BY <1>5, <2>2, <3>1 DEF Mcp!WriteFails, McpTyped
  <2>3. QED
    BY <2>1, <2>2
<1>6. ASSUME NEW c \in Caller, Mcp!Return(c) PROVE McpAlone'
  <2>1. CASE mStage = "connecting"
    <3>1. /\ mCaller' = [mCaller EXCEPT ![c] = [pc |-> "greets", id |-> 0]] /\ mStage' = "greeting"
          /\ mCaller[c].pc = "waits" /\ UNCHANGED <<mNext, mGreeted, mServer, mInbox, mOutbox>>
      BY <1>6, <2>1, McpReturns
    <3>2. \A d \in Caller : d # c => mCaller[d].pc = "idle" /\ mCaller'[d] = mCaller[d]
      BY <2>1, <3>1 DEF McpTyped
    <3>3. mCaller'[c].pc = "greets"
      BY <3>1 DEF McpTyped
    <3>4. \A d \in Caller : mCaller'[d].pc # "idle" => d = c
      BY <3>2
    <3>5. QED
      BY <2>1, <3>1, <3>3, <3>4
  <2>2. CASE mStage # "connecting"
    BY <1>6, <2>2, McpReturns, McpRests
  <2>3. QED
    BY <2>1, <2>2
<1>7. ASSUME NEW c \in Caller, Mcp!Refuse(c) PROVE McpAlone'
  BY <1>7, McpStages, McpRests DEF Mcp!Refuse, Mcp!Receive
<1>8. ASSUME NEW c \in Caller, Mcp!Notify(c) PROVE McpAlone'
  <2>1. mStage = "greeting" /\ mNext <= 2 /\ mInbox \subseteq {1}
    BY <1>8 DEF Mcp!Notify, McpTyped
  <2>2. /\ \A d \in Caller : mCaller[d].pc # "idle" => d = c
        /\ mCaller'[c].pc = "idle" /\ \A d \in Caller \ {c} : mCaller'[d] = mCaller[d]
        /\ UNCHANGED <<mNext, mInbox, mServer>>
    BY <1>8, <2>1, McpRests DEF Mcp!Notify
  <2>3. mStage' \in {"ready", "failed"} /\ (mStage' = "ready" => mGreeted' \/ mServer' = "ended")
    BY <1>8, <2>1 DEF Mcp!Notify, Mcp!Disappoint, McpTyped
  <2>4. QED
    BY <2>1, <2>2, <2>3
<1>9. ASSUME NEW c \in Caller, Mcp!Drop(c) PROVE McpAlone'
  BY <1>9, McpStages, McpRests DEF Mcp!Drop
<1>10. ASSUME NEW i \in Mcp!Ids, Mcp!Serve(i) \/ Mcp!Repeat(i) PROVE McpAlone'
  BY <1>10 DEF Mcp!Serve, Mcp!Repeat
<1>11. CASE Mcp!Close \/ Mcp!ServerEnds \/ Mcp!ReaderEnds \/ Mcp!Read
  BY <1>11 DEF Mcp!Close, Mcp!ServerEnds, Mcp!ReaderEnds, Mcp!Read
<1>12. QED
  BY <1>1, <1>2, <1>3, <1>4, <1>5, <1>6, <1>7, <1>8, <1>9, <1>10, <1>11 DEF Mcp!Next

LEMMA McpOwnStep == McpInv /\ [Mcp!Next]_mcpVars => McpOwn'
<1> SUFFICES ASSUME McpTyped, McpOwn, [Mcp!Next]_mcpVars PROVE McpOwn'
  BY DEF McpInv
<1> USE DEF McpOwn, Mcp!OwnAnswer
<1>1. CASE UNCHANGED mcpVars
  BY <1>1 DEF mcpVars
<1>2. ASSUME NEW c \in Caller, Mcp!Register(c) \/ Mcp!Lock(c) \/ Mcp!Written(c) \/ Mcp!Notify(c)
      PROVE  McpOwn'
  BY <1>2 DEF Mcp!Register, Mcp!Lock, Mcp!Written, Mcp!Notify
<1>3. ASSUME NEW c \in Caller, Mcp!WriteFails(c) PROVE McpOwn'
  BY <1>3 DEF Mcp!WriteFails
<1>4. ASSUME NEW c \in Caller, NEW how, Mcp!Receive(c, how) PROVE McpOwn'
  BY <1>4 DEF Mcp!Receive, Mcp!Answers
<1>5. ASSUME NEW c \in Caller, Mcp!Drop(c) PROVE McpOwn'
  BY <1>5 DEF Mcp!Drop, Mcp!Answers
<1>6. ASSUME NEW i \in Mcp!Ids, Mcp!Serve(i) \/ Mcp!Repeat(i) PROVE McpOwn'
  <2>1. mOutbox' = Append(mOutbox, <<i, i>>) /\ UNCHANGED <<mChannel, mResults>>
    BY <1>6 DEF Mcp!Serve, Mcp!Repeat
  <2>2. QED
    BY <2>1 DEF McpTyped
<1>7. CASE Mcp!Close \/ Mcp!ServerEnds \/ Mcp!ReaderEnds
  BY <1>7 DEF Mcp!Close, Mcp!ServerEnds, Mcp!ReaderEnds
<1>8. CASE Mcp!Read
  <2>1. mOutbox # <<>> /\ mOutbox' = Tail(mOutbox) /\ UNCHANGED mResults
    BY <1>8 DEF Mcp!Read
  <2>2. \A n \in 1 .. Len(mOutbox') : mOutbox'[n][1] = mOutbox'[n][2]
    BY <2>1 DEF McpTyped
  <2>3. ASSUME NEW a \in mChannel' \ mChannel PROVE a[1] = a[2]
    <3>1. a[1] = mOutbox[1][1] /\ a[2] = mOutbox[1][2]
      BY <1>8, <2>3 DEF Mcp!Read, Mcp!Addressee
    <3>2. 1 \in 1 .. Len(mOutbox)
      BY <2>1 DEF McpTyped
    <3>3. QED
      BY <3>1, <3>2
  <2>4. QED
    BY <2>1, <2>2, <2>3
<1>9. QED
  BY <1>1, <1>2, <1>3, <1>4, <1>5, <1>6, <1>7, <1>8 DEF Mcp!Next, Mcp!Return, Mcp!Refuse

LEMMA McpStepKeeps == McpInv /\ [Mcp!Next]_mcpVars => McpInv'
BY McpTypes, McpAloneStep, McpOwnStep DEF McpInv

LEMMA McpGreets == McpInv => Mcp!GreetedFirst
BY DEF McpInv, McpTyped, McpAlone, Early, Mcp!GreetedFirst
-----------------------------------------------------------------------------
(***************************************************************************)
(* The events of a turn.                                                   *)
(***************************************************************************)
EventsTyped ==
    /\ eCalls \in [Events!Call -> {"idle", "running", "waiting", "ended"}]
    /\ eCommands \subseteq Shell \cup SubAgent /\ ePassing \subseteq SubAgent
    /\ eSub \in [SubAgent -> Seq(Events!Event)]
    /\ \A a \in SubAgent : \A n \in 1 .. Len(eSub[a]) : eSub[a][n] = <<"log", a>>
    /\ eRecorded \in Seq(Events!Event) /\ Len(eRecorded) <= Capacity
    /\ eTaken \in Events!Event \cup {Events!NoEvent}
    /\ eEvents \in Seq(Events!Event) /\ Len(eEvents) <= Capacity
    /\ eApp \in Seq(Events!Event \cup Events!App) /\ Len(eApp) <= Capacity
    /\ eSteps \in [Events!Call -> {"none", "running", "finished"}] /\ eMissed \subseteq Events!Call
    /\ {eRelay, eForwarder, eClient, eLate} \subseteq BOOLEAN
    /\ ePc \in {"turn", "tell", "usage", "join", "done"}
    /\ eSaved \subseteq SubAgent /\ eSent \subseteq Events!Event
(* When the turn is over no call runs, and what a call whose messages are   *)
(* stored said has been passed on.                                          *)
Settled ==
    /\ ePc # "turn" => \A c \in Events!Call : eCalls[c] \in {"idle", "ended"}
    /\ \A a \in eSaved : eCalls[a] = "ended" /\ a \notin ePassing
(* While the client listens every event has reached it or is on its way, and *)
(* a task ends when all before it have.                                      *)
OnItsWay == ToSet(eRecorded) \cup {eTaken} \cup ToSet(eEvents) \cup ToSet(eApp)
Delivered ==
    /\ eClient => \A e \in eSent : Events!Wire(e) \in eReceived \/ e \in OnItsWay
    /\ eClient /\ ~eRelay => Events!RecorderEnds /\ eEvents = <<>>
    /\ eClient /\ ~eForwarder => ~eRelay /\ eApp = <<>> /\ ePc \in {"join", "done"}
    /\ eAnswer # "none" => ~eForwarder /\ ePc = "done"
    /\ ~eLate
    /\ eAnswer \in {"complete", "error"} =>
          /\ ~Events!RunOpen /\ eRecorded = <<>>
          /\ \A e \in eSent : Events!Wire(e) \in eReceived
    /\ eAnswer = "complete" => eRun = "success"
(* The recorder meets the start of a call once and before its end, and       *)
(* stores them unless a statement about the call failed.                    *)
StartOf(c) == <<"start", c>>
EndOf(c)   == <<"end", c>>
Stored(c) ==
    /\ eCalls[c] = "idle" => eSteps[c] = "none" /\ \A n \in 1 .. Len(eRecorded) : eRecorded[n] \notin {StartOf(c), EndOf(c)}
    /\ eCalls[c] # "idle" => eSteps[c] # "none" \/ \E n \in 1 .. Len(eRecorded) : eRecorded[n] = StartOf(c)
    /\ eCalls[c] = "ended" => eSteps[c] = "finished" \/ \E n \in 1 .. Len(eRecorded) : eRecorded[n] = EndOf(c)
    /\ \A n \in 1 .. Len(eRecorded) : eRecorded[n] = StartOf(c) =>
          eSteps[c] = "none" /\ \A k \in 1 .. Len(eRecorded) : eRecorded[k] \in {StartOf(c), EndOf(c)} => n <= k
EventsInv == EventsTyped /\ Settled /\ Delivered /\ \A c \in Events!Call \ eMissed : Stored(c)

LEMMA EventsInit == Events!Init => EventsInv
<1> SUFFICES ASSUME Events!Init PROVE EventsInv
  OBVIOUS
<1>1. ToSet(<<>>) = {} /\ Len(<<>>) = 0 /\ Capacity \in Nat
  BY EngineAssumption DEF ToSet, Events!TurnEventsAssumption
<1>2. EventsTyped
  <2>1. <<>> \in Seq(Events!Event) /\ <<>> \in Seq(Events!Event \cup Events!App) /\ Len(<<>>) <= Capacity
    BY <1>1
  <2>2. /\ eSub \in [SubAgent -> Seq(Events!Event)]
        /\ \A a \in SubAgent : \A n \in 1 .. Len(eSub[a]) : eSub[a][n] = <<"log", a>>
    BY <1>1, <2>1 DEF Events!Init
  <2>3. eCalls \in [Events!Call -> {"idle", "running", "waiting", "ended"}]
        /\ eSteps \in [Events!Call -> {"none", "running", "finished"}] /\ eMissed \subseteq Events!Call
    BY DEF Events!Init
  <2>4. QED
    BY <2>1, <2>2, <2>3 DEF Events!Init, EventsTyped
<1>3. Settled /\ Delivered
  BY <1>1 DEF Events!Init, Settled, Delivered
<1>4. ASSUME NEW c \in Events!Call PROVE Stored(c)
  BY <1>1 DEF Events!Init, Stored
<1>5. QED
  BY <1>2, <1>3, <1>4 DEF EventsInv

(* A step of a turn writes into the channel of the run and tells that a call *)
(* starts or ends, moves no event, or is a step of the pipeline.            *)
TellsOf(c, e) ==
    \/ e = StartOf(c) /\ eCalls[c] = "idle" /\ eCalls'[c] = "running"
    \/ e = EndOf(c) /\ eCalls[c] \in {"running", "waiting"} /\ eCalls'[c] = "ended"
    \/ e \notin {StartOf(c), EndOf(c)} /\ eCalls'[c] = eCalls[c]
Wrote(e) ==
    /\ Events!RunOpen /\ Events!Write(e) /\ \A c \in Events!Call : TellsOf(c, e)
    /\ UNCHANGED <<eTaken, eEvents, eApp, eRelay, eForwarder, eClient, eReceived, ePc, eAnswer,
                   eLate, eSteps, eMissed, eRun>>
Quiet ==
    /\ \A c \in Events!Call : eCalls'[c] = eCalls[c] \/ (eCalls[c] = "running" /\ eCalls'[c] = "waiting")
    /\ UNCHANGED <<eRecorded, eTaken, eEvents, eApp, eRelay, eForwarder, eClient, eReceived, ePc,
                   eAnswer, eLate, eSteps, eMissed, eRun, eSent>>
Piped ==
    \/ Events!Take \/ Events!Pass \/ Events!Relay \/ Events!RelayEnds \/ Events!Forward
    \/ Events!ForwarderEnds \/ Events!Tell \/ Events!Answer \/ Events!Disconnect
    \/ \E status \in {"success", "failed"} : Events!TurnEnds(status)

LEMMA EventsKinds ==
    ASSUME EventsTyped, Settled, [Events!Next]_eventsVars
    PROVE  (\E e \in Events!Event : Wrote(e)) \/ Quiet \/ Piped
<1> DEFINE Goal == (\E e \in Events!Event : Wrote(e)) \/ Quiet \/ Piped
<1> USE DEF EventsTyped, Settled, TellsOf, StartOf, EndOf, Events!RunOpen
<1>1. CASE UNCHANGED eventsVars
  BY <1>1 DEF eventsVars, Quiet
<1>2. ASSUME NEW c \in Events!Call, Events!Start(c) PROVE Goal
  <2>1. <<"start", c>> \in Events!Event
    BY DEF Events!Event
  <2>2. Wrote(<<"start", c>>)
    BY <1>2 DEF Events!Start, Wrote, Events!stored
  <2>3. QED
    BY <2>1, <2>2
<1>3. ASSUME NEW c \in Events!Call, Events!Spawn(c) PROVE Goal
  BY <1>3 DEF Events!Spawn, Quiet, Events!channels, Events!tasks, Events!stored
<1>4. ASSUME NEW c \in Events!Call, Events!End(c) PROVE Goal
  <2>1. <<"end", c>> \in Events!Event
    BY DEF Events!Event
  <2>2. Wrote(<<"end", c>>)
    BY <1>4 DEF Events!End, Wrote, Events!tasks, Events!stored
  <2>3. QED
    BY <2>1, <2>2
<1>5. ASSUME NEW c \in Events!Call, Events!Exit(c) PROVE Goal
  <2>1. CASE c \in SubAgent
    BY <1>5, <2>1 DEF Events!Exit, Quiet, Events!tasks, Events!stored
  <2>2. CASE c \notin SubAgent
    <3>1. <<"exit", c>> \in Events!Event
      BY DEF Events!Event
    <3>2. Wrote(<<"exit", c>>)
      BY <1>5, <2>2 DEF Events!Exit, Wrote, Events!tasks, Events!stored
    <3>3. QED
      BY <3>1, <3>2
  <2>3. QED
    BY <2>1, <2>2
<1>6. ASSUME NEW a \in SubAgent, Events!Say(a) PROVE Goal
  BY <1>6 DEF Events!Say, Quiet, Events!tasks, Events!stored
<1>7. ASSUME NEW a \in SubAgent, Events!PassOn(a) PROVE Goal
  <2>1. eSub[a] \in Seq(Events!Event) /\ eSub[a] # <<>>
    BY <1>7 DEF Events!PassOn
  <2>2. Head(eSub[a]) = <<"log", a>> /\ Head(eSub[a]) \in Events!Event
    BY <2>1
  <2>3. Wrote(Head(eSub[a]))
    BY <1>7, <2>2 DEF Events!PassOn, Wrote, Events!tasks, Events!stored
  <2>4. QED
    BY <2>2, <2>3
<1>8. ASSUME NEW a \in SubAgent, Events!PassedOn(a) PROVE Goal
  BY <1>8 DEF Events!PassedOn, Quiet, Events!channels, Events!stored
<1>9. ASSUME NEW a \in SubAgent, Events!SubTurnEnds(a) PROVE Goal
  BY <1>9 DEF Events!SubTurnEnds, Quiet, Events!channels, Events!tasks, Events!stored
<1>10. ASSUME NEW a \in SubAgent, Events!SubReturns(a) PROVE Goal
  <2>1. <<"end", a>> \in Events!Event /\ a \in Events!Call
    BY DEF Events!Event, Events!Call
  <2>2. Wrote(<<"end", a>>)
    BY <1>10, <2>1 DEF Events!SubReturns, Wrote, Events!tasks
  <2>3. QED
    BY <2>1, <2>2
<1>11. ASSUME NEW a \in SubAgent, Events!Timeout(a) PROVE Goal
  <2>1. <<"end", a>> \in Events!Event /\ a \in Events!Call
    BY DEF Events!Event, Events!Call
  <2>2. Wrote(<<"end", a>>)
    BY <1>11, <2>1 DEF Events!Timeout, Wrote, Events!tasks, Events!stored
  <2>3. QED
    BY <2>1, <2>2
<1>12. CASE Piped
  BY <1>12
<1>13. QED
  BY <1>1, <1>2, <1>3, <1>4, <1>5, <1>6, <1>7, <1>8, <1>9, <1>10, <1>11, <1>12
     DEF Events!Next, Piped

ActorsKept ==
    /\ eCalls \in [Events!Call -> {"idle", "running", "waiting", "ended"}]
    /\ eCommands \subseteq Shell \cup SubAgent /\ ePassing \subseteq SubAgent
    /\ eSub \in [SubAgent -> Seq(Events!Event)]
    /\ \A a \in SubAgent : \A n \in 1 .. Len(eSub[a]) : eSub[a][n] = <<"log", a>>
    /\ eSaved \subseteq SubAgent /\ Settled

(* Once the run is closed nothing opens it.                                  *)
LEMMA EventsActors ==
    ASSUME EventsTyped, Settled, [Events!Next]_eventsVars
    PROVE  ActorsKept' /\ (Events!RunOpen' => Events!RunOpen)
<1> DEFINE Goal == ActorsKept' /\ (Events!RunOpen' => Events!RunOpen)
<1> USE DEF EventsTyped, Settled, ActorsKept, Events!RunOpen
<1>1. CASE UNCHANGED eventsVars
  BY <1>1 DEF eventsVars
<1>2. ASSUME NEW c \in Events!Call, Events!Start(c) PROVE Goal
  BY <1>2 DEF Events!Start, Events!stored
<1>3. ASSUME NEW c \in Events!Call, Events!Spawn(c) PROVE Goal
  BY <1>3 DEF Events!Spawn, Events!channels, Events!tasks, Events!stored, Events!Call
<1>4. ASSUME NEW c \in Events!Call, Events!End(c) PROVE Goal
  BY <1>4 DEF Events!End, Events!tasks, Events!stored
<1>5. ASSUME NEW c \in Events!Call, Events!Exit(c) PROVE Goal
  BY <1>5 DEF Events!Exit, Events!tasks, Events!stored
<1>6. ASSUME NEW a \in SubAgent, Events!Say(a) PROVE Goal
  <2>1. /\ eSub[a] = <<>> /\ <<"log", a>> \in Events!Event /\ eSub' = [eSub EXCEPT ![a] = Append(@, <<"log", a>>)]
        /\ UNCHANGED <<eCalls, eCommands, ePassing, eSaved, ePc>>
    BY <1>6 DEF Events!Say, Events!tasks, Events!stored, Events!Event, Events!Call
  <2>2. eSub'[a] = <<<<"log", a>>>>
    BY <2>1
  <2>3. eSub'[a] \in Seq(Events!Event) /\ \A n \in 1 .. Len(eSub'[a]) : eSub'[a][n] = <<"log", a>>
    BY <2>1, <2>2
  <2>4. \A b \in SubAgent \ {a} : eSub'[b] = eSub[b]
    BY <2>1
  <2>5. eSub' \in [SubAgent -> Seq(Events!Event)]
    BY <2>1, <2>2, <2>3, <2>4
  <2>6. \A b \in SubAgent : \A n \in 1 .. Len(eSub'[b]) : eSub'[b][n] = <<"log", b>>
    BY <2>3, <2>4
  <2>7. QED
    BY <2>1, <2>5, <2>6
<1>7. ASSUME NEW a \in SubAgent, Events!PassOn(a) PROVE Goal
  <2>1. /\ eSub[a] # <<>> /\ eSub[a] \in Seq(Events!Event) /\ eSub' = [eSub EXCEPT ![a] = Tail(@)]
        /\ UNCHANGED <<eCalls, eCommands, ePassing, eSaved, ePc>>
    BY <1>7 DEF Events!PassOn, Events!tasks, Events!stored
  <2>2. eSub'[a] = Tail(eSub[a])
    BY <2>1
  <2>3. eSub'[a] \in Seq(Events!Event) /\ \A n \in 1 .. Len(eSub'[a]) : eSub'[a][n] = <<"log", a>>
    BY <2>1, <2>2
  <2>4. \A b \in SubAgent \ {a} : eSub'[b] = eSub[b]
    BY <2>1
  <2>5. eSub' \in [SubAgent -> Seq(Events!Event)]
    BY <2>1, <2>2, <2>3, <2>4
  <2>6. \A b \in SubAgent : \A n \in 1 .. Len(eSub'[b]) : eSub'[b][n] = <<"log", b>>
    BY <2>3, <2>4
  <2>7. QED
    BY <2>1, <2>5, <2>6
<1>8. ASSUME NEW a \in SubAgent, Events!PassedOn(a) PROVE Goal
  BY <1>8 DEF Events!PassedOn, Events!channels, Events!stored
<1>9. ASSUME NEW a \in SubAgent, Events!SubTurnEnds(a) PROVE Goal
  <2>1. a \in Events!Call
    BY DEF Events!Call
  <2>2. QED
    BY <1>9, <2>1 DEF Events!SubTurnEnds, Events!channels, Events!tasks, Events!stored
<1>10. ASSUME NEW a \in SubAgent, Events!SubReturns(a) PROVE Goal
  <2>1. a \in Events!Call
    BY DEF Events!Call
  <2>2. QED
    BY <1>10, <2>1 DEF Events!SubReturns, Events!tasks
<1>11. ASSUME NEW a \in SubAgent, Events!Timeout(a) PROVE Goal
  <2>1. a \in Events!Call
    BY DEF Events!Call
  <2>2. QED
    BY <1>11, <2>1 DEF Events!Timeout, Events!tasks, Events!stored
<1>12. ASSUME NEW status \in {"success", "failed"}, Events!TurnEnds(status) PROVE Goal
  BY <1>12 DEF Events!TurnEnds, Events!channels, Events!tasks
<1>13. CASE Events!Tell
  BY <1>13 DEF Events!Tell, Events!tasks, Events!stored
<1>14. CASE Events!Answer
  BY <1>14 DEF Events!Answer, Events!channels, Events!tasks, Events!stored
<1>15. CASE Events!Take \/ Events!Pass \/ Events!Relay \/ Events!RelayEnds
  BY <1>15 DEF Events!Take, Events!Pass, Events!Relay, Events!RelayEnds, Events!tasks, Events!stored
<1>16. CASE Events!Forward \/ Events!ForwarderEnds \/ Events!Disconnect
  BY <1>16 DEF Events!Forward, Events!ForwarderEnds, Events!Disconnect, Events!channels, Events!tasks, Events!stored
<1>17. QED
  BY <1>1, <1>2, <1>3, <1>4, <1>5, <1>6, <1>7, <1>8, <1>9, <1>10, <1>11, <1>12, <1>13, <1>14,
     <1>15, <1>16 DEF Events!Next

LEMMA EventsTypes ==
    ASSUME EventsTyped, Settled, [Events!Next]_eventsVars
    PROVE  EventsTyped'
<1> DEFINE Pipe == /\ eRecorded' \in Seq(Events!Event) /\ Len(eRecorded') <= Capacity
                   /\ eTaken' \in Events!Event \cup {Events!NoEvent}
                   /\ eEvents' \in Seq(Events!Event) /\ Len(eEvents') <= Capacity
                   /\ eApp' \in Seq(Events!Event \cup Events!App) /\ Len(eApp') <= Capacity
                   /\ eSteps' \in [Events!Call -> {"none", "running", "finished"}]
                   /\ eMissed' \subseteq Events!Call
                   /\ {eRelay', eForwarder', eClient', eLate'} \subseteq BOOLEAN
                   /\ ePc' \in {"turn", "tell", "usage", "join", "done"}
                   /\ eSent' \subseteq Events!Event
<1> SUFFICES Pipe
  BY EventsActors DEF EventsTyped, ActorsKept
<1>0. Capacity \in Nat
  BY EngineAssumption DEF Events!TurnEventsAssumption
<1>1. CASE Quiet
  BY <1>1 DEF Quiet, EventsTyped
<1>2. ASSUME NEW e \in Events!Event, Wrote(e) PROVE Pipe
  <2>1. Len(eRecorded) < Capacity /\ eRecorded' = Append(eRecorded, e) /\ eSent' = eSent \cup {e}
    BY <1>2 DEF Wrote, Events!Write, Events!Room
  <2>2. eRecorded' \in Seq(Events!Event) /\ Len(eRecorded') <= Capacity
    BY <1>0, <2>1 DEF EventsTyped
  <2>3. QED
    BY <1>2, <2>1, <2>2 DEF Wrote, EventsTyped
<1>3. CASE Events!Take
  <2>1. eRecorded # <<>> /\ eRecorded \in Seq(Events!Event) /\ Len(eRecorded) <= Capacity
    BY <1>3 DEF Events!Take, EventsTyped
  <2>2. Head(eRecorded) \in Events!Event /\ Tail(eRecorded) \in Seq(Events!Event) /\ Len(Tail(eRecorded)) <= Capacity
    BY <1>0, <2>1
  <2>3. eSteps' \in [Events!Call -> {"none", "running", "finished"}] /\ eMissed' \subseteq Events!Call
    <3>1. Head(eRecorded)[2] \in Events!Call
      BY <2>2 DEF Events!Event
    <3>2. QED
      BY <1>3, <2>2, <3>1 DEF Events!Take, EventsTyped, Events!CreateStep, Events!UpdateStep
  <2>4. QED
    BY <1>3, <2>2, <2>3 DEF Events!Take, EventsTyped, Events!tasks
<1>4. CASE Events!Pass
  <2>1. eEvents' \in Seq(Events!Event) /\ Len(eEvents') <= Capacity
    <3>1. CASE eRelay
      <4>1. eTaken \in Events!Event /\ Len(eEvents) < Capacity /\ eEvents' = Append(eEvents, eTaken)
        BY <1>4, <3>1 DEF Events!Pass, EventsTyped, Events!Room
      <4>2. QED
        BY <1>0, <4>1 DEF EventsTyped
    <3>2. CASE ~eRelay
      BY <1>4, <3>2 DEF Events!Pass, EventsTyped
    <3>3. QED
      BY <3>1, <3>2
  <2>2. QED
    BY <1>4, <2>1 DEF Events!Pass, EventsTyped, Events!tasks, Events!stored
<1>5. CASE Events!Relay
  <2>1. eEvents # <<>> /\ eEvents \in Seq(Events!Event) /\ Len(eEvents) <= Capacity /\ Len(eApp) < Capacity
        /\ eApp' = Append(eApp, Head(eEvents)) /\ eEvents' = Tail(eEvents)
    BY <1>5 DEF Events!Relay, EventsTyped, Events!Room
  <2>2. Head(eEvents) \in Events!Event /\ Tail(eEvents) \in Seq(Events!Event) /\ Len(Tail(eEvents)) <= Capacity
    BY <1>0, <2>1
  <2>3. eApp' \in Seq(Events!Event \cup Events!App) /\ Len(eApp') <= Capacity
    <3>1. Head(eEvents) \in Events!Event \cup Events!App /\ eApp \in Seq(Events!Event \cup Events!App)
      BY <2>2 DEF EventsTyped
    <3> HIDE DEF Events!Event, Events!App
    <3>2. QED
      BY <1>0, <2>1, <3>1
  <2>4. QED
    BY <1>5, <2>1, <2>2, <2>3 DEF Events!Relay, EventsTyped, Events!tasks, Events!stored
<1>6. CASE Events!RelayEnds
  <2>1. <<>> \in Seq(Events!Event) /\ Len(<<>>) <= Capacity
    BY <1>0
  <2>2. QED
    BY <1>6, <2>1 DEF Events!RelayEnds, EventsTyped, Events!stored
<1>7. CASE Events!Forward
  <2>1. eApp # <<>> /\ eApp \in Seq(Events!Event \cup Events!App) /\ Len(eApp) <= Capacity /\ eApp' = Tail(eApp)
    BY <1>7 DEF Events!Forward, EventsTyped
  <2>2. eApp' \in Seq(Events!Event \cup Events!App) /\ Len(eApp') <= Capacity
    BY <1>0, <2>1
  <2>3. {eForwarder', eLate'} \subseteq BOOLEAN
    BY <1>7 DEF Events!Forward, EventsTyped
  <2>4. QED
    BY <1>7, <2>2, <2>3 DEF Events!Forward, EventsTyped, Events!stored
<1>8. CASE Events!ForwarderEnds \/ Events!Disconnect
  BY <1>8 DEF Events!ForwarderEnds, Events!Disconnect, EventsTyped, Events!channels, Events!tasks, Events!stored
<1>9. CASE Events!Tell
  <2>1. eApp' \in Seq(Events!Event \cup Events!App) /\ Len(eApp') <= Capacity
    <3>1. CASE eForwarder
      <4>1. PICK e \in Events!Event \cup Events!App : eApp' = Append(eApp, e) /\ Len(eApp) < Capacity
        <5>1. <<"turn_complete">> \in Events!App /\ <<"token_usage">> \in Events!App
          BY DEF Events!App
        <5>2. QED
          BY <1>9, <3>1, <5>1 DEF Events!Tell, Events!Room
      <4>2. QED
        BY <1>0, <4>1 DEF EventsTyped
    <3>2. CASE ~eForwarder
      BY <1>9, <3>2 DEF Events!Tell, EventsTyped
    <3>3. QED
      BY <3>1, <3>2
  <2>2. QED
    BY <1>9, <2>1 DEF Events!Tell, EventsTyped, Events!tasks, Events!stored
<1>10. CASE Events!Answer
  BY <1>10 DEF Events!Answer, EventsTyped, Events!channels, Events!tasks, Events!stored
<1>11. ASSUME NEW status \in {"success", "failed"}, Events!TurnEnds(status) PROVE Pipe
  BY <1>11 DEF Events!TurnEnds, EventsTyped, Events!channels, Events!tasks
<1>12. QED
  BY <1>1, <1>2, <1>3, <1>4, <1>5, <1>6, <1>7, <1>8, <1>9, <1>10, <1>11, EventsKinds DEF Piped

(* On its way an event goes from one channel to the next.                    *)
LEMMA EventsWay ==
    ASSUME EventsTyped, Settled, Delivered, [Events!Next]_eventsVars
    PROVE  eClient' => \A e \in eSent' : Events!Wire(e) \in eReceived' \/ e \in OnItsWay'
<1> SUFFICES ASSUME eClient', NEW e \in eSent'
             PROVE  Events!Wire(e) \in eReceived' \/ e \in OnItsWay'
  OBVIOUS
<1>1. eClient
  BY EventsKinds DEF Piped, Quiet, Wrote, Events!Take, Events!Pass, Events!Relay, Events!RelayEnds,
     Events!Forward, Events!ForwarderEnds, Events!Tell, Events!Answer, Events!Disconnect, Events!TurnEnds
<1>2. e \in Events!Event /\ e # Events!NoEvent
  <2>1. e \in Events!Event
    BY EventsTypes DEF EventsTyped
  <2>2. QED
    BY <2>1 DEF Events!Event, Events!NoEvent
<1>3. \A x \in eSent : Events!Wire(x) \in eReceived \/ x \in OnItsWay
  BY <1>1 DEF Delivered
<1> USE DEF OnItsWay
<1>4. CASE Quiet \/ Events!Disconnect \/ Events!ForwarderEnds \/ Events!Answer
  BY <1>3, <1>4 DEF Quiet, Events!Disconnect, Events!ForwarderEnds, Events!Answer, Events!channels
<1>5. ASSUME NEW x \in Events!Event, Wrote(x) PROVE Events!Wire(e) \in eReceived' \/ e \in OnItsWay'
  <2>1. ToSet(eRecorded') = ToSet(eRecorded) \cup {x} /\ eSent' = eSent \cup {x}
    BY <1>5, SetOfAppend DEF Wrote, Events!Write, EventsTyped
  <2>2. QED
    BY <1>3, <1>5, <2>1 DEF Wrote
<1>6. CASE Events!Take
  <2>1. ToSet(eRecorded) = {eTaken'} \cup ToSet(eRecorded')
    BY <1>6, HeadTail DEF Events!Take, EventsTyped
  <2>2. QED
    BY <1>2, <1>3, <1>6, <2>1 DEF Events!Take
<1>7. CASE Events!Pass
  <2>1. eRelay
    BY <1>1, <1>7 DEF Events!Pass, Delivered, Events!RecorderEnds
  <2>2. ToSet(eEvents') = ToSet(eEvents) \cup {eTaken}
    <3>1. eTaken \in Events!Event /\ eEvents \in Seq(Events!Event) /\ eEvents' = Append(eEvents, eTaken)
      BY <1>7, <2>1 DEF Events!Pass, EventsTyped
    <3>2. QED
      BY <3>1, SetOfAppend
  <2>3. QED
    BY <1>2, <1>3, <1>7, <2>2 DEF Events!Pass
<1>8. CASE Events!Relay
  <2>1. /\ ToSet(eEvents) = {Head(eEvents)} \cup ToSet(eEvents') /\ Head(eEvents) \in Events!Event
    BY <1>8, HeadTail DEF Events!Relay, EventsTyped
  <2>2. ToSet(eApp') = ToSet(eApp) \cup {Head(eEvents)}
    <3>1. Head(eEvents) \in Events!Event \cup Events!App /\ eApp \in Seq(Events!Event \cup Events!App)
      BY <2>1 DEF EventsTyped
    <3>2. QED
      BY <1>8, <3>1, SetOfAppend DEF Events!Relay
  <2>3. QED
    BY <1>3, <1>8, <2>1, <2>2 DEF Events!Relay
<1>9. CASE Events!RelayEnds
  <2>1. eEvents = <<>>
    BY <1>1, <1>9 DEF Events!RelayEnds, Delivered
  <2>2. QED
    BY <1>3, <1>9, <2>1 DEF Events!RelayEnds
<1>10. CASE Events!Forward
  <2>1. ToSet(eApp) = {Head(eApp)} \cup ToSet(eApp')
    BY <1>10, HeadTail DEF Events!Forward, EventsTyped
  <2>2. eReceived' = eReceived \cup {Events!Wire(Head(eApp))}
    BY <1>1, <1>10 DEF Events!Forward
  <2>3. UNCHANGED <<eRecorded, eTaken, eEvents, eSent>>
    BY <1>10 DEF Events!Forward
  <2>4. Events!Wire(e) \in eReceived \/ e \in OnItsWay
    BY <1>3, <2>3
  <2>5. QED
    BY <2>1, <2>2, <2>3, <2>4
<1>11. CASE Events!Tell
  <2>1. ToSet(eApp) \subseteq ToSet(eApp')
    <3>1. CASE eForwarder
      <4>1. PICK x \in Events!Event \cup Events!App : eApp' = Append(eApp, x)
        <5>1. <<"turn_complete">> \in Events!App /\ <<"token_usage">> \in Events!App
          BY DEF Events!App
        <5>2. QED
          BY <1>11, <3>1, <5>1 DEF Events!Tell, Events!Room
      <4>2. QED
        <5>1. eApp \in Seq(Events!Event \cup Events!App)
          BY DEF EventsTyped
        <5>2. ToSet(Append(eApp, x)) = ToSet(eApp) \cup {x}
          BY <4>1, <5>1, SetOfAppend
        <5>3. QED
          BY <4>1, <5>2
    <3>2. CASE ~eForwarder
      BY <1>11, <3>2 DEF Events!Tell
    <3>3. QED
      BY <3>1, <3>2
  <2>2. QED
    BY <1>3, <1>11, <2>1 DEF Events!Tell
<1>12. ASSUME NEW status \in {"success", "failed"}, Events!TurnEnds(status)
       PROVE  Events!Wire(e) \in eReceived' \/ e \in OnItsWay'
  BY <1>3, <1>12 DEF Events!TurnEnds, Events!channels
<1>13. QED
  BY <1>4, <1>5, <1>6, <1>7, <1>8, <1>9, <1>10, <1>11, <1>12, EventsKinds DEF Piped

LEMMA EventsDelivered ==
    ASSUME EventsTyped, Settled, Delivered, [Events!Next]_eventsVars
    PROVE  Delivered'
<1> DEFINE Closed == eClient /\ ~eRelay => Events!RecorderEnds /\ eEvents = <<>>
           Sent == eClient /\ ~eForwarder => ~eRelay /\ eApp = <<>> /\ ePc \in {"join", "done"}
           Silent == (eAnswer # "none" => ~eForwarder /\ ePc = "done") /\ ~eLate
           All == eAnswer \in {"complete", "error"} =>
                    /\ ~Events!RunOpen /\ eRecorded = <<>>
                    /\ \A e \in eSent : Events!Wire(e) \in eReceived
           Success == eAnswer = "complete" => eRun = "success"
<1>0. Delivered <=> /\ Closed /\ Sent /\ Silent /\ All /\ Success
                    /\ eClient => \A e \in eSent : Events!Wire(e) \in eReceived \/ e \in OnItsWay
  BY DEF Delivered
<1>1. Events!RunOpen' => Events!RunOpen
  BY EventsActors
<1>2. Closed' /\ Sent' /\ Silent' /\ All' /\ Success'
  <2> DEFINE Goal == Closed' /\ Sent' /\ Silent' /\ All' /\ Success'
  <2> USE <1>0, <1>1 DEF EventsTyped, Events!RecorderEnds
  <2>1. CASE Quiet
    BY <2>1 DEF Quiet
  <2>2. ASSUME NEW x \in Events!Event, Wrote(x) PROVE Goal
    BY <2>2 DEF Wrote
  <2>3. CASE Events!Take
    BY <2>3 DEF Events!Take, Events!tasks
  <2>4. CASE Events!Pass
    BY <2>4 DEF Events!Pass, Events!tasks, Events!stored
  <2>5. CASE Events!Relay
    BY <2>5 DEF Events!Relay, Events!tasks, Events!stored
  <2>6. CASE Events!RelayEnds
    BY <2>6 DEF Events!RelayEnds, Events!stored
  <2>7. CASE Events!Forward
    <3>1. eForwarder /\ eForwarder' = eClient /\ (eLate' <=> eLate \/ (eClient /\ eAnswer # "none"))
          /\ eApp # <<>> /\ UNCHANGED <<eRecorded, eTaken, eEvents, eRelay, eClient, ePc, eAnswer, eSent, eRun>>
      BY <2>7 DEF Events!Forward, Events!stored
    <3>2. eAnswer = "none" /\ ~eLate
      BY <3>1
    <3>3. Closed' /\ Sent' /\ Silent'
      BY <3>1, <3>2
    <3>4. All' /\ Success'
      BY <3>1, <3>2
    <3>5. QED
      BY <3>3, <3>4
  <2>8. CASE Events!ForwarderEnds
    BY <2>8 DEF Events!ForwarderEnds, Events!AppOpen, Events!channels, Events!stored
  <2>9. CASE Events!Disconnect
    BY <2>9 DEF Events!Disconnect, Events!channels, Events!tasks, Events!stored
  <2>10. CASE Events!Tell
    BY <2>10 DEF Events!Tell, Events!tasks, Events!stored
  <2>11. CASE Events!Answer
    <3>1. /\ ePc = "join" /\ ~eForwarder /\ ePc' = "done"
          /\ eAnswer' = IF ~eClient THEN "lost" ELSE IF eRun = "success" THEN "complete" ELSE "error"
          /\ UNCHANGED <<eCommands, eRecorded, eTaken, eEvents, eApp, ePassing, eRelay, eForwarder, eRun,
                         eClient, eReceived, eSent, eLate>>
      BY <2>11 DEF Events!Answer, Events!channels, Events!tasks, Events!stored
    <3>2. Closed' /\ Sent' /\ Silent' /\ Success'
      BY <3>1
    <3>3. ASSUME eAnswer' \in {"complete", "error"} PROVE All'
      <4>1. eClient /\ ~eRelay /\ eApp = <<>>
        BY <3>1, <3>3
      <4>2. ~Events!RunOpen /\ eRecorded = <<>> /\ eTaken = Events!NoEvent /\ eEvents = <<>>
        BY <4>1
      <4>3. OnItsWay = {Events!NoEvent}
        BY <4>1, <4>2 DEF OnItsWay, ToSet
      <4>4. \A e \in eSent : e # Events!NoEvent
        <5>1. \A e \in Events!Event : e # Events!NoEvent
          BY DEF Events!Event, Events!NoEvent
        <5>2. QED
          BY <5>1
      <4>5. \A e \in eSent : Events!Wire(e) \in eReceived
        BY <4>1, <4>3, <4>4
      <4>6. QED
        BY <1>1, <3>1, <4>2, <4>5
    <3>4. QED
      BY <3>2, <3>3
  <2>12. ASSUME NEW status \in {"success", "failed"}, Events!TurnEnds(status) PROVE Goal
    BY <2>12 DEF Events!TurnEnds, Events!channels, Events!tasks
  <2>13. QED
    BY <2>1, <2>2, <2>3, <2>4, <2>5, <2>6, <2>7, <2>8, <2>9, <2>10, <2>11, <2>12, EventsKinds DEF Piped
<1>3. QED
  BY <1>2, EventsWay DEF Delivered

LEMMA EventsWrites ==
    ASSUME EventsTyped, NEW c \in Events!Call, Stored(c), NEW e \in Events!Event, Wrote(e)
    PROVE  Stored(c)'
<1> DEFINE l == Len(eRecorded)
<1>1. /\ l \in Nat /\ Len(eRecorded') = l + 1 /\ eRecorded'[l + 1] = e /\ eSteps' = eSteps
      /\ \A n \in 1 .. l : eRecorded'[n] = eRecorded[n]
  BY DEF Wrote, Events!Write, EventsTyped
<1>2. eCalls[c] \in {"idle", "running", "waiting", "ended"} /\ eSteps[c] \in {"none", "running", "finished"}
  BY DEF EventsTyped
<1> HIDE DEF l
<1>3. \A n \in 1 .. l + 1 : n \in 1 .. l \/ n = l + 1
  BY <1>1
<1>4. \A n \in 1 .. l : n \in 1 .. l + 1 /\ n <= l + 1
  BY <1>1
<1>5. StartOf(c) # EndOf(c)
  BY DEF StartOf, EndOf
<1>6. l + 1 \in 1 .. l + 1 /\ l + 1 <= l + 1
  BY <1>1
<1>7. CASE e = StartOf(c) /\ eCalls[c] = "idle" /\ eCalls'[c] = "running"
  BY <1>1, <1>3, <1>4, <1>5, <1>6, <1>7 DEF Stored, l
<1>8. CASE e = EndOf(c) /\ eCalls[c] \in {"running", "waiting"} /\ eCalls'[c] = "ended"
  BY <1>1, <1>3, <1>4, <1>5, <1>6, <1>8 DEF Stored, l
<1>9. CASE e \notin {StartOf(c), EndOf(c)} /\ eCalls'[c] = eCalls[c]
  BY <1>1, <1>3, <1>4, <1>5, <1>6, <1>9 DEF Stored, l
<1>10. QED
  BY <1>7, <1>8, <1>9 DEF Wrote, TellsOf

LEMMA EventsTakes ==
    ASSUME EventsTyped, NEW c \in Events!Call, Stored(c), Events!Take, c \notin eMissed'
    PROVE  Stored(c)'
<1> DEFINE l == Len(eRecorded)
           e == Head(eRecorded)
<1>1. /\ l \in Nat /\ l > 0 /\ Len(eRecorded') = l - 1 /\ e = eRecorded[1] /\ e \in Events!Event
      /\ \A n \in 1 .. l - 1 : eRecorded'[n] = eRecorded[n + 1]
  BY DEF Events!Take, EventsTyped
<1>2. eCalls'[c] = eCalls[c] /\ eSteps[c] \in {"none", "running", "finished"}
  BY DEF EventsTyped, Events!Take
<1>0. \/ eMissed' = eMissed \cup {e[2]} /\ e[1] \in {"start", "end"} /\ eSteps' = eSteps
      \/ eSteps' = CASE e[1] = "start" -> Events!CreateStep(e[2])
                     [] e[1] = "end"   -> Events!UpdateStep(e[2])
                     [] OTHER          -> eSteps
  BY DEF Events!Take
<1>3. eSteps'[c] = IF e = StartOf(c) THEN "running"
                   ELSE IF e = EndOf(c) /\ eSteps[c] # "none" THEN "finished" ELSE eSteps[c]
  <2>1. e = <<e[1], e[2]>> /\ e[1] \in {"start", "end", "log", "exit"} /\ e[2] \in Events!Call
    BY <1>1 DEF Events!Event
  <2> HIDE DEF e
  <2>2. CASE eMissed' = eMissed \cup {e[2]} /\ eSteps' = eSteps
    <3>1. e[2] # c
      BY <2>2
    <3>2. e # StartOf(c) /\ e # EndOf(c)
      BY <3>1 DEF StartOf, EndOf
    <3>3. QED
      BY <2>2, <3>2
  <2>3. CASE e[1] = "start" /\ eSteps' = Events!CreateStep(e[2])
    BY <2>1, <2>3 DEF Events!CreateStep, StartOf, EndOf, EventsTyped
  <2>4. CASE e[1] = "end" /\ eSteps' = Events!UpdateStep(e[2])
    BY <2>1, <2>4 DEF Events!UpdateStep, StartOf, EndOf, EventsTyped
  <2>5. CASE e[1] \notin {"start", "end"} /\ eSteps' = eSteps
    BY <2>1, <2>5 DEF StartOf, EndOf, EventsTyped
  <2>6. QED
    BY <1>0, <2>1, <2>2, <2>3, <2>4, <2>5
<1> HIDE DEF l, e
<1>4. \A n \in 1 .. l - 1 : n + 1 \in 1 .. l /\ n + 1 # 1 /\ n \in Nat
  BY <1>1
<1>5. \A n \in 1 .. l : n = 1 \/ (n - 1 \in 1 .. l - 1 /\ (n - 1) + 1 = n)
  BY <1>1
<1>6. StartOf(c) # EndOf(c) /\ 1 \in 1 .. l
  BY <1>1 DEF StartOf, EndOf
<1>7. \A x : (\E n \in 1 .. l : eRecorded[n] = x) => e = x \/ \E n \in 1 .. l - 1 : eRecorded'[n] = x
  <2>1. SUFFICES ASSUME NEW n \in 1 .. l, eRecorded[n] # e
                 PROVE  \E k \in 1 .. l - 1 : eRecorded'[k] = eRecorded[n]
    OBVIOUS
  <2>2. n - 1 \in 1 .. l - 1 /\ (n - 1) + 1 = n
    BY <1>1, <1>5, <2>1
  <2>3. eRecorded'[n - 1] = eRecorded[n]
    BY <1>1, <2>2
  <2>4. QED
    BY <2>2, <2>3
<1>8. /\ eCalls[c] = "idle" => eSteps[c] = "none" /\ \A n \in 1 .. l : eRecorded[n] \notin {StartOf(c), EndOf(c)}
      /\ eCalls[c] # "idle" => eSteps[c] # "none" \/ \E n \in 1 .. l : eRecorded[n] = StartOf(c)
      /\ eCalls[c] = "ended" => eSteps[c] = "finished" \/ \E n \in 1 .. l : eRecorded[n] = EndOf(c)
      /\ \A n \in 1 .. l : eRecorded[n] = StartOf(c) =>
            eSteps[c] = "none" /\ \A k \in 1 .. l : eRecorded[k] \in {StartOf(c), EndOf(c)} => n <= k
  BY DEF Stored, l
<1>9. e = EndOf(c) => \A n \in 1 .. l : eRecorded[n] # StartOf(c)
  <2>1. SUFFICES ASSUME e = EndOf(c), NEW n \in 1 .. l, eRecorded[n] = StartOf(c) PROVE FALSE
    OBVIOUS
  <2>2. n <= 1
    BY <1>1, <1>6, <1>8, <2>1
  <2>3. n = 1
    BY <2>2
  <2>4. QED
    BY <1>1, <1>6, <2>1, <2>3
<1>10. e = StartOf(c) => \A n \in 1 .. l - 1 : eRecorded'[n] # StartOf(c)
  <2>1. SUFFICES ASSUME e = StartOf(c), NEW n \in 1 .. l - 1, eRecorded'[n] = StartOf(c) PROVE FALSE
    OBVIOUS
  <2>2. n + 1 \in 1 .. l /\ eRecorded[n + 1] = StartOf(c)
    BY <1>1, <1>4, <2>1
  <2>3. n + 1 <= 1
    BY <1>1, <1>6, <1>8, <2>1, <2>2
  <2>4. QED
    BY <1>4, <2>3
<1>11. /\ eCalls'[c] = "idle" => eSteps'[c] = "none" /\ \A n \in 1 .. l - 1 : eRecorded'[n] \notin {StartOf(c), EndOf(c)}
  BY <1>1, <1>2, <1>3, <1>4, <1>6, <1>8
<1>12. eCalls'[c] # "idle" => eSteps'[c] # "none" \/ \E n \in 1 .. l - 1 : eRecorded'[n] = StartOf(c)
  BY <1>2, <1>3, <1>7, <1>8
<1>13. eCalls'[c] = "ended" => eSteps'[c] = "finished" \/ \E n \in 1 .. l - 1 : eRecorded'[n] = EndOf(c)
  <2>1. CASE e = StartOf(c)
    <3>1. eRecorded[1] = StartOf(c)
      BY <1>1, <2>1
    <3>2. eSteps[c] = "none"
      BY <1>6, <1>8, <3>1
    <3>3. eCalls[c] = "ended" => \E n \in 1 .. l : eRecorded[n] = EndOf(c)
      BY <1>8, <3>2
    <3>4. QED
      BY <1>2, <1>6, <1>7, <2>1, <3>3
  <2>2. CASE e = EndOf(c)
    <3>1. eCalls[c] # "idle" => eSteps[c] # "none"
      BY <1>8, <1>9, <2>2
    <3>2. eSteps[c] # "none" => eSteps'[c] = "finished"
      BY <1>3, <1>6, <2>2
    <3>3. QED
      BY <1>2, <3>1, <3>2
  <2>3. CASE e \notin {StartOf(c), EndOf(c)}
    BY <1>2, <1>3, <1>7, <1>8, <2>3
  <2>4. QED
    BY <2>1, <2>2, <2>3
<1>14. ASSUME NEW n \in 1 .. l - 1, eRecorded'[n] = StartOf(c)
       PROVE  eSteps'[c] = "none" /\ \A k \in 1 .. l - 1 : eRecorded'[k] \in {StartOf(c), EndOf(c)} => n <= k
  <2>1. n + 1 \in 1 .. l /\ eRecorded[n + 1] = StartOf(c) /\ n \in Nat
    BY <1>1, <1>4, <1>14
  <2>2. eSteps[c] = "none" /\ e # StartOf(c)
    BY <1>8, <1>10, <1>14, <2>1
  <2>3. ASSUME NEW k \in 1 .. l - 1, eRecorded'[k] \in {StartOf(c), EndOf(c)} PROVE n <= k
    <3>1. k + 1 \in 1 .. l /\ eRecorded[k + 1] \in {StartOf(c), EndOf(c)} /\ k \in Nat
      BY <1>1, <1>4, <2>3
    <3>2. n + 1 <= k + 1
      BY <1>8, <2>1, <3>1
    <3>3. QED
      BY <2>1, <3>1, <3>2
  <2>4. QED
    BY <1>3, <2>2, <2>3
<1>15. QED
  BY <1>1, <1>11, <1>12, <1>13, <1>14 DEF Stored

LEMMA EventsStored ==
    ASSUME EventsTyped, Settled, [Events!Next]_eventsVars, NEW c \in Events!Call, Stored(c), c \notin eMissed'
    PROVE  Stored(c)'
<1>1. CASE Quiet
  BY <1>1 DEF Quiet, Stored
<1>2. CASE Piped /\ ~Events!Take
  <2>1. UNCHANGED <<eCalls, eRecorded, eSteps>>
    BY <1>2 DEF Piped, Events!Pass, Events!Relay, Events!RelayEnds, Events!Forward, Events!ForwarderEnds,
       Events!Tell, Events!Answer, Events!Disconnect, Events!TurnEnds, Events!channels, Events!stored
  <2>2. QED
    BY <2>1 DEF Stored
<1>3. QED
  BY <1>1, <1>2, EventsKinds, EventsWrites, EventsTakes

LEMMA EventsStepKeeps == EventsInv /\ [Events!Next]_eventsVars => EventsInv'
<1> SUFFICES ASSUME EventsInv, [Events!Next]_eventsVars PROVE EventsInv'
  OBVIOUS
<1>1. EventsTyped' /\ Settled' /\ Delivered'
  BY EventsTypes, EventsActors, EventsDelivered DEF EventsInv, ActorsKept
<1>2. \A c \in Events!Call \ eMissed' : Stored(c)'
  <2>1. eMissed \subseteq eMissed'
    BY EventsKinds DEF EventsInv, Quiet, Wrote, Piped, Events!Take, Events!Pass, Events!Relay, Events!RelayEnds,
       Events!Forward, Events!ForwarderEnds, Events!Tell, Events!Answer, Events!Disconnect, Events!TurnEnds,
       Events!stored
  <2>2. QED
    BY <2>1, EventsStored DEF EventsInv
<1>3. QED
  BY <1>1, <1>2 DEF EventsInv

LEMMA EventsSettle == EventsInv => Events!TypeOK /\ Events!AnswerLast /\ Events!CompleteIsStored
<1> SUFFICES ASSUME EventsInv PROVE Events!TypeOK /\ Events!AnswerLast /\ Events!CompleteIsStored
  OBVIOUS
<1>1. Events!TypeOK
  BY DEF EventsInv, EventsTyped, Events!TypeOK
<1>2. Events!AnswerLast
  BY DEF EventsInv, Delivered, Events!AnswerLast
<1>3. Events!CompleteIsStored
  <2>1. SUFFICES ASSUME eAnswer = "complete", NEW c \in Events!Call \ eMissed, eCalls[c] = "ended"
                 PROVE  eRun = "success" /\ eSteps[c] = "finished"
    BY DEF EventsInv, Delivered, Events!CompleteIsStored
  <2>2. eRun = "success" /\ Len(eRecorded) = 0
    BY <2>1 DEF EventsInv, Delivered
  <2>3. QED
    BY <2>1, <2>2 DEF EventsInv, Stored
<1>4. QED
  BY <1>1, <1>2, <1>3

(* The messages of a sub-agent are stored when what it said is passed on.    *)
LEMMA EventsLogs ==
    EventsInv /\ Events!Next => \A a \in eSaved : <<"log", a>> \in eSent' => <<"log", a>> \in eSent
<1> SUFFICES ASSUME EventsInv, Events!Next, NEW a \in eSaved, <<"log", a>> \in eSent'
             PROVE  <<"log", a>> \in eSent
  OBVIOUS
<1>1. a \notin ePassing
  BY DEF EventsInv, Settled
<1>2. ASSUME NEW b \in SubAgent, Events!PassOn(b) PROVE <<"log", a>> \in eSent
  <2>1. Head(eSub[b]) = <<"log", b>> /\ a # b
    BY <1>1, <1>2 DEF EventsInv, EventsTyped, Events!PassOn
  <2>2. eSent' = eSent \cup {<<"log", b>>}
    BY <1>2, <2>1 DEF Events!PassOn, Events!Write
  <2>3. QED
    BY <2>1, <2>2
<1>3. ASSUME NEW c \in Events!Call, Events!Start(c) \/ Events!Spawn(c) \/ Events!End(c) \/ Events!Exit(c)
      PROVE  <<"log", a>> \in eSent
  BY <1>3 DEF Events!Start, Events!Spawn, Events!End, Events!Exit, Events!Write
<1>4. ASSUME NEW b \in SubAgent,
             \/ Events!Say(b) \/ Events!PassedOn(b) \/ Events!SubTurnEnds(b) \/ Events!SubReturns(b)
             \/ Events!Timeout(b)
      PROVE  <<"log", a>> \in eSent
  BY <1>4 DEF Events!Say, Events!PassedOn, Events!SubTurnEnds, Events!SubReturns, Events!Timeout, Events!Write
<1>5. CASE Piped
  BY <1>5 DEF Piped, Events!Take, Events!Pass, Events!Relay, Events!RelayEnds, Events!Forward,
     Events!ForwarderEnds, Events!Tell, Events!Answer, Events!Disconnect, Events!TurnEnds
<1>6. QED
  BY <1>2, <1>3, <1>4, <1>5 DEF Events!Next, Piped
-----------------------------------------------------------------------------
(***************************************************************************)
(* The loop of the agent.                                                  *)
(***************************************************************************)
LEMMA RuntimeReply ==
    ASSUME NEW r \in Replies, NEW i \in 1 .. Budget
    PROVE  /\ r.text \in Text /\ r.calls \in Seq(Runtime!Call) /\ r.truncated \in BOOLEAN
           /\ Runtime!Assistant(i, r) \in Runtime!Message
           /\ Runtime!Assistant(i, r).kind = "assistant" /\ Runtime!Assistant(i, r).round = i
           /\ Runtime!Assistant(i, r).calls = r.calls /\ Runtime!Assistant(i, r).text = r.text
           /\ Runtime!Assistant(i, r).truncated = r.truncated
<1>1. r \in [text : Text, calls : Seq(Runtime!Call), truncated : BOOLEAN]
  BY EngineAssumption DEF Runtime!RuntimeAssumption, Runtime!Reply
<1>2. QED
  BY <1>1 DEF Runtime!Assistant, Runtime!Message

LEMMA RuntimeSignature ==
    /\ \A c \in Runtime!Call : Runtime!SignatureOf(c) \in Runtime!Signature
    /\ \A s \in Seq(Runtime!Call) : Runtime!Signatures(s) \in Seq(Runtime!Signature)
<1>1. ASSUME NEW c \in Runtime!Call PROVE Runtime!SignatureOf(c) \in Runtime!Signature
  BY DEF Runtime!Call, Runtime!SignatureOf, Runtime!Signature
<1>2. ASSUME NEW s \in Seq(Runtime!Call) PROVE Runtime!Signatures(s) \in Seq(Runtime!Signature)
  <2>1. DOMAIN s = 1 .. Len(s) /\ Len(s) \in Nat /\ \A k \in 1 .. Len(s) : s[k] \in Runtime!Call
    OBVIOUS
  <2>2. \A k \in 1 .. Len(s) : Runtime!SignatureOf(s[k]) \in Runtime!Signature
    BY <1>1, <2>1
  <2> HIDE DEF Runtime!SignatureOf
  <2>3. QED
    BY <2>1, <2>2 DEF Runtime!Signatures
<1>3. QED
  BY <1>1, <1>2

(* The count of the guard goes on from one call to the next.                 *)
Before(calls, k) == IF k = 1 THEN rLastCall ELSE Runtime!SignatureOf(calls[k - 1])
LEMMA Counted ==
    ASSUME NEW calls \in Seq(Runtime!Call), rDuplicates \in Nat
    PROVE  /\ Runtime!Counts(calls)[0] = rDuplicates
           /\ \A k \in 0 .. Len(calls) : Runtime!Counts(calls)[k] \in Nat
           /\ \A k \in 1 .. Len(calls) :
                 Runtime!Counts(calls)[k] =
                    IF Runtime!SignatureOf(calls[k]) = Before(calls, k)
                    THEN Runtime!Counts(calls)[k - 1] + 1 ELSE 0
<1> DEFINE n == Len(calls)
           Same(k) == Runtime!SignatureOf(calls[k]) = Before(calls, k)
           G == [k \in 1 .. n |-> [v \in Nat |-> IF Same(k) THEN v + 1 ELSE 0]]
           Is(f) == f = [k \in 0 .. n |-> IF k = 0 THEN rDuplicates ELSE IF Same(k) THEN f[k - 1] + 1 ELSE 0]
           F == CHOOSE f : Is(f)
<1>1. n \in Nat
  OBVIOUS
<1>2. Runtime!Counts(calls) = F
  BY DEF Runtime!Counts, Before
<1> HIDE DEF n, Same
<1>3. G \in [1 .. n -> [Nat -> Nat]]
  OBVIOUS
<1> HIDE DEF G, Is
<1>4. PICK g \in [0 .. n -> Nat] : g[0] = rDuplicates /\ \A k \in 1 .. n : g[k] = G[k][g[k - 1]]
  <2>1. Unfolds(n, Nat, rDuplicates, G)
    BY <1>1, <1>3, Recursion
  <2>2. QED
    BY <2>1 DEF Unfolds
<1>5. \A k \in 1 .. n : g[k] = IF Same(k) THEN g[k - 1] + 1 ELSE 0
  <2>1. TAKE k \in 1 .. n
  <2>2. k - 1 \in 0 .. n
    BY <1>1
  <2>3. g[k - 1] \in Nat
    BY <1>4, <2>2
  <2>4. QED
    BY <1>4, <2>3 DEF G
<1>6. Is(g)
  <2>1. ASSUME NEW k \in 0 .. n PROVE g[k] = IF k = 0 THEN rDuplicates ELSE IF Same(k) THEN g[k - 1] + 1 ELSE 0
    <3>1. k = 0 \/ k \in 1 .. n
      BY <1>1
    <3>2. QED
      BY <1>4, <1>5, <3>1
  <2>2. QED
    BY <2>1 DEF Is
<1>7. Is(F)
  BY <1>6
<1> HIDE DEF F
<1>8. F[0] = rDuplicates /\ \A k \in 1 .. n : F[k] = IF Same(k) THEN F[k - 1] + 1 ELSE 0
  <2>1. 0 \in 0 .. n /\ \A k \in 1 .. n : k \in 0 .. n /\ k # 0
    BY <1>1
  <2>2. QED
    BY <1>7, <2>1 DEF Is
<1> DEFINE S == {k \in Nat : k <= n => F[k] \in Nat}
<1>9. 0 \in S
  BY <1>8
<1>10. ASSUME NEW k \in S PROVE k + 1 \in S
  <2>1. SUFFICES ASSUME k + 1 <= n PROVE F[k + 1] \in Nat
    OBVIOUS
  <2>2. k \in Nat /\ k + 1 \in 1 .. n /\ (k + 1) - 1 = k /\ F[k] \in Nat
    BY <1>1, <2>1
  <2>3. F[k + 1] = IF Same(k + 1) THEN F[k] + 1 ELSE 0
    BY <1>8, <2>2
  <2>4. QED
    BY <2>2, <2>3
<1>11. S = Nat
  <2>1. S \in SUBSET Nat
    OBVIOUS
  <2> HIDE DEF S
  <2>2. QED
    BY <1>9, <1>10, <2>1, SetInduction
<1>12. \A k \in 0 .. n : F[k] \in Nat
  BY <1>1, <1>11
<1>13. QED
  BY <1>2, <1>8, <1>12 DEF n, Same

(* The results of the calls 1 .. n of a round, whatever order they came in.  *)
OneEach(rs, n, i) ==
    /\ \A m \in 1 .. Len(rs) : \E k \in 1 .. n : rs[m].call = <<i, k>>
    /\ \A k \in 1 .. n : \E m \in 1 .. Len(rs) : rs[m].call = <<i, k>>
    /\ \A m, o \in 1 .. Len(rs) : rs[m].call = rs[o].call => m = o
ByCall(s, rs, n, i) ==
    /\ s \in Seq(Runtime!Result) /\ Len(s) = n
    /\ \A k \in 1 .. n : s[k].call = <<i, k>>
    /\ ToSet(s) = ToSet(rs)
LEMMA Ordered ==
    ASSUME NEW rs \in Seq(Runtime!Result), NEW n \in Nat, NEW i, OneEach(rs, n, i)
    PROVE  ByCall(Runtime!InOrder(rs), rs, n, i)
<1> DEFINE l == Len(rs)
           p == [k \in 1 .. n |-> CHOOSE m \in 1 .. l : rs[m].call = <<i, k>>]
           Rising(s) == \A j, k \in DOMAIN rs : j < k => s[j].call[2] < s[k].call[2]
<1>0. /\ \A m \in 1 .. Len(rs) : \E k \in 1 .. n : rs[m].call = <<i, k>>
      /\ \A k \in 1 .. n : \E m \in 1 .. Len(rs) : rs[m].call = <<i, k>>
      /\ \A m, o \in 1 .. Len(rs) : rs[m].call = rs[o].call => m = o
  BY DEF OneEach
<1> USE <1>0
<1>1. l \in Nat /\ DOMAIN rs = 1 .. l /\ \A m \in 1 .. l : rs[m] \in Runtime!Result
  OBVIOUS
<1>2. ToSet(rs) = {rs[m] : m \in 1 .. l}
  BY SetOf
<1>3. \A k \in 1 .. n : p[k] \in 1 .. l /\ rs[p[k]].call = <<i, k>>
  OBVIOUS
<1> HIDE DEF p
<1>4. p \in Bijection(1 .. n, 1 .. l)
  <2>1. p \in [1 .. n -> 1 .. l]
    BY <1>3 DEF p
  <2>2. ASSUME NEW j \in 1 .. n, NEW k \in 1 .. n, p[j] = p[k] PROVE j = k
    <3>1. <<i, j>> = <<i, k>>
      BY <1>3, <2>2
    <3>2. QED
      BY <3>1
  <2>3. ASSUME NEW m \in 1 .. l PROVE \E k \in 1 .. n : p[k] = m
    <3>1. PICK k \in 1 .. n : rs[m].call = <<i, k>>
      OBVIOUS
    <3>2. rs[p[k]].call = rs[m].call /\ p[k] \in 1 .. l
      BY <1>3, <3>1
    <3>3. QED
      BY <3>2
  <2>4. QED
    BY <2>1, <2>2, <2>3 DEF Bijection, Injection, Surjection, IsInjective
<1>5. l = n
  <2>1. IsFiniteSet(1 .. n) /\ Cardinality(1 .. n) = n /\ Cardinality(1 .. l) = l
    <3>1. 1 \in Int /\ n \in Int /\ l \in Int
      BY <1>1
    <3>2. Cardinality(1 .. n) = (IF 1 > n THEN 0 ELSE n - 1 + 1) /\ IsFiniteSet(1 .. n)
      BY <3>1, FS_Interval
    <3>3. Cardinality(1 .. l) = (IF 1 > l THEN 0 ELSE l - 1 + 1)
      BY <3>1, FS_Interval
    <3>4. QED
      BY <1>1, <3>2, <3>3
  <2>2. Cardinality(1 .. l) = Cardinality(1 .. n)
    BY <1>4, <2>1, FS_Bijection DEF ExistsBijection
  <2>3. QED
    BY <2>1, <2>2
<1> HIDE DEF l
<1> DEFINE f == [k \in 1 .. l |-> rs[p[k]]]
<1>6. f \in [1 .. l -> ToSet(rs)] /\ Rising(f)
  <2>1. \A k \in 1 .. l : p[k] \in 1 .. l /\ rs[p[k]].call = <<i, k>>
    BY <1>3, <1>5
  <2>2. \A k \in 1 .. l : rs[p[k]] \in ToSet(rs)
    BY <1>2, <2>1
  <2>3. f \in [1 .. l -> ToSet(rs)]
    BY <2>2
  <2>4. \A k \in 1 .. l : f[k].call[2] = k
    BY <2>1
  <2> HIDE DEF f
  <2>5. Rising(f)
    BY <1>1, <2>4
  <2>6. QED
    BY <2>3, <2>5
<1> DEFINE s == Runtime!InOrder(rs)
<1>7. s \in [1 .. l -> ToSet(rs)] /\ Rising(s)
  <2>1. s = CHOOSE g \in [DOMAIN rs -> ToSet(rs)] : Rising(g)
    BY DEF Runtime!InOrder, Runtime!ToSet, ToSet
  <2> HIDE DEF f, s, Rising
  <2>2. f \in [DOMAIN rs -> ToSet(rs)]
    BY <1>1, <1>6
  <2>3. s \in [DOMAIN rs -> ToSet(rs)] /\ Rising(s)
    BY <1>6, <2>1, <2>2
  <2>4. QED
    BY <1>1, <2>3
<1> HIDE DEF s
<1> HIDE DEF Rising
<1>8. \A k \in 1 .. n : \E m, o \in 1 .. n : s[k] = rs[m] /\ s[k].call = <<i, o>>
  <2>1. TAKE k \in 1 .. n
  <2>2. s[k] \in ToSet(rs)
    BY <1>5, <1>7
  <2>3. PICK m \in 1 .. n : s[k] = rs[m]
    BY <1>2, <1>5, <2>2
  <2>4. \A x \in 1 .. n : \E o \in 1 .. n : rs[x].call = <<i, o>>
    BY <1>5 DEF l
  <2>5. PICK o \in 1 .. n : rs[m].call = <<i, o>>
    BY <2>4
  <2>6. QED
    BY <2>3, <2>5
<1> HIDE <1>0
<1> DEFINE q == [k \in 1 .. n |-> s[k].call[2]]
<1>9. q \in [1 .. n -> 1 .. n] /\ \A j, k \in 1 .. n : j < k => q[j] < q[k]
  <2>1. \A k \in 1 .. n : s[k].call[2] \in 1 .. n
    <3>1. TAKE k \in 1 .. n
    <3>2. PICK o \in 1 .. n : s[k].call = <<i, o>>
      BY <1>8
    <3>3. QED
      BY <3>2
  <2>2. QED
    BY <1>1, <1>5, <1>7, <2>1 DEF Rising
<1> HIDE DEF q
<1>10. \A k \in 1 .. n : q[k] = k
  BY <1>9, Increasing
<1>11. \A k \in 1 .. n : s[k].call = <<i, k>>
  <2>1. TAKE k \in 1 .. n
  <2>2. PICK o \in 1 .. n : s[k].call = <<i, o>>
    BY <1>8
  <2>3. o = k
    BY <1>10, <2>2 DEF q
  <2>4. QED
    BY <2>2, <2>3
<1>12. s \in Seq(Runtime!Result) /\ Len(s) = n
  <2>1. \A k \in 1 .. n : s[k] \in Runtime!Result
    BY <1>1, <1>2, <1>5, <1>7
  <2>2. s \in [1 .. n -> Runtime!Result]
    BY <1>5, <1>7, <2>1
  <2>3. QED
    BY <2>2
<1>13. ToSet(s) = ToSet(rs)
  <2>1. ToSet(s) = {s[k] : k \in 1 .. n}
    BY <1>12, SetOf
  <2>2. ASSUME NEW m \in 1 .. n PROVE rs[m] \in ToSet(s)
    <3>1. PICK k \in 1 .. n : rs[m].call = <<i, k>>
      BY <1>0, <1>5 DEF l
    <3>2. PICK o \in 1 .. n : s[k] = rs[o]
      BY <1>8
    <3>3. rs[o].call = rs[m].call
      BY <1>11, <3>1, <3>2
    <3>4. o = m
      BY <1>0, <1>5, <3>3 DEF l
    <3>5. QED
      BY <2>1, <3>2, <3>4
  <2>3. ToSet(rs) = {rs[m] : m \in 1 .. n}
    BY <1>2, <1>5
  <2>4. \A k \in 1 .. n : s[k] \in ToSet(rs)
    BY <1>5, <1>7
  <2>5. ToSet(s) \subseteq ToSet(rs)
    BY <2>1, <2>4
  <2>6. ToSet(rs) \subseteq ToSet(s)
    BY <2>2, <2>3
  <2>7. QED
    BY <2>5, <2>6
<1>14. QED
  BY <1>11, <1>12, <1>13 DEF s, ByCall
-----------------------------------------------------------------------------
(* While tools run, their reply is the last message; each of its calls runs  *)
(* or has one result.                                                       *)
LastSaid == rMessages[Len(rMessages)]
Working ==
    rPc = "tools" =>
      /\ rMessages # <<>> /\ rContext # <<>> /\ rContext[Len(rContext)] = LastSaid
      /\ Runtime!Calls(LastSaid) /\ LastSaid.round = rIteration
      /\ rRunning \subseteq DOMAIN LastSaid.calls
      /\ \A n \in 1 .. Len(rResults) : \E k \in DOMAIN LastSaid.calls \ rRunning : rResults[n].call = <<rIteration, k>>
      /\ \A k \in DOMAIN LastSaid.calls \ rRunning : \E n \in 1 .. Len(rResults) : rResults[n].call = <<rIteration, k>>
      /\ \A m, n \in 1 .. Len(rResults) : rResults[m].call = rResults[n].call => m = n
RuntimeTyped ==
    /\ Runtime!TypeOK
    /\ rPc \in {"request", "stream", "tools"} => rIteration # 0
(* The results of a round follow its calls, in the messages of the turn and  *)
(* in what the model is sent, which differ by the questions to continue.    *)
Chain(s, open) ==
    \A n \in 1 .. Len(s) :
       /\ s[n].kind = "results" => n > 1 /\ Runtime!Calls(s[n - 1]) /\ Runtime!Answers(s[n], s[n - 1])
       /\ Runtime!Calls(s[n]) => IF n = Len(s) THEN open ELSE s[n + 1].kind = "results"
Without(m) == IF m = Runtime!Continue THEN <<>> ELSE <<m>>
Remembered(s) == FlattenSeq([n \in DOMAIN s |-> Without(s[n])])
Followed ==
    /\ Chain(rMessages, rPc = "tools") /\ Chain(rContext, rPc = "tools")
    /\ rContext # <<>> /\ rPc \in {"top", "request", "stream"} => rContext[Len(rContext)].kind # "assistant"
    /\ rOutcome # "failed" => rMessages = Remembered(rContext)
(* A reply that was cut is followed by the question to go on, and nothing of *)
(* it is executed: its iteration is over when the next one begins.           *)
RoundsIn(s, x, i) ==
    /\ \A n \in 1 .. Len(s) : s[n].kind = "assistant" => s[n].round \in 0 .. i
    /\ \A c \in x : c[1] \in 0 .. i
CutsDone(s, x) ==
    \A n \in 1 .. Len(s) : Runtime!Cut(s[n]) =>
       /\ n < Len(s) /\ s[n + 1] = Runtime!Continue
       /\ \A c \in x : c[1] # s[n].round
EndedRounds == IF rPc \in {"request", "stream"} THEN rIteration - 1 ELSE rIteration
CutsAsked == RoundsIn(rContext, rExecuted, EndedRounds) /\ CutsDone(rContext, rExecuted)
(* A call was executed if a result says so, or if it runs.                   *)
Recorded(c) ==
    \E n \in 1 .. Len(rMessages) :
       /\ rMessages[n].kind = "results"
       /\ \E k \in DOMAIN rMessages[n].results : rMessages[n].results[k].ran /\ rMessages[n].results[k].call = c
InWork(c) ==
    \/ \E k \in rRunning : c = <<rIteration, k>>
    \/ \E n \in 1 .. Len(rResults) : rResults[n].ran /\ rResults[n].call = c
Executed ==
    /\ rOutcome # "failed" => \A c : c \in rExecuted <=> Recorded(c) \/ (rPc = "tools" /\ InWork(c))
    /\ rPc = "top" /\ rIteration # 0 => rMessages # <<>>
    /\ rOutcome \in {"completed", "stalled", "limit"} => rMessages # <<>>
(* The replies are numbered; where the reply of an iteration is, and whether *)
(* its calls were all executed.                                              *)
RepliesIn(ms) == {n \in 1 .. Len(ms) : ms[n].kind = "assistant"}
Numbers(ms, k) ==
    /\ \A n \in RepliesIn(ms) : ms[n].round \in 1 .. k
    /\ \A m, n \in RepliesIn(ms) : ms[m].round = ms[n].round => m = n
    /\ \A i \in 1 .. k : \E n \in RepliesIn(ms) : ms[n].round = i
At(ms, i) == CHOOSE n \in DOMAIN ms : ms[n].kind = "assistant" /\ ms[n].round = i
AllRan(m) == \A k \in DOMAIN m.results : m.results[k].ran
Full(ms, i) == Runtime!Calls(ms[At(ms, i)]) /\ At(ms, i) < Len(ms) /\ AllRan(ms[At(ms, i) + 1])
RoundAt(ms, i) == Runtime!Round(ms[At(ms, i)])
Same(ms, i, j) == \A n \in i .. j : Full(ms, n) /\ RoundAt(ms, n) = RoundAt(ms, i)
Spoken == Cardinality(RepliesIn(rMessages))
Numbered ==
    /\ Numbers(rMessages, Spoken)
    /\ rPc \in {"top", "tools"} => Spoken = rIteration
    /\ rPc \in {"request", "stream"} => Spoken = rIteration - 1
(* The guard has counted the rounds that repeat the last one compared.       *)
Compared == IF rPc = "tools" THEN Spoken - 1 ELSE Spoken
Stalling ==
    GuardEnabled =>
        \A i \in 1 .. Compared :
           Same(rMessages, i, Compared) =>
              rLastRound = RoundAt(rMessages, i) /\ rStalled >= Compared - i
Stalls ==
    GuardEnabled =>
        \A i \in 1 .. Spoken - MaxStalled :
           Same(rMessages, i, i + MaxStalled) => rOutcome = "stalled" /\ Spoken = i + MaxStalled
(* It has counted the calls before the last one judged with its signature;   *)
(* the calls of the reply in work are judged.                               *)
Decision == [call : Runtime!Call, ran : BOOLEAN]
Rulings(ms, n) ==
    IF ms[n].kind = "results"
    THEN [k \in DOMAIN ms[n].results |-> [call |-> ms[n - 1].calls[k], ran |-> ms[n].results[k].ran]]
    ELSE <<>>
JudgedIn(ms) == FlattenSeq([n \in DOMAIN ms |-> Rulings(ms, n)])
Ran(k) == k \in rRunning \/ \E n \in 1 .. Len(rResults) : rResults[n].call = <<rIteration, k>> /\ rResults[n].ran
Verdicts == [k \in DOMAIN LastSaid.calls |-> [call |-> LastSaid.calls[k], ran |-> Ran(k)]]
Sofar == IF rPc = "tools" THEN JudgedIn(rMessages) \o Verdicts ELSE JudgedIn(rMessages)
Signed(s) == [n \in 1 .. Len(s) |-> Runtime!SignatureOf(s[n].call)]
Streak(g, n, d) ==
    /\ d \in 0 .. n - 1 /\ \A k \in n - d .. n : g[k] = g[n]
    /\ n - d > 1 => g[n - d - 1] # g[n]
Differs(g, n) == n <= MaxDuplicates \/ \E k \in n - MaxDuplicates .. n : g[k] # g[n]
Refuses(s) == \A n \in 1 .. Len(s) : s[n].ran <=> Differs(Signed(s), n)
Guarded(s, last, count) ==
    /\ IF s = <<>> THEN last = Nothing /\ count = 0
       ELSE last = Signed(s)[Len(s)] /\ Streak(Signed(s), Len(s), count)
    /\ RejectMode => Refuses(s)
Judging ==
    /\ rOutcome # "failed" /\ GuardEnabled => Guarded(Sofar, rLastCall, rDuplicates)
    /\ rOutcome = "failed" => rMessages = <<>>
RuntimeInv ==
    /\ RuntimeTyped /\ Working /\ Followed /\ CutsAsked
    /\ Executed /\ Numbered /\ Stalling /\ Stalls /\ Judging

(* The steps that neither say nor do anything.                               *)
Still ==
    /\ UNCHANGED <<rMessages, rContext, rRunning, rResults, rLastCall, rDuplicates, rLastRound, rStalled, rExecuted>>
    /\ \/ UNCHANGED <<rPc, rIteration, rOutcome>>
       \/ /\ rPc = "top" /\ rPc' = "request" /\ rIteration < Budget /\ rIteration' = rIteration + 1
          /\ UNCHANGED rOutcome
       \/ rPc = "request" /\ rPc' = "stream" /\ UNCHANGED <<rIteration, rOutcome>>
       \/ /\ rPc \in {"top", "stream"} /\ rPc' = "end" /\ UNCHANGED rIteration
          /\ rOutcome' = "stopped" \/ (rOutcome' = "limit" /\ rPc = "top" /\ rIteration = Budget)

LEMMA RuntimeKinds ==
    ASSUME [Runtime!Next]_runtimeVars
    PROVE  \/ Still \/ Runtime!ProviderFails \/ Runtime!Collect
           \/ \E r \in Replies : Runtime!AskToContinue(r) \/ Runtime!Complete(r) \/ Runtime!StartTools(r)
           \/ \E k \in rRunning : Runtime!ToolEnds(k)
<1> USE DEF Runtime!said, Runtime!work, Runtime!guard, Runtime!End
<1>1. CASE UNCHANGED runtimeVars
  BY <1>1 DEF runtimeVars, Still
<1>2. CASE Runtime!Iterate
  BY <1>2 DEF Runtime!Iterate, Still
<1>3. CASE Runtime!StopAtTop \/ Runtime!BudgetReached \/ Runtime!StopInStream
  BY <1>3 DEF Runtime!StopAtTop, Runtime!BudgetReached, Runtime!StopInStream, Still
<1>4. CASE Runtime!Stream
  BY <1>4 DEF Runtime!Stream, Still
<1>5. CASE Runtime!Cancel
  BY <1>5 DEF Runtime!Cancel, Still
<1>6. QED
  BY <1>1, <1>2, <1>3, <1>4, <1>5 DEF Runtime!Next, Runtime!Step, Runtime!Answer

LEMMA RuntimeConstants ==
    /\ Budget \in Nat \ {0} /\ MaxDuplicates \in Nat \ {0} /\ MaxStalled \in Nat \ {0}
    /\ Nothing \notin Runtime!Signature \cup (Text \X Seq(Runtime!Signature))
BY EngineAssumption DEF Runtime!RuntimeAssumption

(* What Collect adds.                                                        *)
LEMMA Collected ==
    ASSUME RuntimeTyped, Working, rPc = "tools", rRunning = {}
    PROVE  LET rs == Runtime!InOrder(rResults)
           IN  /\ LastSaid \in Runtime!Message /\ LastSaid.kind = "assistant"
               /\ LastSaid.calls \in Seq(Runtime!Call) /\ LastSaid.text \in Text
               /\ rs \in Seq(Runtime!Result) /\ Len(rs) = Len(LastSaid.calls)
               /\ \A k \in 1 .. Len(LastSaid.calls) : rs[k].call = <<rIteration, k>>
               /\ ToSet(rs) = ToSet(rResults)
<1>1. rMessages \in Seq(Runtime!Message) /\ rMessages # <<>> /\ rResults \in Seq(Runtime!Result)
  BY DEF RuntimeTyped, Runtime!TypeOK, Working
<1>2. LastSaid \in Runtime!Message /\ LastSaid.kind = "assistant"
  <2> HIDE DEF Runtime!Message
  <2>1. LastSaid \in Runtime!Message
    BY <1>1 DEF LastSaid
  <2>2. QED
    BY <2>1 DEF Working, Runtime!Calls
<1>3. LastSaid.calls \in Seq(Runtime!Call) /\ LastSaid.text \in Text
  BY <1>2 DEF Runtime!Message
<1>4. DOMAIN LastSaid.calls = 1 .. Len(LastSaid.calls) /\ Len(LastSaid.calls) \in Nat
  BY <1>3
<1>5. /\ \A n \in 1 .. Len(rResults) : \E k \in 1 .. Len(LastSaid.calls) : rResults[n].call = <<rIteration, k>>
      /\ \A k \in 1 .. Len(LastSaid.calls) : \E n \in 1 .. Len(rResults) : rResults[n].call = <<rIteration, k>>
      /\ \A m, n \in 1 .. Len(rResults) : rResults[m].call = rResults[n].call => m = n
  BY <1>4 DEF Working
<1>6. LET rs == Runtime!InOrder(rResults)
      IN  /\ rs \in Seq(Runtime!Result) /\ Len(rs) = Len(LastSaid.calls)
          /\ \A k \in 1 .. Len(LastSaid.calls) : rs[k].call = <<rIteration, k>>
          /\ ToSet(rs) = ToSet(rResults)
  <2> DEFINE n == Len(LastSaid.calls)
  <2>1. n \in Nat /\ rResults \in Seq(Runtime!Result)
    BY <1>1, <1>4
  <2>2. /\ \A m \in 1 .. Len(rResults) : \E k \in 1 .. n : rResults[m].call = <<rIteration, k>>
        /\ \A k \in 1 .. n : \E m \in 1 .. Len(rResults) : rResults[m].call = <<rIteration, k>>
        /\ \A m, o \in 1 .. Len(rResults) : rResults[m].call = rResults[o].call => m = o
    BY <1>5
  <2> HIDE DEF n
  <2>3. OneEach(rResults, n, rIteration)
    BY <2>2 DEF OneEach
  <2>4. ByCall(Runtime!InOrder(rResults), rResults, n, rIteration)
    BY <2>1, <2>3, Ordered
  <2>5. QED
    BY <2>4 DEF n, ByCall
<1>7. QED
  BY <1>2, <1>3, <1>6

LEMMA RuntimeTypes ==
    ASSUME RuntimeTyped, Working, [Runtime!Next]_runtimeVars
    PROVE  RuntimeTyped'
<1> USE RuntimeConstants DEF RuntimeTyped
<1> HIDE DEF Runtime!Message, Runtime!Result, Runtime!Signature, Runtime!Call, Runtime!CallId
<1>0. rCancelled' \in BOOLEAN
  BY DEF Runtime!TypeOK, Runtime!Next, Runtime!Step, Runtime!Iterate, Runtime!StopAtTop, Runtime!BudgetReached,
     Runtime!Stream, Runtime!ProviderFails, Runtime!StopInStream, Runtime!Collect, Runtime!Answer,
     Runtime!AskToContinue, Runtime!Complete, Runtime!StartTools, Runtime!ToolEnds, Runtime!Cancel, runtimeVars
<1>1. CASE Still
  BY <1>0, <1>1 DEF Still, Runtime!TypeOK
<1>2. CASE Runtime!ProviderFails
  <2>1. <<>> \in Seq(Runtime!Message)
    OBVIOUS
  <2>2. QED
    BY <1>0, <1>2, <2>1 DEF Runtime!ProviderFails, Runtime!End, Runtime!work, Runtime!guard, Runtime!TypeOK
<1>3. rPc \in {"request", "stream", "tools"} => rIteration \in 1 .. Budget
  BY DEF Runtime!TypeOK
<1>4. ASSUME NEW r \in Replies, Runtime!AskToContinue(r) PROVE RuntimeTyped'
  <2> DEFINE a == Runtime!Assistant(rIteration, r)
  <2>1. a \in Runtime!Message /\ rMessages' = Append(rMessages, a)
        /\ rContext' = rContext \o <<a, Runtime!Continue>>
    BY <1>3, <1>4, RuntimeReply DEF Runtime!AskToContinue
  <2> HIDE DEF a
  <2>2. rMessages' \in Seq(Runtime!Message)
    BY <2>1 DEF Runtime!TypeOK
  <2>3. rContext' \in Seq(Runtime!Message \cup {Runtime!Continue})
    <3> DEFINE V == Runtime!Message \cup {Runtime!Continue}
    <3>1. a \in V /\ Runtime!Continue \in V /\ rContext \in Seq(V)
      BY <2>1 DEF Runtime!TypeOK
    <3> HIDE DEF V, Runtime!Continue
    <3>2. <<a, Runtime!Continue>> \in Seq(V)
      BY <3>1
    <3>3. QED
      BY <2>1, <3>1, <3>2, ConcatProperties DEF V
  <2>4. QED
    BY <1>0, <1>4, <2>2, <2>3 DEF Runtime!AskToContinue, Runtime!work, Runtime!guard, Runtime!TypeOK
<1>5. ASSUME NEW m \in Runtime!Message, Runtime!Say(m)
      PROVE  rMessages' \in Seq(Runtime!Message) /\ rContext' \in Seq(Runtime!Message \cup {Runtime!Continue})
  <2>1. rMessages' \in Seq(Runtime!Message)
    BY <1>5 DEF Runtime!TypeOK, Runtime!Say
  <2>2. rContext' \in Seq(Runtime!Message \cup {Runtime!Continue})
    <3> DEFINE V == Runtime!Message \cup {Runtime!Continue}
    <3>1. m \in V /\ rContext \in Seq(V) /\ rContext' = Append(rContext, m)
      BY <1>5 DEF Runtime!TypeOK, Runtime!Say
    <3> HIDE DEF V
    <3>2. rContext' \in Seq(V)
      BY <3>1
    <3>3. QED
      BY <3>2 DEF V
  <2>3. QED
    BY <2>1, <2>2
<1>6. ASSUME NEW r \in Replies, Runtime!Complete(r) PROVE RuntimeTyped'
  <2>1. rMessages' \in Seq(Runtime!Message) /\ rContext' \in Seq(Runtime!Message \cup {Runtime!Continue})
    BY <1>3, <1>5, <1>6, RuntimeReply DEF Runtime!Complete
  <2>2. QED
    BY <1>0, <1>6, <2>1 DEF Runtime!Complete, Runtime!End, Runtime!work, Runtime!guard, Runtime!TypeOK
<1>7. ASSUME NEW r \in Replies, Runtime!StartTools(r) PROVE RuntimeTyped'
  <2>1. rMessages' \in Seq(Runtime!Message) /\ rContext' \in Seq(Runtime!Message \cup {Runtime!Continue})
    BY <1>3, <1>5, <1>7, RuntimeReply DEF Runtime!StartTools
  <2>2. r.calls \in Seq(Runtime!Call) /\ r.calls # <<>> /\ Len(r.calls) \in 1 .. Len(r.calls) /\ Len(r.calls) \in Nat
        /\ DOMAIN r.calls = 1 .. Len(r.calls)
    BY <1>7, RuntimeReply DEF Runtime!StartTools
  <2>3. rLastCall' \in Runtime!Signature \cup {Nothing} /\ rDuplicates' \in Nat
    <3>1. Runtime!SignatureOf(r.calls[Len(r.calls)]) \in Runtime!Signature
      BY <2>2, RuntimeSignature
    <3>2. Runtime!Counts(r.calls)[Len(r.calls)] \in Nat
      <4>1. rDuplicates \in Nat /\ Len(r.calls) \in 0 .. Len(r.calls)
        BY <2>2 DEF Runtime!TypeOK
      <4>2. QED
        BY <2>2, <4>1, Counted
    <3>3. Runtime!Judge(r.calls)
      BY <1>7 DEF Runtime!StartTools
    <3>4. QED
      BY <3>1, <3>2, <3>3 DEF Runtime!Judge, Runtime!TypeOK
  <2>4. rRunning' \in SUBSET (Nat \ {0})
    BY <1>7, <2>2 DEF Runtime!StartTools
  <2>5. \A k \in 1 .. Len(r.calls) : <<rIteration, k>> \in Runtime!CallId
    BY <1>3, <1>7 DEF Runtime!StartTools, Runtime!CallId
  <2>6. rExecuted' \in SUBSET Runtime!CallId
    BY <1>7, <2>2, <2>5 DEF Runtime!StartTools, Runtime!TypeOK
  <2>7. rResults' \in Seq(Runtime!Result)
    <3> DEFINE ss == [k \in 1 .. Len(r.calls) |->
                        IF k \in Runtime!Rejected(r.calls) THEN <<Runtime!Entry(k, FALSE)>> ELSE <<>>]
    <3>1. \A k \in 1 .. Len(r.calls) : Runtime!Entry(k, FALSE) \in Runtime!Result
      BY <2>5 DEF Runtime!Entry, Runtime!Result
    <3>2. \A k \in 1 .. Len(r.calls) : ss[k] \in Seq(Runtime!Result)
      <4>1. TAKE k \in 1 .. Len(r.calls)
      <4>2. Runtime!Entry(k, FALSE) \in Runtime!Result
        BY <3>1
      <4>3. <<>> \in Seq(Runtime!Result) /\ \A e \in Runtime!Result : <<e>> \in Seq(Runtime!Result)
        OBVIOUS
      <4>4. <<Runtime!Entry(k, FALSE)>> \in Seq(Runtime!Result)
        BY <4>2, <4>3
      <4>5. QED
        BY <4>3, <4>4
    <3>3. ss \in Seq(Seq(Runtime!Result))
      <4> DEFINE n == Len(r.calls)
                 V == Seq(Runtime!Result)
      <4>1. n \in Nat /\ \A k \in 1 .. n : ss[k] \in V
        BY <2>2, <3>2
      <4> HIDE DEF V
      <4>2. ss = [k \in 1 .. n |-> ss[k]]
        OBVIOUS
      <4> HIDE DEF ss, n
      <4>3. ss \in [1 .. n -> V]
        BY <4>1, <4>2
      <4>4. ss \in Seq(V)
        BY <4>1, <4>3
      <4>5. QED
        BY <4>4 DEF V
    <3>4. rResults' = FlattenSeq(ss)
      BY <1>7, <2>2 DEF Runtime!StartTools, Runtime!FlattenSeq, FlattenSeq
    <3>5. QED
      BY <3>3, <3>4, Flatten
  <2>8. QED
    BY <1>0, <1>3, <1>7, <2>1, <2>3, <2>4, <2>6, <2>7 DEF Runtime!StartTools, Runtime!TypeOK
<1>8. ASSUME NEW k \in rRunning, Runtime!ToolEnds(k) PROVE RuntimeTyped'
  <2>1. <<rIteration, k>> \in Runtime!CallId
    BY <1>3, <1>8 DEF Runtime!ToolEnds, Runtime!TypeOK, Runtime!CallId
  <2>2. Runtime!Entry(k, TRUE) \in Runtime!Result
    BY <2>1 DEF Runtime!Entry, Runtime!Result
  <2>3. rResults' \in Seq(Runtime!Result)
    <3>1. rResults \in Seq(Runtime!Result) /\ rResults' = Append(rResults, Runtime!Entry(k, TRUE))
      BY <1>8 DEF Runtime!ToolEnds, Runtime!TypeOK
    <3> HIDE DEF Runtime!Entry
    <3>2. QED
      BY <2>2, <3>1, AppendProperties
  <2>4. QED
    BY <1>0, <1>3, <1>8, <2>3 DEF Runtime!ToolEnds, Runtime!said, Runtime!guard, Runtime!TypeOK
<1>9. CASE Runtime!Collect
  <2> DEFINE m == Runtime!Results(Runtime!InOrder(rResults))
             round == Runtime!Round(LastSaid)
             compared == \A n \in DOMAIN rResults : rResults[n].ran
  <2>1. /\ rPc = "tools" /\ rRunning = {} /\ Runtime!Say(m) /\ rResults' = <<>>
        /\ IF compared THEN Runtime!CompareRound(round) ELSE UNCHANGED <<rLastRound, rStalled>>
        /\ IF compared /\ Runtime!Stalls(round) THEN rPc' = "end" /\ rOutcome' = "stalled" ELSE rPc' = "top" /\ UNCHANGED rOutcome
        /\ UNCHANGED <<rIteration, rRunning, rLastCall, rDuplicates, rCancelled, rExecuted>>
    BY <1>9 DEF Runtime!Collect, Runtime!End, LastSaid
  <2>2. m \in Runtime!Message
    <3>1. Runtime!InOrder(rResults) \in Seq(Runtime!Result)
      BY <2>1, Collected
    <3>2. QED
      BY <3>1 DEF Runtime!Results, Runtime!Message
  <2>3. rMessages' \in Seq(Runtime!Message) /\ rContext' \in Seq(Runtime!Message \cup {Runtime!Continue})
    BY <1>5, <2>1, <2>2
  <2>4. round \in Text \X Seq(Runtime!Signature)
    BY <2>1, Collected, RuntimeSignature DEF Runtime!Round
  <2> HIDE DEF m, round, compared
  <2>5. /\ rOutcome = "none" /\ rStalled \in 0 .. MaxStalled /\ rStalled # MaxStalled
    BY <2>1 DEF Runtime!TypeOK
  <2>6. /\ rLastRound' \in (Text \X Seq(Runtime!Signature)) \cup {Nothing} /\ rStalled' \in 0 .. MaxStalled
        /\ rStalled' = MaxStalled => rOutcome' = "stalled"
    <3>1. CASE compared /\ GuardEnabled
      <4>1. rLastRound' = round /\ rStalled' = IF round = rLastRound THEN rStalled + 1 ELSE 0
        BY <2>1, <3>1 DEF Runtime!CompareRound, Runtime!Repeats
      <4>2. rStalled' >= MaxStalled => rOutcome' = "stalled"
        BY <2>1, <3>1, <4>1 DEF Runtime!Stalls, Runtime!Repeats
      <4>3. QED
        BY <2>4, <2>5, <4>1, <4>2
    <3>2. CASE ~(compared /\ GuardEnabled)
      BY <2>1, <2>5, <3>2 DEF Runtime!CompareRound, Runtime!TypeOK
    <3>3. QED
      BY <3>1, <3>2
  <2>7. <<>> \in Seq(Runtime!Result)
    OBVIOUS
  <2>8. QED
    BY <1>0, <1>3, <2>1, <2>3, <2>5, <2>6, <2>7 DEF Runtime!TypeOK
<1>10. QED
  BY <1>1, <1>2, <1>4, <1>6, <1>7, <1>8, <1>9, RuntimeKinds

(* The entries of the calls refused, in their order.                         *)
Refusals(n, refused) ==
    [k \in 1 .. n |-> IF k \in refused THEN <<Runtime!Entry(k, FALSE)>> ELSE <<>>]
Entries(rs, refused) ==
    /\ \A m \in 1 .. Len(rs) : \E k \in refused : rs[m] = Runtime!Entry(k, FALSE)
    /\ \A k \in refused : \E m \in 1 .. Len(rs) : rs[m] = Runtime!Entry(k, FALSE)
    /\ \A m, o \in 1 .. Len(rs) : rs[m] = rs[o] => m = o
LEMMA Refused ==
    ASSUME NEW n \in Nat, NEW refused \in SUBSET (1 .. n),
           \A k \in 1 .. n : Runtime!Entry(k, FALSE) \in Runtime!Result
    PROVE  Entries(FlattenSeq(Refusals(n, refused)), refused)
<1> DEFINE ss == Refusals(n, refused)
           rs == FlattenSeq(ss)
           e(k) == Runtime!Entry(k, FALSE)
           V == Runtime!Result
<1> HIDE DEF V
<1>1. \A k \in 1 .. n : e(k) \in V
  BY DEF V
<1>2. \A j, k \in 1 .. n : e(j) = e(k) => j = k
  BY DEF Runtime!Entry
<1> HIDE DEF e
<1>3. /\ Len(ss) = n /\ DOMAIN ss = 1 .. n /\ ss \in Seq(Seq(V))
      /\ \A k \in 1 .. n : ss[k] = IF k \in refused THEN <<e(k)>> ELSE <<>>
  <2>1. ss = [k \in 1 .. n |-> IF k \in refused THEN <<e(k)>> ELSE <<>>]
    BY DEF Refusals, e
  <2> HIDE DEF ss
  <2>2. <<>> \in Seq(V) /\ \A x \in V : <<x>> \in Seq(V)
    OBVIOUS
  <2>3. \A k \in 1 .. n : (IF k \in refused THEN <<e(k)>> ELSE <<>>) \in Seq(V)
    BY <1>1, <2>2
  <2> DEFINE W == Seq(V)
  <2>4. ss \in [1 .. n -> W]
    BY <2>1, <2>3
  <2> HIDE DEF W
  <2>5. ss \in Seq(W) /\ Len(ss) = n /\ DOMAIN ss = 1 .. n
    BY <2>4
  <2>6. QED
    BY <2>1, <2>5 DEF W
<1> HIDE DEF ss, rs
<1>4. \A k \in 1 .. n : ToSet(ss[k]) = (IF k \in refused THEN {e(k)} ELSE {}) /\ IsInjective(ss[k])
  <2>1. TAKE k \in 1 .. n
  <2>2. CASE k \in refused
    <3>1. ss[k] = <<e(k)>>
      BY <1>3, <2>2
    <3>2. ToSet(<<e(k)>>) = {e(k)} /\ IsInjective(<<e(k)>>)
      BY DEF ToSet, IsInjective
    <3>3. QED
      BY <2>2, <3>1, <3>2
  <2>3. CASE k \notin refused
    <3>1. ss[k] = <<>>
      BY <1>3, <2>3
    <3>2. ToSet(<<>>) = {} /\ IsInjective(<<>>)
      BY DEF ToSet, IsInjective
    <3>3. QED
      BY <2>3, <3>1, <3>2
  <2>4. QED
    BY <2>2, <2>3
<1>5. Apart(ss, n)
  BY <1>2, <1>4 DEF Apart
<1>6. rs \in Seq(V) /\ IsInjective(rs) /\ ToSet(rs) = UNION {ToSet(ss[k]) : k \in 1 .. n}
  BY <1>3, <1>5, Flatten DEF rs
<1>7. ToSet(rs) = {e(k) : k \in refused}
  <2>1. ASSUME NEW x \in ToSet(rs) PROVE x \in {e(k) : k \in refused}
    <3>1. PICK k \in 1 .. n : x \in ToSet(ss[k])
      BY <1>6
    <3>2. k \in refused /\ x = e(k)
      BY <1>4, <3>1
    <3>3. QED
      BY <3>2
  <2>2. ASSUME NEW k \in refused PROVE e(k) \in ToSet(rs)
    <3>1. e(k) \in ToSet(ss[k])
      BY <1>4
    <3>2. QED
      BY <1>6, <3>1
  <2>3. QED
    BY <2>1, <2>2
<1>8. ToSet(rs) = {rs[m] : m \in 1 .. Len(rs)} /\ \A m, o \in 1 .. Len(rs) : rs[m] = rs[o] => m = o
  BY <1>6, SetOf
<1>9. \A m \in 1 .. Len(rs) : \E k \in refused : rs[m] = e(k)
  BY <1>7, <1>8
<1>10. \A k \in refused : \E m \in 1 .. Len(rs) : rs[m] = e(k)
  BY <1>7, <1>8
<1>11. QED
  BY <1>8, <1>9, <1>10 DEF rs, ss, e, Entries

(* What StartTools starts.                                                   *)
LEMMA Started ==
    ASSUME RuntimeTyped, NEW r \in Replies, Runtime!StartTools(r)
    PROVE  /\ rPc = "stream" /\ rPc' = "tools" /\ UNCHANGED <<rIteration, rLastRound, rStalled, rOutcome>>
           /\ r.calls \in Seq(Runtime!Call) /\ r.calls # <<>> /\ DOMAIN r.calls = 1 .. Len(r.calls) /\ Len(r.calls) \in Nat
           /\ rIteration \in 1 .. Budget
           /\ Runtime!Rejected(r.calls) \subseteq 1 .. Len(r.calls)
           /\ rRunning' = (1 .. Len(r.calls)) \ Runtime!Rejected(r.calls)
           /\ Entries(rResults', Runtime!Rejected(r.calls))
<1> USE RuntimeConstants
<1>1. /\ rPc = "stream" /\ rPc' = "tools" /\ UNCHANGED <<rIteration, rLastRound, rStalled, rOutcome>> /\ r.calls # <<>>
      /\ rRunning' = DOMAIN r.calls \ Runtime!Rejected(r.calls)
      /\ rResults' = Runtime!FlattenSeq([k \in DOMAIN r.calls |->
                        IF k \in Runtime!Rejected(r.calls) THEN <<Runtime!Entry(k, FALSE)>> ELSE <<>>])
  BY DEF Runtime!StartTools
<1>2. rIteration \in 1 .. Budget
  BY <1>1 DEF RuntimeTyped, Runtime!TypeOK
<1>3. r.calls \in Seq(Runtime!Call) /\ DOMAIN r.calls = 1 .. Len(r.calls) /\ Len(r.calls) \in Nat
  BY <1>2, RuntimeReply
<1>4. Runtime!Rejected(r.calls) \in SUBSET (1 .. Len(r.calls))
  BY <1>3 DEF Runtime!Rejected
<1>5. rResults' = FlattenSeq(Refusals(Len(r.calls), Runtime!Rejected(r.calls)))
  BY <1>1, <1>3 DEF Refusals, Runtime!FlattenSeq, FlattenSeq
<1>6. \A k \in 1 .. Len(r.calls) : Runtime!Entry(k, FALSE) \in Runtime!Result
  BY <1>2, <1>3 DEF Runtime!Entry, Runtime!Result, Runtime!CallId
<1>7. Entries(rResults', Runtime!Rejected(r.calls))
  <2> DEFINE R == Runtime!Rejected(r.calls)
             n == Len(r.calls)
  <2>1. n \in Nat /\ R \in SUBSET (1 .. n) /\ \A k \in 1 .. n : Runtime!Entry(k, FALSE) \in Runtime!Result
    BY <1>3, <1>4, <1>6
  <2> HIDE DEF R, n
  <2>2. Entries(FlattenSeq(Refusals(n, R)), R)
    BY <2>1, Refused
  <2>3. QED
    BY <1>5, <2>2 DEF R, n
<1>8. QED
  BY <1>1, <1>2, <1>3, <1>4, <1>7

(* What is said comes last.                                                  *)
LEMMA Says ==
    ASSUME NEW V, NEW s \in Seq(V), NEW m \in V
    PROVE  /\ Append(s, m) # <<>> /\ Len(Append(s, m)) = Len(s) + 1 /\ Len(s) \in Nat
           /\ Append(s, m)[Len(s) + 1] = m /\ \A n \in 1 .. Len(s) : Append(s, m)[n] = s[n]
  BY AppendProperties, LenProperties

LEMMA RuntimeWorks ==
    ASSUME RuntimeTyped, Working, [Runtime!Next]_runtimeVars
    PROVE  Working'
<1>1. CASE Still
  BY <1>1 DEF Still, Working, LastSaid
<1>2. CASE Runtime!ProviderFails \/ Runtime!Collect
  BY <1>2 DEF Runtime!ProviderFails, Runtime!Collect, Runtime!End, Working
<1>3. ASSUME NEW r \in Replies, Runtime!AskToContinue(r) \/ Runtime!Complete(r) PROVE Working'
  BY <1>3 DEF Runtime!AskToContinue, Runtime!Complete, Runtime!End, Working
<1>4. ASSUME NEW r \in Replies, Runtime!StartTools(r) PROVE Working'
  <2> DEFINE a == Runtime!Assistant(rIteration, r)
  <2>1. rIteration \in 1 .. Budget /\ DOMAIN r.calls = 1 .. Len(r.calls)
    BY <1>4, Started
  <2>2. /\ a \in Runtime!Message /\ a.calls = r.calls /\ a.round = rIteration /\ Runtime!Calls(a)
    BY <1>4, <2>1, RuntimeReply DEF Runtime!StartTools, Runtime!Truncated, Runtime!Calls
  <2> HIDE DEF a, Runtime!Message
  <2>3. LastSaid' = a /\ rMessages' # <<>>
    <3>1. rMessages \in Seq(Runtime!Message) /\ rMessages' = Append(rMessages, a)
      BY <1>4 DEF Runtime!StartTools, Runtime!Say, RuntimeTyped, Runtime!TypeOK, a
    <3>2. QED
      BY <2>2, <3>1, Says DEF LastSaid
  <2>4. rContext' # <<>> /\ rContext'[Len(rContext')] = a
    <3> DEFINE V == Runtime!Message \cup {Runtime!Continue}
    <3>1. rContext \in Seq(V) /\ rContext' = Append(rContext, a) /\ a \in V
      BY <1>4, <2>2 DEF Runtime!StartTools, Runtime!Say, RuntimeTyped, Runtime!TypeOK, a
    <3> HIDE DEF V
    <3>2. QED
      BY <3>1, Says
  <2> DEFINE R == Runtime!Rejected(r.calls)
  <2>6. /\ rIteration' = rIteration /\ R \subseteq 1 .. Len(r.calls) /\ rRunning' = (1 .. Len(r.calls)) \ R
        /\ \A m \in 1 .. Len(rResults') : \E k \in R : rResults'[m] = Runtime!Entry(k, FALSE)
        /\ \A k \in R : \E m \in 1 .. Len(rResults') : rResults'[m] = Runtime!Entry(k, FALSE)
        /\ \A m, o \in 1 .. Len(rResults') : rResults'[m] = rResults'[o] => m = o
    BY <1>4, Started DEF Entries
  <2>7. \A k : Runtime!Entry(k, FALSE).call = <<rIteration, k>>
    BY DEF Runtime!Entry
  <2>8. \A j, k : <<rIteration, j>> = <<rIteration, k>> => j = k
    OBVIOUS
  <2> HIDE DEF R, Runtime!Entry
  <2>9. \A m, o \in 1 .. Len(rResults') : rResults'[m].call = rResults'[o].call => m = o
    <3>1. TAKE m, o \in 1 .. Len(rResults')
    <3>2. HAVE rResults'[m].call = rResults'[o].call
    <3>3. PICK j \in R, k \in R : rResults'[m] = Runtime!Entry(j, FALSE) /\ rResults'[o] = Runtime!Entry(k, FALSE)
      BY <2>6
    <3>4. rResults'[m].call = <<rIteration, j>> /\ rResults'[o].call = <<rIteration, k>>
      BY <2>7, <3>3
    <3>6. j = k
      BY <2>8, <3>2, <3>4
    <3>5. QED
      BY <2>6, <3>3, <3>6
  <2>10. LastSaid'.calls = r.calls /\ DOMAIN LastSaid'.calls \ rRunning' = R /\ rRunning' \subseteq DOMAIN LastSaid'.calls
    BY <2>1, <2>2, <2>3, <2>6
  <2>11. \A m \in 1 .. Len(rResults') : \E k \in R : rResults'[m].call = <<rIteration, k>>
    BY <2>6, <2>7
  <2>12. \A k \in R : \E m \in 1 .. Len(rResults') : rResults'[m].call = <<rIteration, k>>
    BY <2>6, <2>7
  <2>13. QED
    BY <2>2, <2>3, <2>4, <2>6, <2>9, <2>10, <2>11, <2>12 DEF Working, Runtime!Calls
<1>5. ASSUME NEW k \in rRunning, Runtime!ToolEnds(k) PROVE Working'
  <2>1. /\ rPc = "tools" /\ rRunning' = rRunning \ {k} /\ rResults' = Append(rResults, Runtime!Entry(k, TRUE))
        /\ UNCHANGED <<rMessages, rContext, rIteration>>
    BY <1>5 DEF Runtime!ToolEnds, Runtime!said
  <2>2. rResults \in Seq(Runtime!Result)
    BY DEF RuntimeTyped, Runtime!TypeOK
  <2>3. Len(rResults') = Len(rResults) + 1 /\ Len(rResults) \in Nat /\ rResults'[Len(rResults) + 1].call = <<rIteration, k>>
        /\ \A n \in 1 .. Len(rResults) : rResults'[n] = rResults[n]
    BY <2>1, <2>2, AppendProperties, LenProperties DEF Runtime!Entry
  <2>4. \A n : n \in 1 .. Len(rResults') <=> n \in 1 .. Len(rResults) \/ n = Len(rResults) + 1
    BY <2>3
  <2> DEFINE D == DOMAIN LastSaid.calls
  <2>5. /\ \A n \in 1 .. Len(rResults) : \E j \in D \ rRunning : rResults[n].call = <<rIteration, j>>
        /\ \A j \in D \ rRunning : \E n \in 1 .. Len(rResults) : rResults[n].call = <<rIteration, j>>
        /\ \A m, n \in 1 .. Len(rResults) : rResults[m].call = rResults[n].call => m = n
        /\ rRunning \subseteq D
    BY <2>1 DEF Working
  <2> HIDE DEF D
  <2>6. \A n \in 1 .. Len(rResults') : \E j \in D \ rRunning' : rResults'[n].call = <<rIteration, j>>
    <3>1. TAKE n \in 1 .. Len(rResults')
    <3>2. CASE n \in 1 .. Len(rResults)
      BY <2>1, <2>3, <2>5, <3>2
    <3>3. CASE n = Len(rResults) + 1
      <4>1. k \in D \ rRunning'
        BY <2>1, <2>5
      <4>2. QED
        BY <2>3, <3>3, <4>1
    <3>4. QED
      BY <2>4, <3>2, <3>3
  <2>7. \A j \in D \ rRunning' : \E n \in 1 .. Len(rResults') : rResults'[n].call = <<rIteration, j>>
    <3>1. TAKE j \in D \ rRunning'
    <3>2. CASE j = k
      <4>1. Len(rResults) + 1 \in 1 .. Len(rResults')
        BY <2>4
      <4>2. QED
        BY <2>3, <3>2, <4>1
    <3>3. CASE j # k
      <4>1. j \in D \ rRunning
        BY <2>1, <3>3
      <4>2. PICK n \in 1 .. Len(rResults) : rResults[n].call = <<rIteration, j>>
        BY <2>5, <4>1
      <4>3. n \in 1 .. Len(rResults') /\ rResults'[n].call = <<rIteration, j>>
        BY <2>3, <2>4, <4>2
      <4>4. QED
        BY <4>3
    <3>4. QED
      BY <3>2, <3>3
  <2>8. \A n \in 1 .. Len(rResults) : rResults[n].call # <<rIteration, k>>
    <3>1. SUFFICES ASSUME NEW n \in 1 .. Len(rResults), rResults[n].call = <<rIteration, k>> PROVE FALSE
      OBVIOUS
    <3>2. PICK j \in D \ rRunning : rResults[n].call = <<rIteration, j>>
      BY <2>5
    <3>3. j = k
      BY <3>1, <3>2
    <3>4. QED
      BY <3>2, <3>3
  <2>9. \A m, n \in 1 .. Len(rResults') : rResults'[m].call = rResults'[n].call => m = n
    BY <2>3, <2>4, <2>5, <2>8
  <2>10. QED
    BY <2>1, <2>5, <2>6, <2>7, <2>9 DEF Working, LastSaid, D
<1>6. QED
  BY <1>1, <1>2, <1>3, <1>4, <1>5, RuntimeKinds

LEMMA ChainGrows ==
    ASSUME NEW V, NEW s \in Seq(V), NEW m \in V, NEW open \in BOOLEAN, NEW open2 \in BOOLEAN, Chain(s, open),
           m.kind = "results" =>
              s # <<>> /\ Runtime!Calls(s[Len(s)]) /\ Runtime!Answers(m, s[Len(s)]),
           s # <<>> /\ Runtime!Calls(s[Len(s)]) => m.kind = "results",
           Runtime!Calls(m) => open2
    PROVE  Chain(Append(s, m), open2)
<1> DEFINE t == Append(s, m)
           l == Len(s)
<1>1. Len(t) = l + 1 /\ l \in Nat /\ t[l + 1] = m /\ \A n \in 1 .. l : t[n] = s[n]
  BY Says
<1>2. s # <<>> => l > 0
  BY EmptySeq, LenProperties
<1> HIDE DEF t
<1>3. SUFFICES ASSUME NEW n \in 1 .. l + 1
               PROVE  /\ t[n].kind = "results" => n > 1 /\ Runtime!Calls(t[n - 1]) /\ Runtime!Answers(t[n], t[n - 1])
                      /\ Runtime!Calls(t[n]) => IF n = l + 1 THEN open2 ELSE t[n + 1].kind = "results"
  BY <1>1 DEF Chain, t
<1> HIDE DEF l
<1>4. CASE n = l + 1
  <2>1. t[n] = m
    BY <1>1, <1>4
  <2>2. ASSUME m.kind = "results" PROVE n > 1 /\ Runtime!Calls(t[n - 1]) /\ Runtime!Answers(t[n], t[n - 1])
    <3>1. l \in 1 .. l /\ n - 1 = l /\ n > 1
      BY <1>1, <1>2, <1>4, <2>2
    <3>2. t[n - 1] = s[l]
      BY <1>1, <3>1
    <3>3. QED
      BY <2>1, <2>2, <3>1, <3>2 DEF l
  <2>3. QED
    BY <1>4, <2>1, <2>2
<1>5. CASE n # l + 1
  <2>1. n \in 1 .. l /\ t[n] = s[n]
    BY <1>1, <1>5
  <2>2. /\ s[n].kind = "results" => n > 1 /\ Runtime!Calls(s[n - 1]) /\ Runtime!Answers(s[n], s[n - 1])
        /\ Runtime!Calls(s[n]) => IF n = l THEN open ELSE s[n + 1].kind = "results"
    BY <2>1 DEF Chain, l
  <2>3. n > 1 => t[n - 1] = s[n - 1]
    BY <1>1, <2>1
  <2>4. CASE n = l
    <3>1. t[n + 1] = m /\ s # <<>>
      BY <1>1, <2>1, <2>4 DEF l
    <3>2. QED
      BY <1>5, <2>1, <2>2, <2>3, <2>4, <3>1 DEF l
  <2>5. CASE n # l
    <3>1. t[n + 1] = s[n + 1]
      BY <1>1, <2>1, <2>5
    <3>2. QED
      BY <1>5, <2>1, <2>2, <2>3, <2>5, <3>1
  <2>6. QED
    BY <2>4, <2>5
<1>6. QED
  BY <1>4, <1>5

LEMMA Remembers ==
    ASSUME NEW V, NEW s \in Seq(V), NEW m \in V
    PROVE  Remembered(Append(s, m)) = IF m = Runtime!Continue THEN Remembered(s) ELSE Append(Remembered(s), m)
<1> DEFINE f == [n \in 1 .. Len(s) |-> Without(s[n])]
           t == Append(s, m)
           W == Seq(V)
<1>1. /\ Len(t) = Len(s) + 1 /\ Len(s) \in Nat /\ t[Len(s) + 1] = m /\ \A n \in 1 .. Len(s) : t[n] = s[n]
      /\ DOMAIN t = 1 .. Len(s) + 1 /\ DOMAIN s = 1 .. Len(s)
  BY AppendProperties, LenProperties
<1>2. \A x \in V : Without(x) \in W
  BY DEF Without
<1>3. \A n \in 1 .. Len(s) : s[n] \in V
  OBVIOUS
<1> HIDE DEF W
<1>4. f \in Seq(W) /\ Len(f) = Len(s) /\ Without(m) \in W
  <2>1. f \in [1 .. Len(s) -> W]
    BY <1>2, <1>3
  <2>2. QED
    BY <1>1, <1>2, <2>1
<1> HIDE DEF t
<1>5. [n \in DOMAIN t |-> Without(t[n])] = Append(f, Without(m))
  <2> DEFINE g == [n \in DOMAIN t |-> Without(t[n])]
             h == Append(f, Without(m))
  <2>1. /\ h \in Seq(W) /\ Len(h) = Len(s) + 1 /\ h[Len(s) + 1] = Without(m)
        /\ \A n \in 1 .. Len(s) : h[n] = Without(s[n])
    BY <1>4, AppendProperties
  <2>2. DOMAIN h = 1 .. Len(s) + 1 /\ h = [n \in 1 .. Len(s) + 1 |-> h[n]]
    BY <2>1
  <2> HIDE DEF h, f
  <2>3. \A n \in 1 .. Len(s) + 1 : n \in 1 .. Len(s) \/ n = Len(s) + 1
    BY <1>1
  <2>4. \A n \in 1 .. Len(s) + 1 : h[n] = Without(t[n])
    BY <1>1, <2>1, <2>3
  <2>5. QED
    BY <1>1, <2>2, <2>4 DEF h
<1>6. Remembered(t) = FlattenSeq(f) \o Without(m) /\ Remembered(s) = FlattenSeq(f)
  <2>1. FlattenSeq(Append(f, Without(m))) = FlattenSeq(f) \o Without(m)
    BY <1>4, FlattenAppend DEF W
  <2>2. Remembered(s) = FlattenSeq(f)
    BY <1>1 DEF Remembered
  <2>3. QED
    BY <1>5, <2>1, <2>2 DEF Remembered
<1>7. FlattenSeq(f) \in Seq(V)
  BY <1>4, Flatten DEF W
<1>8. FlattenSeq(f) \o <<>> = FlattenSeq(f) /\ FlattenSeq(f) \o <<m>> = Append(FlattenSeq(f), m)
  <2> DEFINE u == FlattenSeq(f)
  <2>1. u \in Seq(V)
    BY <1>7
  <2> HIDE DEF u
  <2>2. u \o <<>> = u /\ u \o <<m>> = Append(u, m)
    BY <2>1
  <2>3. QED
    BY <2>2 DEF u
<1>9. QED
  BY <1>6, <1>8 DEF Without, t

LEMMA RuntimeInit == Runtime!Init => RuntimeTyped /\ Working /\ Followed
<1> SUFFICES ASSUME Runtime!Init PROVE RuntimeTyped /\ Working /\ Followed
  OBVIOUS
<1>1. <<>> \in Seq(Runtime!Message) /\ <<>> \in Seq(Runtime!Message \cup {Runtime!Continue}) /\ <<>> \in Seq(Runtime!Result)
  OBVIOUS
<1>2. RuntimeTyped
  <2>1. rIteration \in 0 .. Budget /\ rStalled \in 0 .. MaxStalled /\ rDuplicates \in Nat /\ rStalled # MaxStalled
    BY RuntimeConstants DEF Runtime!Init
  <2>2. QED
    BY <1>1, <2>1 DEF RuntimeTyped, Runtime!TypeOK, Runtime!Init
<1>3. /\ rMessages = <<>> /\ rContext = <<>> /\ rPc = "top"
      /\ Len(rMessages) = 0 /\ Len(rContext) = 0
  BY DEF Runtime!Init
<1>4. Remembered(<<>>) = <<>>
  <2>1. [n \in DOMAIN <<>> |-> Without(<<>>[n])] = <<>>
    OBVIOUS
  <2>2. QED
    BY <2>1 DEF Remembered, FlattenSeq
<1>5. QED
  BY <1>2, <1>3, <1>4 DEF Working, Followed, Chain

(* A reply and the results of its calls go where the conversation goes.      *)
LEMMA Converses ==
    ASSUME RuntimeTyped, Followed, NEW m \in Runtime!Message, NEW open \in BOOLEAN,
           rOutcome = "none", rPc \in {"stream", "tools"},
           Runtime!Calls(m) => open,
           rPc = "stream" => m.kind = "assistant",
           rPc = "tools" => /\ m.kind = "results" /\ rMessages # <<>> /\ rContext # <<>>
                            /\ rContext[Len(rContext)] = LastSaid
                            /\ Runtime!Calls(LastSaid) /\ Runtime!Answers(m, LastSaid)
    PROVE  /\ Chain(Append(rMessages, m), open) /\ Chain(Append(rContext, m), open)
           /\ Append(rMessages, m) = Remembered(Append(rContext, m))
<1> DEFINE V == Runtime!Message \cup {Runtime!Continue}
           was == rPc = "tools"
<1>1. /\ rMessages \in Seq(Runtime!Message) /\ rContext \in Seq(V) /\ m \in V
      /\ was \in BOOLEAN /\ Chain(rMessages, was) /\ Chain(rContext, was)
      /\ rMessages = Remembered(rContext)
  BY DEF RuntimeTyped, Runtime!TypeOK, Followed
<1>2. m # Runtime!Continue
  BY DEF Runtime!Message, Runtime!Continue
<1> HIDE DEF V
<1>3. ASSUME NEW U, NEW s \in Seq(U), m \in U, Chain(s, was),
             was => s # <<>> /\ s[Len(s)] = LastSaid
      PROVE  Chain(Append(s, m), open)
  <2>1. m.kind = "results" => s # <<>> /\ Runtime!Calls(s[Len(s)]) /\ Runtime!Answers(m, s[Len(s)])
    BY <1>3
  <2>2. s # <<>> /\ Runtime!Calls(s[Len(s)]) => m.kind = "results"
    <3>1. SUFFICES ASSUME s # <<>>, Runtime!Calls(s[Len(s)]) PROVE was
      OBVIOUS
    <3>2. Len(s) \in 1 .. Len(s)
      BY <1>3, <3>1, EmptySeq, LenProperties
    <3>3. QED
      BY <1>3, <3>1, <3>2 DEF Chain
  <2> HIDE DEF was
  <2>3. QED
    BY <1>1, <1>3, <2>1, <2>2, ChainGrows
<1>4. Chain(Append(rMessages, m), open)
  BY <1>1, <1>3 DEF LastSaid
<1>5. Chain(Append(rContext, m), open)
  BY <1>1, <1>3
<1>6. Append(rMessages, m) = Remembered(Append(rContext, m))
  BY <1>1, <1>2, Remembers
<1>7. QED
  BY <1>4, <1>5, <1>6

LEMMA RuntimeFollows ==
    ASSUME RuntimeTyped, Working, Followed, [Runtime!Next]_runtimeVars
    PROVE  Followed'
<1> HIDE DEF Runtime!Message, Runtime!Result, Runtime!Continue
<1>1. CASE Still
  <2>1. UNCHANGED <<rMessages, rContext>> /\ (rPc' = "tools") = (rPc = "tools") /\ (rOutcome' # "failed" => rOutcome # "failed")
    BY <1>1 DEF Still, RuntimeTyped, Runtime!TypeOK
  <2>2. rPc' \in {"top", "request", "stream"} => rPc \in {"top", "request", "stream"}
    BY <1>1 DEF Still
  <2>3. QED
    BY <2>1, <2>2 DEF Followed
<1>2. CASE Runtime!ProviderFails
  <2>1. rMessages' = <<>> /\ rPc' = "end" /\ rPc # "tools" /\ rOutcome' = "failed" /\ UNCHANGED rContext
    BY <1>2 DEF Runtime!ProviderFails, Runtime!End
  <2>2. Chain(<<>>, FALSE) /\ Chain(rContext, FALSE)
    BY <2>1 DEF Chain, Followed
  <2>3. QED
    BY <2>1, <2>2 DEF Followed
<1>3. ASSUME NEW m \in Runtime!Message
      PROVE  /\ Append(rContext, m) # <<>>
             /\ Append(rContext, m) \in Seq(Runtime!Message \cup {Runtime!Continue})
             /\ Append(rContext, m)[Len(Append(rContext, m))] = m
  <2> DEFINE V == Runtime!Message \cup {Runtime!Continue}
  <2>1. rContext \in Seq(V) /\ m \in V
    BY DEF RuntimeTyped, Runtime!TypeOK
  <2> HIDE DEF V
  <2>2. Append(rContext, m) \in Seq(V) /\ Append(rContext, m) # <<>> /\ Append(rContext, m)[Len(Append(rContext, m))] = m
    BY <2>1, Says, AppendProperties
  <2>3. QED
    BY <2>2 DEF V
<1>4. rPc # "end" => rOutcome = "none"
  BY DEF RuntimeTyped, Runtime!TypeOK
<1>5. ASSUME NEW r \in Replies, rPc = "stream"
      PROVE  LET a == Runtime!Assistant(rIteration, r)
             IN  /\ a \in Runtime!Message /\ a.kind = "assistant" /\ a.truncated = r.truncated /\ a.calls = r.calls
  <2>1. rIteration \in 1 .. Budget
    BY <1>5 DEF RuntimeTyped, Runtime!TypeOK
  <2>2. QED
    BY <2>1, RuntimeReply
<1>6. ASSUME NEW r \in Replies, Runtime!AskToContinue(r) PROVE Followed'
  <2> DEFINE a == Runtime!Assistant(rIteration, r)
             c == Append(rContext, a)
             q == Runtime!Continue
             V == Runtime!Message \cup {q}
  <2>1. /\ rPc = "stream" /\ rPc' = "top" /\ UNCHANGED rOutcome
        /\ rMessages' = Append(rMessages, a) /\ rContext' = rContext \o <<a, q>> /\ r.truncated
    BY <1>6 DEF Runtime!AskToContinue, Runtime!Truncated
  <2>2. a \in Runtime!Message /\ a.kind = "assistant" /\ ~Runtime!Calls(a)
    BY <1>5, <2>1 DEF Runtime!Calls
  <2>3. q.kind = "continue" /\ ~Runtime!Calls(q) /\ q \in V
    BY DEF Runtime!Continue, Runtime!Calls
  <2> HIDE DEF a, q
  <2>4. /\ Chain(Append(rMessages, a), FALSE) /\ Chain(c, FALSE) /\ Append(rMessages, a) = Remembered(c)
    BY <1>4, <2>1, <2>2, Converses
  <2>5. c \in Seq(V) /\ c # <<>> /\ c[Len(c)] = a
    BY <1>3, <2>2 DEF q
  <2>6. rContext' = Append(c, q)
    <3>1. rContext \in Seq(V) /\ a \in V
      BY <2>2 DEF RuntimeTyped, Runtime!TypeOK, q
    <3> HIDE DEF V
    <3>2. rContext \o <<a, q>> = Append(Append(rContext, a), q)
      BY <2>3, <3>1
    <3>3. QED
      BY <2>1, <3>2
  <2> HIDE DEF V, c
  <2>7. Chain(rContext', FALSE)
    BY <2>2, <2>3, <2>4, <2>5, <2>6, ChainGrows
  <2>8. rMessages' = Remembered(rContext')
    BY <2>1, <2>3, <2>4, <2>5, <2>6, Remembers DEF q
  <2>9. rContext'[Len(rContext')].kind # "assistant"
    BY <2>3, <2>5, <2>6, Says
  <2>10. QED
    BY <2>1, <2>4, <2>7, <2>8, <2>9 DEF Followed
<1>7. ASSUME NEW r \in Replies, Runtime!Complete(r) \/ Runtime!StartTools(r) PROVE Followed'
  <2> DEFINE a == Runtime!Assistant(rIteration, r)
  <2>1. /\ rPc = "stream" /\ rMessages' = Append(rMessages, a) /\ rContext' = Append(rContext, a)
        /\ \/ rPc' = "end" /\ r.calls = <<>>
           \/ rPc' = "tools"
    BY <1>7 DEF Runtime!Complete, Runtime!StartTools, Runtime!Say, Runtime!End
  <2>2. a \in Runtime!Message /\ a.kind = "assistant" /\ (Runtime!Calls(a) => rPc' = "tools")
    BY <1>5, <2>1 DEF Runtime!Calls
  <2> HIDE DEF a
  <2>3. /\ Chain(Append(rMessages, a), rPc' = "tools") /\ Chain(Append(rContext, a), rPc' = "tools")
        /\ Append(rMessages, a) = Remembered(Append(rContext, a))
    BY <1>4, <2>1, <2>2, Converses
  <2>4. QED
    BY <2>1, <2>3 DEF Followed
<1>8. CASE Runtime!Collect
  <2> DEFINE rs == Runtime!InOrder(rResults)
             m == Runtime!Results(rs)
  <2>1. /\ rPc = "tools" /\ rRunning = {} /\ rMessages' = Append(rMessages, m) /\ rContext' = Append(rContext, m)
        /\ rPc' # "tools"
    BY <1>8 DEF Runtime!Collect, Runtime!Say, Runtime!End
  <2>2. /\ LastSaid.calls \in Seq(Runtime!Call) /\ rs \in Seq(Runtime!Result)
        /\ Len(rs) = Len(LastSaid.calls)
        /\ \A k \in 1 .. Len(LastSaid.calls) : rs[k].call = <<rIteration, k>>
    BY <2>1, Collected
  <2>3. m.kind = "results" /\ m.results = rs /\ m \in Runtime!Message /\ ~Runtime!Calls(m)
    <3> HIDE DEF rs
    <3>1. QED
      BY <2>2 DEF Runtime!Results, Runtime!Message, Runtime!Calls
  <2> HIDE DEF rs, m
  <2>4. Runtime!Answers(m, LastSaid)
    <3>1. DOMAIN rs = 1 .. Len(LastSaid.calls) /\ DOMAIN LastSaid.calls = 1 .. Len(LastSaid.calls)
      BY <2>2
    <3>2. LastSaid.round = rIteration
      BY <2>1 DEF Working
    <3>3. [k \in DOMAIN rs |-> rs[k].call] = [k \in DOMAIN LastSaid.calls |-> <<LastSaid.round, k>>]
      BY <2>2, <3>1, <3>2
    <3>4. QED
      BY <2>3, <3>3 DEF Runtime!Answers
  <2>5. /\ rMessages # <<>> /\ rContext # <<>> /\ rContext[Len(rContext)] = LastSaid /\ Runtime!Calls(LastSaid)
    BY <2>1 DEF Working
  <2>6. /\ Chain(Append(rMessages, m), FALSE) /\ Chain(Append(rContext, m), FALSE)
        /\ Append(rMessages, m) = Remembered(Append(rContext, m))
    BY <1>4, <2>1, <2>3, <2>4, <2>5, Converses
  <2>7. rContext'[Len(rContext')].kind # "assistant"
    BY <1>3, <2>1, <2>3
  <2>8. QED
    BY <2>1, <2>6, <2>7 DEF Followed
<1>9. ASSUME NEW k \in rRunning, Runtime!ToolEnds(k) PROVE Followed'
  BY <1>9 DEF Runtime!ToolEnds, Runtime!said, Followed
<1>10. QED
  BY <1>1, <1>2, <1>6, <1>7, <1>8, <1>9, RuntimeKinds

(* A message that is not a cut reply leaves the cut ones as they are, also   *)
(* when calls of a later iteration are executed.                             *)
LEMMA CutsGrow ==
    ASSUME NEW V, NEW s \in Seq(V), NEW m, ~Runtime!Cut(m), NEW i \in Nat, NEW x, NEW y,
           RoundsIn(s, x, i), CutsDone(s, x), \A c \in y : c \in x \/ c[1] = i + 1
    PROVE  CutsDone(Append(s, m), y)
<1> DEFINE t == Append(s, m)
           l == Len(s)
<1>1. l \in Nat /\ Len(t) = l + 1 /\ t[l + 1] = m /\ \A n \in 1 .. l : t[n] = s[n]
  OBVIOUS
<1>2. ASSUME NEW n \in 1 .. l, Runtime!Cut(s[n])
      PROVE  n < l /\ s[n + 1] = Runtime!Continue /\ \A c \in y : c[1] # s[n].round
  <2>1. n < l /\ s[n + 1] = Runtime!Continue /\ \A c \in x : c[1] # s[n].round
    BY <1>2 DEF CutsDone
  <2>2. s[n].round \in 0 .. i
    BY <1>2 DEF RoundsIn, Runtime!Cut
  <2>3. i + 1 # s[n].round
    BY <2>2
  <2>4. QED
    BY <2>1, <2>3
<1> HIDE DEF t, l
<1>3. ASSUME NEW n \in 1 .. l + 1, Runtime!Cut(t[n])
      PROVE  n < l + 1 /\ t[n + 1] = Runtime!Continue /\ \A c \in y : c[1] # t[n].round
  <2>1. n \in 1 .. l
    BY <1>1, <1>3
  <2>2. t[n] = s[n] /\ n < l /\ s[n + 1] = Runtime!Continue /\ \A c \in y : c[1] # s[n].round
    BY <1>1, <1>2, <1>3, <2>1
  <2>3. n + 1 \in 1 .. l
    BY <1>1, <2>1, <2>2
  <2>4. t[n + 1] = s[n + 1]
    BY <1>1, <2>3
  <2>5. QED
    BY <1>1, <2>1, <2>2, <2>4
<1>4. QED
  BY <1>1, <1>3 DEF CutsDone, t

(* A cut reply and the question after it.                                    *)
LEMMA CutAsks ==
    ASSUME NEW V, NEW s \in Seq(V), NEW m \in V, NEW i \in Nat, NEW x, m.round = i + 1,
           Runtime!Continue \in V, RoundsIn(s, x, i), CutsDone(s, x)
    PROVE  CutsDone(s \o <<m, Runtime!Continue>>, x)
<1> DEFINE q == Runtime!Continue
<1>0. ~Runtime!Cut(q)
  BY DEF Runtime!Cut, Runtime!Continue
<1> HIDE DEF q
<1> DEFINE t == s \o <<m, q>>
           l == Len(s)
<1>1. /\ l \in Nat /\ Len(t) = l + 2 /\ t[l + 1] = m /\ t[l + 2] = q
      /\ \A n \in 1 .. l : t[n] = s[n]
  BY DEF q
<1>2. \A c \in x : c[1] # m.round
  BY DEF RoundsIn
<1>3. \A n \in 1 .. l : Runtime!Cut(s[n]) => n < l /\ s[n + 1] = q /\ \A c \in x : c[1] # s[n].round
  BY DEF CutsDone, q
<1> HIDE DEF t, l
<1>4. ASSUME NEW n \in 1 .. l + 2, Runtime!Cut(t[n])
      PROVE  n < l + 2 /\ t[n + 1] = q /\ \A c \in x : c[1] # t[n].round
  <2>1. n \in 1 .. l \/ n = l + 1
    BY <1>0, <1>1, <1>4
  <2>2. CASE n = l + 1
    BY <1>1, <1>2, <2>2
  <2>3. CASE n \in 1 .. l
    <3>1. t[n] = s[n] /\ n < l /\ s[n + 1] = q /\ \A c \in x : c[1] # s[n].round
      BY <1>1, <1>3, <1>4, <2>3
    <3>2. n + 1 \in 1 .. l
      BY <1>1, <2>3, <3>1
    <3>3. t[n + 1] = s[n + 1]
      BY <1>1, <3>2
    <3>4. QED
      BY <1>1, <2>3, <3>1, <3>3
  <2>4. QED
    BY <2>1, <2>2, <2>3
<1>5. QED
  BY <1>1, <1>4 DEF CutsDone, t, q

LEMMA RuntimeAsks ==
    ASSUME RuntimeTyped, CutsAsked, [Runtime!Next]_runtimeVars
    PROVE  CutsAsked'
<1> DEFINE V == Runtime!Message \cup {Runtime!Continue}
           l == Len(rContext)
<1>1. /\ rContext \in Seq(V) /\ Runtime!Continue \in V /\ rIteration \in Nat
      /\ rPc \in {"request", "stream", "tools"} => rIteration \in 1 .. Budget
  BY RuntimeConstants DEF RuntimeTyped, Runtime!TypeOK
<1>2. Runtime!Continue.kind = "continue" /\ ~Runtime!Cut(Runtime!Continue)
  BY DEF Runtime!Continue, Runtime!Cut
<1>3. EndedRounds \in Nat
  BY <1>1 DEF EndedRounds
<1> HIDE DEF V, Runtime!Message, Runtime!Result, Runtime!Continue
<1>4. CASE Still \/ Runtime!ProviderFails
  <2>1. UNCHANGED <<rContext, rExecuted>> /\ EndedRounds' \in {EndedRounds, EndedRounds + 1}
    BY <1>1, <1>4 DEF Still, Runtime!ProviderFails, Runtime!End, EndedRounds
  <2>2. RoundsIn(rContext, rExecuted, EndedRounds + 1)
    BY <1>3 DEF CutsAsked, RoundsIn
  <2>3. QED
    BY <2>1, <2>2 DEF CutsAsked, RoundsIn, CutsDone
<1>5. ASSUME NEW r \in Replies, rPc = "stream"
      PROVE  LET a == Runtime!Assistant(rIteration, r)
             IN  /\ a \in V /\ a.kind = "assistant" /\ a.truncated = r.truncated
                 /\ a.round = EndedRounds + 1 /\ EndedRounds + 1 = rIteration
  <2>1. rIteration \in 1 .. Budget /\ EndedRounds + 1 = rIteration
    BY <1>1, <1>5 DEF EndedRounds
  <2>2. QED
    BY <2>1, RuntimeReply DEF V
<1>6. ASSUME NEW r \in Replies, Runtime!AskToContinue(r) PROVE CutsAsked'
  <2> DEFINE a == Runtime!Assistant(rIteration, r)
             q == Runtime!Continue
  <2>1. /\ rPc = "stream" /\ rPc' = "top" /\ rContext' = rContext \o <<a, q>>
        /\ UNCHANGED <<rIteration, rExecuted>>
    BY <1>6 DEF Runtime!AskToContinue
  <2>2. a \in V /\ a.round = EndedRounds + 1 /\ EndedRounds + 1 = rIteration
    BY <1>5, <2>1
  <2>3. EndedRounds' = EndedRounds + 1
    BY <2>1, <2>2 DEF EndedRounds
  <2> HIDE DEF a
  <2>4. CutsDone(rContext', rExecuted)
    BY <1>1, <1>3, <2>1, <2>2, CutAsks DEF CutsAsked
  <2>5. RoundsIn(rContext', rExecuted, EndedRounds + 1)
    <3> HIDE DEF q
    <3>1. /\ Len(rContext') = l + 2 /\ rContext'[l + 1] = a /\ rContext'[l + 2] = q /\ l \in Nat
          /\ \A n \in 1 .. l : rContext'[n] = rContext[n]
      BY <1>1, <2>1, <2>2 DEF q
    <3>2. /\ \A n \in 1 .. l : rContext[n].kind = "assistant" => rContext[n].round \in 0 .. EndedRounds + 1
          /\ \A c \in rExecuted : c[1] \in 0 .. EndedRounds + 1
      BY <1>3 DEF CutsAsked, RoundsIn
    <3>3. q.kind # "assistant"
      BY <1>2 DEF q
    <3> HIDE DEF l
    <3>4. ASSUME NEW n \in 1 .. l + 2, rContext'[n].kind = "assistant" PROVE rContext'[n].round \in 0 .. EndedRounds + 1
      <4>1. n \in 1 .. l \/ n = l + 1
        BY <3>1, <3>3, <3>4
      <4>2. QED
        BY <1>3, <2>2, <3>1, <3>2, <3>4, <4>1
    <3>5. QED
      BY <3>1, <3>2, <3>4 DEF RoundsIn
  <2>6. QED
    BY <2>1, <2>3, <2>4, <2>5 DEF CutsAsked
<1>7. ASSUME NEW m, ~Runtime!Cut(m), rContext' = Append(rContext, m),
             m.kind = "assistant" => m.round = EndedRounds + 1,
             \A c \in rExecuted' : c \in rExecuted \/ c[1] = EndedRounds + 1,
             EndedRounds' = EndedRounds + 1 \/ (EndedRounds' = EndedRounds /\ m.kind # "assistant" /\ UNCHANGED rExecuted)
      PROVE  CutsAsked'
  <2>1. CutsDone(rContext', rExecuted')
    BY <1>1, <1>3, <1>7, CutsGrow DEF CutsAsked
  <2>2. /\ Len(rContext') = l + 1 /\ rContext'[l + 1] = m /\ l \in Nat
        /\ \A n \in 1 .. l : rContext'[n] = rContext[n]
    BY <1>1, <1>7
  <2>3. /\ \A n \in 1 .. l : rContext[n].kind = "assistant" => rContext[n].round \in 0 .. EndedRounds
        /\ \A c \in rExecuted : c[1] \in 0 .. EndedRounds
    BY DEF CutsAsked, RoundsIn
  <2>4. \A c \in rExecuted' : c[1] \in 0 .. EndedRounds'
    BY <1>3, <1>7, <2>3
  <2> HIDE DEF l
  <2>5. ASSUME NEW n \in 1 .. l + 1, rContext'[n].kind = "assistant" PROVE rContext'[n].round \in 0 .. EndedRounds'
    <3>1. n \in 1 .. l \/ n = l + 1
      BY <2>2
    <3>2. CASE n = l + 1
      BY <1>3, <1>7, <2>2, <2>5, <3>2
    <3>3. CASE n \in 1 .. l
      BY <1>3, <1>7, <2>2, <2>3, <2>5, <3>3
    <3>4. QED
      BY <3>1, <3>2, <3>3
  <2>6. RoundsIn(rContext', rExecuted', EndedRounds')
    BY <2>2, <2>4, <2>5 DEF RoundsIn
  <2>7. QED
    BY <2>1, <2>6 DEF CutsAsked
<1>8. ASSUME NEW r \in Replies, Runtime!Complete(r) \/ Runtime!StartTools(r) PROVE CutsAsked'
  <2> DEFINE a == Runtime!Assistant(rIteration, r)
  <2>1. /\ rPc = "stream" /\ rContext' = Append(rContext, a) /\ ~r.truncated /\ UNCHANGED rIteration
        /\ rPc' \in {"end", "tools"}
        /\ \A c \in rExecuted' : c \in rExecuted \/ c[1] = rIteration
    BY <1>8 DEF Runtime!Complete, Runtime!StartTools, Runtime!Say, Runtime!End, Runtime!Truncated
  <2>2. a.truncated = r.truncated /\ a.round = EndedRounds + 1 /\ EndedRounds + 1 = rIteration
    BY <1>5, <2>1
  <2>3. EndedRounds' = EndedRounds + 1
    BY <2>1, <2>2 DEF EndedRounds
  <2>4. ~Runtime!Cut(a)
    BY <2>1, <2>2 DEF Runtime!Cut
  <2> HIDE DEF a
  <2>5. QED
    BY <1>7, <2>1, <2>2, <2>3, <2>4
<1>9. CASE Runtime!Collect
  <2> DEFINE m == Runtime!Results(Runtime!InOrder(rResults))
  <2>1. /\ rPc = "tools" /\ rContext' = Append(rContext, m) /\ rPc' \in {"top", "end"}
        /\ UNCHANGED <<rIteration, rExecuted>>
    BY <1>9 DEF Runtime!Collect, Runtime!Say, Runtime!End
  <2>2. m.kind = "results"
    BY DEF Runtime!Results
  <2>3. EndedRounds' = EndedRounds
    BY <2>1 DEF EndedRounds
  <2> HIDE DEF m
  <2>4. ~Runtime!Cut(m) /\ m.kind # "assistant"
    BY <2>2 DEF Runtime!Cut
  <2>5. QED
    BY <1>7, <2>1, <2>3, <2>4
<1>10. ASSUME NEW k \in rRunning, Runtime!ToolEnds(k) PROVE CutsAsked'
  <2>1. UNCHANGED <<rContext, rExecuted>> /\ EndedRounds' = EndedRounds
    BY <1>10 DEF Runtime!ToolEnds, Runtime!said, EndedRounds
  <2>2. QED
    BY <2>1 DEF CutsAsked, RoundsIn, CutsDone
<1>11. QED
  BY <1>4, <1>6, <1>8, <1>9, <1>10, RuntimeKinds

LEMMA RuntimeConverses == RuntimeTyped /\ Followed /\ CutsAsked => Runtime!ConversationWhole
<1> SUFFICES ASSUME RuntimeTyped, Followed, CutsAsked PROVE Runtime!ConversationWhole
  OBVIOUS
<1> DEFINE V == Runtime!Message \cup {Runtime!Continue}
           l == Len(rContext)
<1>1. rContext \in Seq(V)
  BY DEF RuntimeTyped, Runtime!TypeOK
<1> HIDE DEF V, Runtime!Continue
<1>2. DOMAIN rContext = 1 .. l /\ l \in Nat
  BY <1>1
<1> HIDE DEF l
<1>3. ASSUME NEW n \in 1 .. l
      PROVE  /\ rContext[n].kind = "results" => n > 1 /\ Runtime!Calls(rContext[n - 1])
             /\ Runtime!Calls(rContext[n]) =>
                   IF n = l THEN rPc = "tools" ELSE Runtime!Answers(rContext[n + 1], rContext[n])
             /\ Runtime!Cut(rContext[n]) =>
                   /\ n < l /\ rContext[n + 1] = Runtime!Continue
                   /\ \A c \in rExecuted : c[1] # rContext[n].round
  <2>1. /\ rContext[n].kind = "results" => n > 1 /\ Runtime!Calls(rContext[n - 1])
        /\ Runtime!Calls(rContext[n]) => IF n = l THEN rPc = "tools" ELSE rContext[n + 1].kind = "results"
    BY DEF Followed, Chain, l
  <2>2. n # l => n + 1 \in 1 .. l /\ (n + 1) - 1 = n
    BY <1>2
  <2>3. \A k \in 1 .. l : rContext[k].kind = "results" => Runtime!Answers(rContext[k], rContext[k - 1])
    BY DEF Followed, Chain, l
  <2>4. Runtime!Cut(rContext[n]) =>
           /\ n < l /\ rContext[n + 1] = Runtime!Continue
           /\ \A c \in rExecuted : c[1] # rContext[n].round
    BY DEF CutsAsked, CutsDone, l
  <2>5. QED
    BY <2>1, <2>2, <2>3, <2>4
<1>4. Remembered(rContext) = Runtime!FlattenSeq([n \in DOMAIN rContext |->
                           IF rContext[n] = Runtime!Continue THEN <<>> ELSE <<rContext[n]>>])
  BY DEF Remembered, Without, Runtime!FlattenSeq, FlattenSeq
<1>5. QED
  BY <1>2, <1>3, <1>4 DEF Runtime!ConversationWhole, Followed, l

(* What a message adds to what is recorded.                                  *)
Reports(m, c) == m.kind = "results" /\ \E k \in DOMAIN m.results : m.results[k].ran /\ m.results[k].call = c
LEMMA Records ==
    ASSUME NEW m \in Runtime!Message, rMessages \in Seq(Runtime!Message), rMessages' = Append(rMessages, m)
    PROVE  \A c : Recorded(c)' <=> Recorded(c) \/ Reports(m, c)
<1>1. /\ Len(rMessages') = Len(rMessages) + 1 /\ Len(rMessages) \in Nat /\ rMessages'[Len(rMessages) + 1] = m
      /\ \A n \in 1 .. Len(rMessages) : rMessages'[n] = rMessages[n]
  <2> HIDE DEF Runtime!Message
  <2>1. QED
    BY Says
<1>2. \A n : n \in 1 .. Len(rMessages') <=> n \in 1 .. Len(rMessages) \/ n = Len(rMessages) + 1
  BY <1>1
<1>3. TAKE c
<1>4. Recorded(c) <=> \E n \in 1 .. Len(rMessages) : Reports(rMessages[n], c)
  BY DEF Recorded, Reports
<1>5. Recorded(c)' <=> \E n \in 1 .. Len(rMessages') : Reports(rMessages'[n], c)
  BY DEF Recorded, Reports
<1>6. QED
  BY <1>1, <1>2, <1>4, <1>5

LEMMA RuntimeExecutes ==
    ASSUME RuntimeTyped, Working, Executed, [Runtime!Next]_runtimeVars
    PROVE  Executed'
<1> HIDE DEF Runtime!Message, Runtime!Result, Runtime!Continue
<1>1. CASE Still
  <2>1. /\ UNCHANGED <<rMessages, rRunning, rResults, rExecuted>> /\ (rPc' = "tools") = (rPc = "tools")
        /\ rPc = "tools" => UNCHANGED rIteration
    BY <1>1 DEF Still
  <2>2. rOutcome' # "failed" => rOutcome # "failed"
    BY <1>1 DEF Still, RuntimeTyped, Runtime!TypeOK
  <2>3. \A c : (Recorded(c)' <=> Recorded(c)) /\ (rPc = "tools" => (InWork(c)' <=> InWork(c)))
    BY <2>1 DEF Recorded, InWork
  <2>4. rPc' = "top" => rPc = "top" /\ UNCHANGED rIteration
    BY <1>1 DEF Still
  <2>5. rOutcome' \in {"completed", "stalled", "limit"} => rOutcome' = rOutcome \/ (rPc = "top" /\ rIteration = Budget)
    BY <1>1 DEF Still
  <2>6. QED
    BY <2>1, <2>2, <2>3, <2>4, <2>5, RuntimeConstants DEF Executed
<1>2. CASE Runtime!ProviderFails
  BY <1>2 DEF Runtime!ProviderFails, Runtime!End, Executed
<1>3. rMessages \in Seq(Runtime!Message)
  BY DEF RuntimeTyped, Runtime!TypeOK
<1>4. rPc # "end" => rOutcome = "none"
  BY DEF RuntimeTyped, Runtime!TypeOK
<1>5. ASSUME NEW m \in Runtime!Message PROVE Append(rMessages, m) # <<>>
  BY <1>3, Says
<1>6. ASSUME NEW r \in Replies, rPc = "stream"
      PROVE  /\ Runtime!Assistant(rIteration, r) \in Runtime!Message
             /\ \A c : ~Reports(Runtime!Assistant(rIteration, r), c)
  <2>1. rIteration \in 1 .. Budget
    BY <1>6 DEF RuntimeTyped, Runtime!TypeOK
  <2>2. QED
    BY <2>1, RuntimeReply DEF Reports
<1>7. ASSUME NEW r \in Replies, Runtime!AskToContinue(r) \/ Runtime!Complete(r) PROVE Executed'
  <2> DEFINE a == Runtime!Assistant(rIteration, r)
  <2>1. /\ rPc = "stream" /\ rPc' # "tools" /\ rMessages' = Append(rMessages, a) /\ UNCHANGED rExecuted
    BY <1>7 DEF Runtime!AskToContinue, Runtime!Complete, Runtime!Say, Runtime!End
  <2>2. a \in Runtime!Message /\ \A c : ~Reports(a, c)
    BY <1>6, <2>1
  <2> HIDE DEF a
  <2>3. \A c : Recorded(c)' <=> Recorded(c)
    BY <1>3, <2>1, <2>2, Records
  <2>4. \A c : c \in rExecuted <=> Recorded(c)
    BY <1>4, <2>1 DEF Executed
  <2>5. QED
    BY <1>5, <2>1, <2>2, <2>3, <2>4 DEF Executed
<1>8. ASSUME NEW r \in Replies, Runtime!StartTools(r) PROVE Executed'
  <2> DEFINE a == Runtime!Assistant(rIteration, r)
             R == Runtime!Rejected(r.calls)
  <2>1. /\ rPc = "stream" /\ rPc' = "tools" /\ rMessages' = Append(rMessages, a)
        /\ UNCHANGED <<rIteration, rOutcome>>
        /\ rExecuted' = rExecuted \cup {<<rIteration, k>> : k \in DOMAIN r.calls \ R}
    BY <1>8 DEF Runtime!StartTools, Runtime!Say
  <2>2. a \in Runtime!Message /\ \A c : ~Reports(a, c)
    BY <1>6, <2>1
  <2>3. rRunning' = DOMAIN r.calls \ R /\ \A n \in 1 .. Len(rResults') : \E k \in R : rResults'[n] = Runtime!Entry(k, FALSE)
    BY <1>8, Started DEF Entries
  <2> HIDE DEF a, R
  <2>4. \A n \in 1 .. Len(rResults') : ~rResults'[n].ran
    <3>1. TAKE n \in 1 .. Len(rResults')
    <3>2. PICK k \in R : rResults'[n] = Runtime!Entry(k, FALSE)
      BY <2>3
    <3>3. Runtime!Entry(k, FALSE).ran = FALSE
      BY DEF Runtime!Entry
    <3>4. QED
      BY <3>2, <3>3
  <2>5. \A c : InWork(c)' <=> c \in {<<rIteration, k>> : k \in DOMAIN r.calls \ R}
    BY <2>1, <2>3, <2>4 DEF InWork
  <2>6. \A c : Recorded(c)' <=> Recorded(c)
    BY <1>3, <2>1, <2>2, Records
  <2>7. \A c : c \in rExecuted <=> Recorded(c)
    BY <1>4, <2>1 DEF Executed
  <2>8. rOutcome' = "none"
    BY <1>4, <2>1
  <2>9. \A c : c \in rExecuted' <=> c \in rExecuted \/ c \in {<<rIteration, k>> : k \in DOMAIN r.calls \ R}
    BY <2>1
  <2>10. \A c : c \in rExecuted' <=> Recorded(c)' \/ InWork(c)'
    BY <2>5, <2>6, <2>7, <2>9
  <2>11. QED
    BY <2>1, <2>8, <2>10 DEF Executed
<1>9. CASE Runtime!Collect
  <2> DEFINE rs == Runtime!InOrder(rResults)
             m == Runtime!Results(rs)
  <2>1. /\ rPc = "tools" /\ rRunning = {} /\ rMessages' = Append(rMessages, m) /\ rPc' # "tools"
        /\ UNCHANGED rExecuted
    BY <1>9 DEF Runtime!Collect, Runtime!Say, Runtime!End
  <2>2. rs \in Seq(Runtime!Result) /\ ToSet(rs) = ToSet(rResults)
    BY <2>1, Collected
  <2>3. m.kind = "results" /\ m.results = rs /\ m \in Runtime!Message
    <3> HIDE DEF rs
    <3>1. QED
      BY <2>2 DEF Runtime!Results, Runtime!Message
  <2> HIDE DEF rs, m
  <2>4. rResults \in Seq(Runtime!Result)
    BY DEF RuntimeTyped, Runtime!TypeOK
  <2>5. /\ \A n \in 1 .. Len(rResults) : \E k \in DOMAIN rs : rs[k] = rResults[n]
        /\ \A k \in DOMAIN rs : \E n \in 1 .. Len(rResults) : rResults[n] = rs[k]
    <3>1. /\ ToSet(rs) = {rs[k] : k \in 1 .. Len(rs)} /\ ToSet(rResults) = {rResults[k] : k \in 1 .. Len(rResults)}
          /\ DOMAIN rs = 1 .. Len(rs)
      BY <2>2, <2>4, SetOf
    <3>2. QED
      BY <2>2, <3>1
  <2>6. \A c : Reports(m, c) <=> InWork(c)
    BY <2>1, <2>3, <2>5 DEF Reports, InWork
  <2>7. \A c : Recorded(c)' <=> Recorded(c) \/ InWork(c)
    BY <1>3, <2>1, <2>3, <2>6, Records
  <2>8. \A c : c \in rExecuted <=> Recorded(c) \/ InWork(c)
    BY <1>4, <2>1 DEF Executed
  <2>9. QED
    BY <1>5, <2>1, <2>3, <2>7, <2>8 DEF Executed
<1>10. ASSUME NEW k \in rRunning, Runtime!ToolEnds(k) PROVE Executed'
  <2> DEFINE e == Runtime!Entry(k, TRUE)
  <2>1. /\ rPc = "tools" /\ rRunning' = rRunning \ {k} /\ rResults' = Append(rResults, e)
        /\ UNCHANGED <<rMessages, rPc, rIteration, rExecuted, rOutcome>>
    BY <1>10 DEF Runtime!ToolEnds, Runtime!said
  <2>2. rResults \in Seq(Runtime!Result) /\ e.call = <<rIteration, k>> /\ e.ran
    BY DEF RuntimeTyped, Runtime!TypeOK, Runtime!Entry
  <2> HIDE DEF e
  <2>3. Len(rResults') = Len(rResults) + 1 /\ Len(rResults) \in Nat /\ rResults'[Len(rResults) + 1] = e
        /\ \A n \in 1 .. Len(rResults) : rResults'[n] = rResults[n]
    BY <2>1, <2>2, AppendProperties, LenProperties
  <2>4. \A n : n \in 1 .. Len(rResults') <=> n \in 1 .. Len(rResults) \/ n = Len(rResults) + 1
    BY <2>3
  <2>5. \A c : InWork(c)' <=> InWork(c)
    <3>1. TAKE c
    <3>2. (\E n \in 1 .. Len(rResults') : rResults'[n].ran /\ rResults'[n].call = c)
          <=> (\E n \in 1 .. Len(rResults) : rResults[n].ran /\ rResults[n].call = c) \/ c = <<rIteration, k>>
      BY <2>2, <2>3, <2>4
    <3>3. (\E j \in rRunning : c = <<rIteration, j>>) <=> (\E j \in rRunning' : c = <<rIteration, j>>) \/ c = <<rIteration, k>>
      BY <2>1
    <3>4. QED
      BY <2>1, <3>2, <3>3 DEF InWork
  <2>6. \A c : Recorded(c)' <=> Recorded(c)
    BY <2>1 DEF Recorded
  <2>7. QED
    BY <2>1, <2>5, <2>6 DEF Executed
<1>11. QED
  BY <1>1, <1>2, <1>7, <1>8, <1>9, <1>10, RuntimeKinds

LEMMA RuntimeHandsOver == RuntimeTyped /\ Executed => Runtime!HandsOver
<1> SUFFICES ASSUME RuntimeTyped, Executed, rPc = "end", rOutcome # "failed"
             PROVE  /\ rExecuted = {r.call : r \in {s \in UNION {Runtime!ToSet(m.results) :
                          m \in {x \in Runtime!ToSet(rMessages) : x.kind = "results"}} : s.ran}}
                    /\ rOutcome # "stopped" => rMessages # <<>>
  BY DEF Runtime!HandsOver
<1>1. rMessages \in Seq(Runtime!Message) /\ rOutcome \in {"completed", "stalled", "limit", "stopped"}
  BY DEF RuntimeTyped, Runtime!TypeOK
<1> HIDE DEF Runtime!Message
<1>2. DOMAIN rMessages = 1 .. Len(rMessages)
  BY <1>1
<1> DEFINE M == {x \in Runtime!ToSet(rMessages) : x.kind = "results"}
           S == {s \in UNION {Runtime!ToSet(m.results) : m \in M} : s.ran}
<1>3. \A c : Recorded(c) <=> c \in {r.call : r \in S}
  <2>1. TAKE c
  <2>2. ASSUME Recorded(c) PROVE c \in {r.call : r \in S}
    <3>1. PICK n \in 1 .. Len(rMessages) :
             /\ rMessages[n].kind = "results"
             /\ \E k \in DOMAIN rMessages[n].results : rMessages[n].results[k].ran /\ rMessages[n].results[k].call = c
      BY <2>2 DEF Recorded
    <3>2. PICK k \in DOMAIN rMessages[n].results : rMessages[n].results[k].ran /\ rMessages[n].results[k].call = c
      BY <3>1
    <3>3. rMessages[n] \in M
      BY <1>2, <3>1 DEF Runtime!ToSet
    <3>4. rMessages[n].results[k] \in Runtime!ToSet(rMessages[n].results)
      BY DEF Runtime!ToSet
    <3>5. rMessages[n].results[k] \in S
      BY <3>2, <3>3, <3>4
    <3>6. QED
      BY <3>2, <3>5
  <2>3. ASSUME c \in {r.call : r \in S} PROVE Recorded(c)
    <3>1. PICK m \in M : \E s \in Runtime!ToSet(m.results) : s.ran /\ s.call = c
      BY <2>3
    <3>2. PICK n \in 1 .. Len(rMessages) : rMessages[n] = m /\ m.kind = "results"
      BY <1>2, <3>1 DEF Runtime!ToSet
    <3>3. PICK k \in DOMAIN m.results : m.results[k].ran /\ m.results[k].call = c
      BY <3>1 DEF Runtime!ToSet
    <3>4. QED
      BY <3>2, <3>3 DEF Recorded
  <2>4. QED
    BY <2>2, <2>3
<1>4. \A c : c \in rExecuted <=> c \in {r.call : r \in S}
  BY <1>3 DEF Executed
<1>5. rExecuted = {r.call : r \in S}
  <2> HIDE DEF S
  <2>1. QED
    BY <1>4
<1>6. QED
  BY <1>1, <1>5 DEF Executed
-----------------------------------------------------------------------------
(* Where the replies are, and what one more message changes.                 *)
LEMMA Placed ==
    ASSUME NEW ms \in Seq(Runtime!Message), NEW k \in Nat, Numbers(ms, k), NEW i \in 1 .. k
    PROVE  /\ At(ms, i) \in RepliesIn(ms) /\ ms[At(ms, i)].round = i
           /\ \A n \in RepliesIn(ms) : ms[n].round = i => n = At(ms, i)
<1> HIDE DEF Runtime!Message
<1>1. DOMAIN ms = 1 .. Len(ms)
  OBVIOUS
<1>2. \E n \in DOMAIN ms : ms[n].kind = "assistant" /\ ms[n].round = i
  BY <1>1 DEF Numbers, RepliesIn
<1>3. At(ms, i) \in DOMAIN ms /\ ms[At(ms, i)].kind = "assistant" /\ ms[At(ms, i)].round = i
  BY <1>2 DEF At
<1>4. At(ms, i) \in RepliesIn(ms)
  BY <1>1, <1>3 DEF RepliesIn
<1>5. QED
  BY <1>3, <1>4 DEF Numbers

LEMMA Speaks ==
    ASSUME NEW ms \in Seq(Runtime!Message), NEW m \in Runtime!Message, NEW k \in Nat, Numbers(ms, k),
           k = Cardinality(RepliesIn(ms)),
           m.kind = "assistant" => m.round = k + 1
    PROVE  LET t == Append(ms, m)
               l == IF m.kind = "assistant" THEN k + 1 ELSE k
           IN  /\ Numbers(t, l) /\ Cardinality(RepliesIn(t)) = l
               /\ m.kind = "assistant" => At(t, l) = Len(t) /\ t[Len(t)] = m
               /\ \A i \in 1 .. k :
                     /\ RoundAt(t, i) = RoundAt(ms, i) /\ At(t, i) = At(ms, i) /\ t[At(t, i)] = ms[At(ms, i)]
                     /\ Full(t, i) => \/ Full(ms, i)
                                      \/ At(ms, i) = Len(ms) /\ Runtime!Calls(ms[Len(ms)]) /\ AllRan(m)
                     /\ At(ms, i) = Len(ms) /\ Runtime!Calls(ms[Len(ms)]) /\ AllRan(m) => Full(t, i)
<1> HIDE DEF Runtime!Message
<1> DEFINE t == Append(ms, m)
           L == Len(ms)
           l == IF m.kind = "assistant" THEN k + 1 ELSE k
<1>1. t \in Seq(Runtime!Message) /\ Len(t) = L + 1 /\ L \in Nat /\ t[L + 1] = m /\ \A n \in 1 .. L : t[n] = ms[n]
  BY AppendProperties, LenProperties
<1> HIDE DEF t, L
<1>2. \A n : n \in 1 .. L + 1 <=> n \in 1 .. L \/ n = L + 1
  BY <1>1
<1>3. L + 1 \notin 1 .. L /\ k + 1 \notin 1 .. k /\ l \in Nat
  BY <1>1
<1>4. RepliesIn(ms) \subseteq 1 .. L /\ IsFiniteSet(RepliesIn(ms))
  <2>1. RepliesIn(ms) \subseteq 1 .. L /\ IsFiniteSet(1 .. L)
    BY <1>1, FS_Interval DEF RepliesIn, L
  <2>2. QED
    BY <2>1, FS_Subset
<1>5. RepliesIn(t) = IF m.kind = "assistant" THEN RepliesIn(ms) \cup {L + 1} ELSE RepliesIn(ms)
  <2>1. \A n : n \in RepliesIn(t) <=> (n \in 1 .. L /\ ms[n].kind = "assistant") \/ (n = L + 1 /\ m.kind = "assistant")
    BY <1>1, <1>2 DEF RepliesIn
  <2>2. \A n : n \in RepliesIn(ms) <=> n \in 1 .. L /\ ms[n].kind = "assistant"
    BY DEF RepliesIn, L
  <2>3. QED
    BY <2>1, <2>2
<1>6. Cardinality(RepliesIn(t)) = l
  <2>1. L + 1 \notin RepliesIn(ms)
    BY <1>3, <1>4
  <2>2. Cardinality(RepliesIn(ms) \cup {L + 1}) = k + 1
    BY <1>4, <2>1, FS_AddElement
  <2>3. QED
    BY <1>5, <2>2
<1>7. Numbers(t, l)
  <2>1. \A n \in RepliesIn(ms) : t[n] = ms[n] /\ ms[n].round \in 1 .. k
    BY <1>1, <1>4 DEF Numbers
  <2>2. CASE m.kind # "assistant"
    BY <1>5, <2>1, <2>2 DEF Numbers
  <2>3. CASE m.kind = "assistant"
    <3>1. l = k + 1 /\ m.round = k + 1 /\ \A i : i \in 1 .. l <=> i \in 1 .. k \/ i = k + 1
      BY <2>3
    <3>2. \A n \in RepliesIn(t) : t[n].round \in 1 .. l
      BY <1>1, <1>5, <2>1, <3>1
    <3>3. \A n \in RepliesIn(ms) : t[n].round # t[L + 1].round
      BY <1>1, <1>3, <2>1, <3>1
    <3>4. \A o, n \in RepliesIn(t) : t[o].round = t[n].round => o = n
      BY <1>5, <2>1, <3>3 DEF Numbers
    <3>5. \A i \in 1 .. l : \E n \in RepliesIn(t) : t[n].round = i
      <4>1. TAKE i \in 1 .. l
      <4>2. CASE i = k + 1
        BY <1>1, <1>5, <2>3, <3>1, <4>2
      <4>3. CASE i \in 1 .. k
        <5>1. PICK n \in RepliesIn(ms) : ms[n].round = i
          BY <4>3 DEF Numbers
        <5>2. n \in RepliesIn(t) /\ t[n].round = i
          BY <1>5, <2>1, <2>3, <5>1
        <5>3. QED
          BY <5>2
      <4>4. QED
        BY <3>1, <4>2, <4>3
    <3>6. QED
      BY <3>2, <3>4, <3>5 DEF Numbers
  <2>4. QED
    BY <2>2, <2>3
<1>8. ASSUME m.kind = "assistant" PROVE At(t, l) = L + 1
  <2>1. l = k + 1 /\ l \in 1 .. l /\ L + 1 \in RepliesIn(t) /\ t[L + 1].round = l
    BY <1>1, <1>5, <1>8
  <2>2. QED
    BY <1>1, <1>3, <1>7, <2>1, Placed
<1>9. ASSUME NEW i \in 1 .. k
      PROVE  /\ At(t, i) = At(ms, i) /\ t[At(t, i)] = ms[At(ms, i)]
             /\ Full(t, i) => \/ Full(ms, i)
                              \/ At(ms, i) = L /\ Runtime!Calls(ms[L]) /\ AllRan(m)
             /\ At(ms, i) = L /\ Runtime!Calls(ms[L]) /\ AllRan(m) => Full(t, i)
  <2> DEFINE p == At(ms, i)
  <2>1. p \in RepliesIn(ms) /\ ms[p].round = i
    BY Placed
  <2>2. p \in 1 .. L /\ t[p] = ms[p] /\ p \in RepliesIn(t) /\ i \in 1 .. l
    BY <1>1, <1>4, <1>5, <2>1
  <2>3. p = At(t, i)
    BY <1>1, <1>3, <1>7, <2>1, <2>2, Placed
  <2> HIDE DEF p
  <2>4. p # L => p < L /\ p + 1 \in 1 .. L /\ t[p + 1] = ms[p + 1]
    BY <1>1, <2>2
  <2>5. Full(ms, i) <=> Runtime!Calls(ms[p]) /\ p < L /\ AllRan(ms[p + 1])
    BY DEF Full, p, L
  <2>6. Full(t, i) <=> Runtime!Calls(ms[p]) /\ p < L + 1 /\ AllRan(t[p + 1])
    BY <1>1, <2>2, <2>3 DEF Full
  <2> HIDE DEF AllRan, Runtime!Calls
  <2>7. CASE p = L
    BY <1>1, <2>2, <2>3, <2>6, <2>7 DEF p
  <2>8. CASE p # L
    BY <1>1, <2>2, <2>3, <2>4, <2>5, <2>6, <2>8 DEF p
  <2>9. QED
    BY <2>7, <2>8
<1>10. QED
  BY <1>1, <1>6, <1>7, <1>8, <1>9 DEF RoundAt, t, L

(* What a step says: nothing, one message, or everything is dropped.         *)
LEMMA Utters ==
    ASSUME RuntimeTyped, Working, [Runtime!Next]_runtimeVars
    PROVE  \/ /\ UNCHANGED <<rMessages, rLastRound, rStalled>> /\ (rPc' = "tools") = (rPc = "tools")
              /\ \/ UNCHANGED <<rPc, rIteration, rOutcome>>
                 \/ rPc = "top" /\ rPc' = "request" /\ rIteration' = rIteration + 1 /\ UNCHANGED rOutcome
                 \/ rPc = "request" /\ rPc' = "stream" /\ UNCHANGED <<rIteration, rOutcome>>
                 \/ rPc \in {"top", "stream"} /\ rPc' = "end"
           \/ rMessages' = <<>> /\ rPc' = "end"
           \/ \E m \in Runtime!Message :
                 /\ rMessages' = Append(rMessages, m) /\ rPc = "stream" /\ rPc' \in {"top", "tools", "end"}
                 /\ m.kind = "assistant" /\ m.round = rIteration /\ UNCHANGED <<rIteration, rLastRound, rStalled>>
           \/ \E m \in Runtime!Message :
                 /\ rMessages' = Append(rMessages, m) /\ rPc = "tools" /\ rPc' \in {"top", "end"}
                 /\ m.kind = "results" /\ UNCHANGED rIteration
                 /\ AllRan(m) /\ GuardEnabled =>
                       /\ rLastRound' = Runtime!Round(LastSaid) /\ rStalled' = Runtime!Repeats(Runtime!Round(LastSaid))
                       /\ rStalled' >= MaxStalled => rOutcome' = "stalled"
<1> HIDE DEF Runtime!Message
<1>1. CASE Still
  BY <1>1 DEF Still
<1>2. CASE Runtime!ProviderFails
  BY <1>2 DEF Runtime!ProviderFails, Runtime!End
<1>3. ASSUME NEW r \in Replies, Runtime!AskToContinue(r) \/ Runtime!Complete(r) \/ Runtime!StartTools(r)
      PROVE  \E m \in Runtime!Message :
                 /\ rMessages' = Append(rMessages, m) /\ rPc = "stream" /\ rPc' \in {"top", "tools", "end"}
                 /\ m.kind = "assistant" /\ m.round = rIteration /\ UNCHANGED <<rIteration, rLastRound, rStalled>>
  <2> DEFINE a == Runtime!Assistant(rIteration, r)
  <2>1. /\ rMessages' = Append(rMessages, a) /\ rPc = "stream" /\ rPc' \in {"top", "tools", "end"}
        /\ UNCHANGED <<rIteration, rLastRound, rStalled>>
    BY <1>3 DEF Runtime!AskToContinue, Runtime!Complete, Runtime!StartTools, Runtime!Say, Runtime!End, Runtime!guard
  <2>2. rIteration \in 1 .. Budget
    BY <2>1 DEF RuntimeTyped, Runtime!TypeOK
  <2>3. a \in Runtime!Message /\ a.kind = "assistant" /\ a.round = rIteration
    BY <2>2, RuntimeReply
  <2>4. QED
    BY <2>1, <2>3
<1>4. CASE Runtime!Collect
  <2> DEFINE rs == Runtime!InOrder(rResults)
             m == Runtime!Results(rs)
             compared == \A n \in DOMAIN rResults : rResults[n].ran
  <2>1. /\ rPc = "tools" /\ rRunning = {} /\ rMessages' = Append(rMessages, m) /\ rPc' \in {"top", "end"}
        /\ UNCHANGED rIteration
        /\ compared => /\ Runtime!CompareRound(Runtime!Round(LastSaid))
                       /\ Runtime!Stalls(Runtime!Round(LastSaid)) => rOutcome' = "stalled"
    BY <1>4 DEF Runtime!Collect, Runtime!Say, Runtime!End, LastSaid
  <2>2. rs \in Seq(Runtime!Result) /\ ToSet(rs) = ToSet(rResults) /\ rResults \in Seq(Runtime!Result)
    BY <2>1, Collected DEF RuntimeTyped, Runtime!TypeOK
  <2>3. m.kind = "results" /\ m.results = rs /\ m \in Runtime!Message
    <3> HIDE DEF rs
    <3>1. QED
      BY <2>2 DEF Runtime!Results, Runtime!Message
  <2> HIDE DEF rs, m
  <2>4. AllRan(m) => compared
    <3>1. /\ ToSet(rs) = {rs[k] : k \in 1 .. Len(rs)} /\ ToSet(rResults) = {rResults[k] : k \in 1 .. Len(rResults)}
          /\ DOMAIN rs = 1 .. Len(rs) /\ DOMAIN rResults = 1 .. Len(rResults)
      BY <2>2, SetOf
    <3>2. \A n \in DOMAIN rResults : \E k \in DOMAIN rs : rs[k] = rResults[n]
      BY <2>2, <3>1
    <3>3. QED
      BY <2>3, <3>2 DEF AllRan
  <2>5. compared /\ GuardEnabled =>
           /\ rLastRound' = Runtime!Round(LastSaid) /\ rStalled' = Runtime!Repeats(Runtime!Round(LastSaid))
           /\ rStalled' >= MaxStalled => rOutcome' = "stalled"
    BY <2>1 DEF Runtime!CompareRound, Runtime!Stalls
  <2> HIDE DEF compared
  <2>6. QED
    BY <2>1, <2>3, <2>4, <2>5
<1>5. ASSUME NEW k \in rRunning, Runtime!ToolEnds(k)
      PROVE  UNCHANGED <<rMessages, rLastRound, rStalled, rPc, rIteration, rOutcome>>
  BY <1>5 DEF Runtime!ToolEnds, Runtime!said, Runtime!guard
<1>6. QED
  BY <1>1, <1>2, <1>3, <1>4, <1>5, RuntimeKinds

LEMMA SpokenNat == ASSUME RuntimeTyped PROVE Spoken \in Nat
<1>1. rMessages \in Seq(Runtime!Message)
  BY DEF RuntimeTyped, Runtime!TypeOK
<1> HIDE DEF Runtime!Message
<1>2. RepliesIn(rMessages) \subseteq 1 .. Len(rMessages) /\ IsFiniteSet(1 .. Len(rMessages))
  BY <1>1, FS_Interval, LenProperties DEF RepliesIn
<1>3. QED
  BY <1>2, FS_Subset, FS_CardinalityType DEF Spoken

LEMMA NoReplies == RepliesIn(<<>>) = {} /\ Cardinality(RepliesIn(<<>>)) = 0 /\ Numbers(<<>>, 0)
<1>1. RepliesIn(<<>>) = {}
  BY DEF RepliesIn
<1>2. Cardinality({}) = 0
  BY FS_EmptySet
<1>3. 1 .. 0 = {}
  OBVIOUS
<1>4. QED
  BY <1>1, <1>2, <1>3 DEF Numbers

LEMMA RuntimeNumbers ==
    ASSUME RuntimeTyped, Working, Numbered, [Runtime!Next]_runtimeVars
    PROVE  Numbered'
<1> HIDE DEF Runtime!Message
<1>1. rMessages \in Seq(Runtime!Message) /\ Spoken \in Nat /\ rIteration \in Nat
      /\ Numbers(rMessages, Spoken) /\ Spoken = Cardinality(RepliesIn(rMessages))
  BY SpokenNat DEF RuntimeTyped, Runtime!TypeOK, Numbered, Spoken
<1>2. CASE /\ UNCHANGED rMessages /\ (rPc' = "tools") = (rPc = "tools")
           /\ \/ UNCHANGED <<rPc, rIteration, rOutcome>>
              \/ rPc = "top" /\ rPc' = "request" /\ rIteration' = rIteration + 1 /\ UNCHANGED rOutcome
              \/ rPc = "request" /\ rPc' = "stream" /\ UNCHANGED <<rIteration, rOutcome>>
              \/ rPc \in {"top", "stream"} /\ rPc' = "end"
  <2>1. Spoken' = Spoken
    BY <1>2 DEF Spoken
  <2>2. QED
    BY <1>1, <1>2, <2>1 DEF Numbered
<1>3. CASE rMessages' = <<>> /\ rPc' = "end"
  BY <1>3, NoReplies DEF Numbered, Spoken
<1>4. ASSUME NEW m \in Runtime!Message, rMessages' = Append(rMessages, m), rPc = "stream",
             rPc' \in {"top", "tools", "end"}, m.kind = "assistant", m.round = rIteration, UNCHANGED rIteration
      PROVE  Numbered'
  <2>1. rIteration = Spoken + 1
    BY <1>1, <1>4 DEF Numbered
  <2>2. Numbers(rMessages', Spoken + 1) /\ Spoken' = Spoken + 1
    BY <1>1, <1>4, <2>1, Speaks DEF Spoken
  <2>3. QED
    BY <1>4, <2>1, <2>2 DEF Numbered
<1>5. ASSUME NEW m \in Runtime!Message, rMessages' = Append(rMessages, m), rPc = "tools",
             rPc' \in {"top", "end"}, m.kind = "results", UNCHANGED rIteration
      PROVE  Numbered'
  <2>1. Numbers(rMessages', Spoken) /\ Spoken' = Spoken
    BY <1>1, <1>5, Speaks DEF Spoken
  <2>2. QED
    BY <1>5, <2>1 DEF Numbered
<1>6. QED
  BY <1>2, <1>3, <1>4, <1>5, Utters

LEMMA RuntimeStalls ==
    ASSUME RuntimeTyped, Working, Followed, Numbered, Stalling, Stalls, [Runtime!Next]_runtimeVars
    PROVE  Stalling' /\ Stalls'
<1> HIDE DEF Runtime!Message
<1> USE RuntimeConstants
<1>1. rMessages \in Seq(Runtime!Message) /\ Spoken \in Nat /\ rIteration \in Nat /\ rStalled \in Nat
      /\ Numbers(rMessages, Spoken) /\ Spoken = Cardinality(RepliesIn(rMessages))
  BY SpokenNat DEF RuntimeTyped, Runtime!TypeOK, Numbered, Spoken
<1>2. rPc # "end" => rOutcome = "none"
  BY DEF RuntimeTyped, Runtime!TypeOK
<1>3. CASE /\ UNCHANGED <<rMessages, rLastRound, rStalled>> /\ (rPc' = "tools") = (rPc = "tools")
           /\ \/ UNCHANGED <<rPc, rIteration, rOutcome>>
              \/ rPc = "top" /\ rPc' = "request" /\ rIteration' = rIteration + 1 /\ UNCHANGED rOutcome
              \/ rPc = "request" /\ rPc' = "stream" /\ UNCHANGED <<rIteration, rOutcome>>
              \/ rPc \in {"top", "stream"} /\ rPc' = "end"
  <2>1. Spoken' = Spoken /\ Compared' = Compared
    BY <1>3 DEF Spoken, Compared
  <2>2. rOutcome = "stalled" => rOutcome' = rOutcome
    BY <1>2, <1>3
  <2>3. Stalling'
    BY <1>3, <2>1 DEF Stalling
  <2>4. Stalls'
    BY <1>3, <2>1, <2>2 DEF Stalls
  <2>5. QED
    BY <2>3, <2>4
<1>4. CASE rMessages' = <<>> /\ rPc' = "end"
  <2>1. Spoken' = 0 /\ Compared' = 0
    BY <1>4, NoReplies DEF Spoken, Compared
  <2>2. 1 .. 0 = {} /\ 1 .. (0 - MaxStalled) = {}
    OBVIOUS
  <2>3. QED
    BY <2>1, <2>2 DEF Stalling, Stalls
<1>5. ASSUME NEW t, NEW i \in Nat, NEW j \in Nat, i <= j, Same(t, i, j),
             \A n \in i .. j : RoundAt(t, n) = RoundAt(rMessages, n) /\ (Full(t, n) => Full(rMessages, n))
      PROVE  Same(rMessages, i, j)
  <2>1. i \in i .. j
    BY <1>5
  <2>2. QED
    BY <1>5, <2>1 DEF Same
<1>6. ASSUME NEW i \in Nat \ {0}, Same(rMessages, i, i + MaxStalled), i + MaxStalled <= Spoken, GuardEnabled
      PROVE  rOutcome = "stalled"
  <2>1. i \in 1 .. Spoken - MaxStalled
    BY <1>1, <1>6
  <2>2. QED
    BY <1>6, <2>1 DEF Stalls
<1>7. ASSUME NEW m \in Runtime!Message, rMessages' = Append(rMessages, m), rPc = "stream",
             rPc' \in {"top", "tools", "end"}, m.kind = "assistant", m.round = rIteration,
             UNCHANGED <<rIteration, rLastRound, rStalled>>
      PROVE  Stalling' /\ Stalls'
  <2> DEFINE t == Append(rMessages, m)
  <2>1. rIteration = Spoken + 1
    BY <1>1, <1>7 DEF Numbered
  <2>2. /\ Cardinality(RepliesIn(t)) = Spoken + 1 /\ At(t, Spoken + 1) = Len(t)
        /\ \A i \in 1 .. Spoken :
              /\ RoundAt(t, i) = RoundAt(rMessages, i)
              /\ Full(t, i) => \/ Full(rMessages, i)
                               \/ At(rMessages, i) = Len(rMessages) /\ Runtime!Calls(rMessages[Len(rMessages)])
    BY <1>1, <1>7, <2>1, Speaks
  <2>3. Spoken' = Spoken + 1
    BY <1>7, <2>2 DEF Spoken
  <2>4. ~Full(t, Spoken + 1)
    <3>1. Len(t) \in Nat
      BY <1>1
    <3>2. ~(Len(t) < Len(t))
      BY <3>1
    <3>3. QED
      BY <2>2, <3>2 DEF Full
  <2> HIDE DEF t
  <2>5. \A i \in 1 .. Spoken : RoundAt(t, i) = RoundAt(rMessages, i) /\ (Full(t, i) => Full(rMessages, i))
    <3>1. TAKE i \in 1 .. Spoken
    <3>2. At(rMessages, i) \in 1 .. Len(rMessages)
      BY <1>1, Placed DEF RepliesIn
    <3>3. At(rMessages, i) = Len(rMessages) => ~Runtime!Calls(rMessages[Len(rMessages)])
      BY <1>7, <3>2 DEF Followed, Chain
    <3>4. QED
      BY <2>2, <3>3
  <2>6. ASSUME NEW i \in Nat, NEW j \in Nat, Same(t, i, j), 1 <= i, i <= j, j <= Spoken + 1
        PROVE  j <= Spoken /\ Same(rMessages, i, j)
    <3>1. j \in i .. j
      BY <2>6
    <3>2. Full(t, j)
      BY <2>6, <3>1 DEF Same
    <3>3. j <= Spoken
      BY <1>1, <2>4, <2>6, <3>2
    <3>4. \A n \in i .. j : RoundAt(t, n) = RoundAt(rMessages, n) /\ (Full(t, n) => Full(rMessages, n))
      BY <1>1, <2>5, <2>6, <3>3
    <3>5. QED
      BY <1>5, <2>6, <3>3, <3>4
  <2>7. Stalling'
    <3>1. SUFFICES ASSUME GuardEnabled, NEW i \in 1 .. Compared', Same(t, i, Compared')
                   PROVE  rLastRound = RoundAt(t, i) /\ rStalled >= Compared' - i
      BY <1>7 DEF Stalling, t
    <3>2. Compared' \in Nat /\ Compared' <= Spoken + 1 /\ 1 <= i /\ i <= Compared' /\ i \in Nat
          /\ (Compared' <= Spoken => Compared' = Spoken /\ Compared = Spoken)
      BY <1>1, <1>7, <2>3 DEF Compared
    <3>3. Compared' <= Spoken /\ Same(rMessages, i, Compared')
      BY <2>6, <3>1, <3>2
    <3>4. i \in 1 .. Compared /\ Compared' = Compared
      BY <3>2, <3>3
    <3>5. rLastRound = RoundAt(rMessages, i) /\ rStalled >= Compared - i
      BY <3>1, <3>3, <3>4 DEF Stalling
    <3>6. i \in 1 .. Spoken
      BY <1>1, <3>2, <3>3
    <3>7. QED
      BY <2>5, <3>4, <3>5, <3>6
  <2>8. Stalls'
    <3>1. SUFFICES ASSUME GuardEnabled, NEW i \in 1 .. Spoken' - MaxStalled, Same(t, i, i + MaxStalled) PROVE FALSE
      BY <1>7 DEF Stalls, t
    <3>2. i \in Nat /\ 1 <= i /\ i <= i + MaxStalled /\ i + MaxStalled <= Spoken + 1 /\ i + MaxStalled \in Nat
      BY <1>1, <2>3
    <3>3. i + MaxStalled <= Spoken /\ Same(rMessages, i, i + MaxStalled)
      BY <2>6, <3>1, <3>2
    <3>4. QED
      BY <1>2, <1>6, <1>7, <3>1, <3>2, <3>3
  <2>9. QED
    BY <2>7, <2>8
<1>8. ASSUME NEW m \in Runtime!Message, rMessages' = Append(rMessages, m), rPc = "tools", rPc' \in {"top", "end"},
             m.kind = "results", UNCHANGED rIteration,
             AllRan(m) /\ GuardEnabled =>
                /\ rLastRound' = Runtime!Round(LastSaid) /\ rStalled' = Runtime!Repeats(Runtime!Round(LastSaid))
                /\ rStalled' >= MaxStalled => rOutcome' = "stalled"
      PROVE  Stalling' /\ Stalls'
  <2> DEFINE t == Append(rMessages, m)
             k == Spoken
  <2>1. /\ Cardinality(RepliesIn(t)) = k
        /\ \A i \in 1 .. k :
              /\ RoundAt(t, i) = RoundAt(rMessages, i)
              /\ Full(t, i) => \/ Full(rMessages, i)
                               \/ At(rMessages, i) = Len(rMessages) /\ AllRan(m)
    BY <1>1, <1>8, Speaks
  <2>2. Spoken' = k /\ Compared' = k /\ Compared = k - 1
    BY <1>8, <2>1 DEF Spoken, Compared
  <2>3. k = rIteration /\ Len(rMessages) \in RepliesIn(rMessages) /\ rMessages[Len(rMessages)].round = k
    <3>1. rMessages # <<>> /\ LastSaid.kind = "assistant" /\ LastSaid.round = rIteration
      BY <1>8 DEF Working, Runtime!Calls
    <3>2. Len(rMessages) \in 1 .. Len(rMessages)
      BY <1>1, <3>1, EmptySeq, LenProperties
    <3>3. QED
      BY <1>8, <3>1, <3>2 DEF Numbered, RepliesIn, LastSaid
  <2>4. k \in 1 .. k
    BY <1>1, <2>3 DEF Numbered, Numbers
  <2>5. At(rMessages, k) = Len(rMessages) /\ RoundAt(rMessages, k) = Runtime!Round(LastSaid)
    <3>1. At(rMessages, k) = Len(rMessages)
      BY <1>1, <2>3, <2>4, Placed
    <3>2. QED
      BY <3>1 DEF RoundAt, LastSaid
  <2>6. \A i \in 1 .. k - 1 : At(rMessages, i) # Len(rMessages)
    <3>1. TAKE i \in 1 .. k - 1
    <3>2. i \in 1 .. k /\ i # k
      BY <1>1
    <3>3. rMessages[At(rMessages, i)].round = i
      BY <1>1, <3>2, Placed
    <3>4. QED
      BY <2>3, <3>2, <3>3
  <2>7. Full(t, k) => AllRan(m)
    <3>1. ~Full(rMessages, k)
      <4>1. ~(Len(rMessages) < Len(rMessages))
        BY <1>1, LenProperties
      <4>2. QED
        BY <2>5, <4>1 DEF Full
    <3>2. QED
      BY <2>1, <2>4, <3>1
  <2> HIDE DEF t, k
  <2>8. \A i \in 1 .. k - 1 : RoundAt(t, i) = RoundAt(rMessages, i) /\ (Full(t, i) => Full(rMessages, i))
    <3>1. TAKE i \in 1 .. k - 1
    <3>2. i \in 1 .. k
      BY <1>1 DEF k
    <3>3. QED
      BY <2>1, <2>6, <3>2
  <2>9. ASSUME NEW i \in Nat, NEW j \in Nat, Same(t, i, j), 1 <= i, i <= j, j <= k - 1
        PROVE  Same(rMessages, i, j)
    <3>1. \A n \in i .. j : n \in 1 .. k - 1
      BY <1>1, <2>9 DEF k
    <3>2. \A n \in i .. j : RoundAt(t, n) = RoundAt(rMessages, n) /\ (Full(t, n) => Full(rMessages, n))
      BY <2>8, <3>1
    <3>3. QED
      BY <1>5, <2>9, <3>2
  <2>10. ASSUME GuardEnabled, NEW i \in 1 .. k, Same(t, i, k)
         PROVE  rLastRound' = RoundAt(t, i) /\ rStalled' >= k - i /\ (rStalled' >= MaxStalled => rOutcome' = "stalled")
                /\ rStalled' \in Nat
    <3>1. Full(t, k) /\ RoundAt(t, k) = RoundAt(t, i) /\ k \in Nat /\ i \in Nat /\ 1 <= i /\ i <= k
      <4>1. k \in i .. k /\ k \in Nat /\ i \in Nat /\ 1 <= i /\ i <= k
        BY <1>1 DEF k
      <4>2. QED
        BY <2>10, <4>1 DEF Same
    <3>2. /\ rLastRound' = Runtime!Round(LastSaid) /\ rStalled' = Runtime!Repeats(Runtime!Round(LastSaid))
          /\ rStalled' >= MaxStalled => rOutcome' = "stalled"
      BY <1>8, <2>7, <2>10, <3>1
    <3>3. rLastRound' = RoundAt(t, i)
      BY <2>1, <2>4, <2>5, <3>1, <3>2
    <3>4. rStalled' \in Nat
      BY <1>1, <3>2 DEF Runtime!Repeats
    <3>5. CASE i = k
      BY <3>1, <3>2, <3>3, <3>4, <3>5
    <3>6. CASE i # k
      <4>1. i \in 1 .. Compared /\ k - 1 \in Nat /\ i <= k - 1
        BY <2>2, <3>1, <3>6
      <4>2. Same(t, i, k - 1)
        <5>1. \A n \in i .. k - 1 : n \in i .. k
          BY <3>1
        <5>2. QED
          BY <2>10, <5>1 DEF Same
      <4>3. Same(rMessages, i, Compared)
        BY <2>2, <2>9, <3>1, <4>1, <4>2
      <4>4. rLastRound = RoundAt(rMessages, i) /\ rStalled >= Compared - i
        BY <2>10, <4>1, <4>3 DEF Stalling
      <4>5. RoundAt(t, i) = RoundAt(rMessages, i)
        BY <2>1
      <4>6. rStalled' = rStalled + 1
        BY <3>2, <3>3, <4>4, <4>5 DEF Runtime!Repeats
      <4>7. rStalled' >= k - i
        BY <1>1, <2>2, <3>1, <4>4, <4>6
      <4>8. QED
        BY <3>2, <3>3, <3>4, <4>7
    <3>7. QED
      BY <3>5, <3>6
  <2>11. Stalling'
    BY <1>8, <2>2, <2>10 DEF Stalling, t
  <2>12. Stalls'
    <3>1. SUFFICES ASSUME GuardEnabled, NEW i \in 1 .. k - MaxStalled, Same(t, i, i + MaxStalled)
                   PROVE  rOutcome' = "stalled" /\ k = i + MaxStalled
      BY <1>8, <2>2 DEF Stalls, t
    <3>2. i \in Nat \ {0} /\ i + MaxStalled <= k /\ i + MaxStalled \in Nat /\ i <= i + MaxStalled /\ k \in Nat /\ i \in 1 .. k
      BY <1>1 DEF k
    <3>3. CASE i + MaxStalled = k
      <4>1. rStalled' >= k - i /\ rStalled' \in Nat /\ (rStalled' >= MaxStalled => rOutcome' = "stalled")
        BY <2>10, <3>1, <3>2, <3>3
      <4>2. rStalled' >= MaxStalled
        BY <3>2, <3>3, <4>1
      <4>3. QED
        BY <3>3, <4>1, <4>2
    <3>4. CASE i + MaxStalled # k
      <4>1. i + MaxStalled <= k - 1
        BY <3>2, <3>4
      <4>2. Same(rMessages, i, i + MaxStalled)
        BY <2>9, <3>1, <3>2, <4>1
      <4>3. rOutcome = "stalled"
        BY <1>6, <3>1, <3>2, <4>2 DEF k
      <4>4. QED
        BY <1>2, <1>8, <4>3
    <3>5. QED
      BY <3>3, <3>4
  <2>13. QED
    BY <2>11, <2>12
<1>9. QED
  BY <1>3, <1>4, <1>7, <1>8, Utters

LEMMA RuntimeStallsEnd == RuntimeTyped /\ Stalls => Runtime!StallsEnd
<1> SUFFICES ASSUME RuntimeTyped, Stalls PROVE Runtime!StallsEnd
  OBVIOUS
<1>1. DOMAIN rMessages = 1 .. Len(rMessages)
  BY DEF RuntimeTyped, Runtime!TypeOK
<1>2. Spoken = Runtime!Cardinality({n \in DOMAIN rMessages : rMessages[n].kind = "assistant"})
  BY <1>1 DEF Spoken, RepliesIn, Runtime!Cardinality, Cardinality
<1>3. \A i : At(rMessages, i) = Runtime!Position(i)
  BY DEF At, Runtime!Position
<1>4. \A i : Full(rMessages, i) <=> Runtime!FullRound(i)
  BY <1>3 DEF Full, AllRan, Runtime!FullRound
<1>5. \A i, j : Same(rMessages, i, j) <=> Runtime!SameRounds(i, j)
  BY <1>3, <1>4 DEF Same, RoundAt, Runtime!SameRounds
<1>6. QED
  BY <1>2, <1>5 DEF Stalls, Runtime!StallsEnd
-----------------------------------------------------------------------------
(* The guard and the calls it has judged.                                    *)
LEMMA StreakGrows ==
    ASSUME NEW g, NEW n \in Nat, NEW d, Streak(g, n, d)
    PROVE  Streak(g, n + 1, IF g[n + 1] = g[n] THEN d + 1 ELSE 0)
<1>1. d \in 0 .. n - 1 /\ (\A k \in n - d .. n : g[k] = g[n]) /\ (n - d > 1 => g[n - d - 1] # g[n])
  BY DEF Streak
<1>2. d \in Nat /\ d < n
  BY <1>1
<1>3. CASE g[n + 1] = g[n]
  <2>1. d + 1 \in 0 .. (n + 1) - 1 /\ (n + 1) - (d + 1) = n - d
    BY <1>2
  <2>2. \A k \in n - d .. n + 1 : k \in n - d .. n \/ k = n + 1
    BY <1>2
  <2>3. \A k \in n - d .. n + 1 : g[k] = g[n + 1]
    BY <1>1, <1>3, <2>2
  <2>4. QED
    BY <1>1, <1>3, <2>1, <2>3 DEF Streak
<1>4. CASE g[n + 1] # g[n]
  <2>1. 0 \in 0 .. (n + 1) - 1 /\ (n + 1) - 0 = n + 1 /\ (n + 1) - 0 - 1 = n
    BY <1>2
  <2>2. \A k \in n + 1 .. n + 1 : k = n + 1
    OBVIOUS
  <2>3. QED
    BY <1>4, <2>1, <2>2 DEF Streak
<1>5. QED
  BY <1>3, <1>4

LEMMA StreakMeans ==
    ASSUME NEW g, NEW n \in Nat, NEW d, Streak(g, n, d)
    PROVE  Differs(g, n) <=> ~(d >= MaxDuplicates)
<1> USE RuntimeConstants
<1>1. d \in 0 .. n - 1 /\ (\A k \in n - d .. n : g[k] = g[n]) /\ (n - d > 1 => g[n - d - 1] # g[n])
  BY DEF Streak
<1>2. d \in Nat /\ d < n
  BY <1>1
<1>3. CASE d >= MaxDuplicates
  <2>1. n > MaxDuplicates /\ \A k \in n - MaxDuplicates .. n : k \in n - d .. n
    BY <1>2, <1>3
  <2>2. QED
    BY <1>1, <1>3, <2>1 DEF Differs
<1>4. CASE d < MaxDuplicates
  <2>1. CASE n <= MaxDuplicates
    BY <1>2, <1>4, <2>1 DEF Differs
  <2>2. CASE n > MaxDuplicates
    <3>1. n - d > 1 /\ n - d - 1 \in n - MaxDuplicates .. n
      BY <1>2, <1>4, <2>2
    <3>2. QED
      BY <1>1, <1>2, <1>4, <3>1 DEF Differs
  <2>3. QED
    BY <2>1, <2>2
<1>5. QED
  BY <1>2, <1>3, <1>4

LEMMA SignedConcat ==
    ASSUME NEW s \in Seq(Decision), NEW q \in Seq(Decision)
    PROVE  /\ s \o q \in Seq(Decision) /\ Len(s \o q) = Len(s) + Len(q) /\ Len(s) \in Nat /\ Len(q) \in Nat
           /\ \A k \in 1 .. Len(s) : (s \o q)[k] = s[k] /\ Signed(s \o q)[k] = Signed(s)[k]
           /\ \A k \in 1 .. Len(q) : /\ (s \o q)[Len(s) + k] = q[k]
                                     /\ Signed(s \o q)[Len(s) + k] = Runtime!SignatureOf(q[k].call)
<1> DEFINE u == s \o q
           V == Decision
<1>1. s \in Seq(V) /\ q \in Seq(V)
  OBVIOUS
<1> HIDE DEF V
<1>2. u \in Seq(V) /\ Len(u) = Len(s) + Len(q) /\ Len(s) \in Nat /\ Len(q) \in Nat
  BY <1>1, ConcatProperties, LenProperties
<1>3. \A k \in 1 .. Len(s) : k \in 1 .. Len(u) /\ u[k] = s[k]
  BY <1>1, <1>2, ConcatProperties
<1>4. \A k \in 1 .. Len(q) : Len(s) + k \in 1 .. Len(u) /\ u[Len(s) + k] = q[k]
  <2>1. TAKE k \in 1 .. Len(q)
  <2>2. Len(s) + k \in 1 .. Len(u) /\ Len(s) + k > Len(s) /\ (Len(s) + k) - Len(s) = k
    BY <1>2
  <2>3. QED
    BY <1>1, <1>2, <2>2, ConcatProperties
<1> HIDE DEF u
<1>5. /\ \A k \in 1 .. Len(u) : Signed(u)[k] = Runtime!SignatureOf(u[k].call)
      /\ \A k \in 1 .. Len(s) : Signed(s)[k] = Runtime!SignatureOf(s[k].call)
  BY DEF Signed
<1>6. QED
  BY <1>2, <1>3, <1>4, <1>5 DEF u, V

(* What is judged first does not depend on what is judged later.             *)
LEMMA RefusesFirst ==
    ASSUME NEW s \in Seq(Decision), NEW q \in Seq(Decision)
    PROVE  /\ \A n \in 1 .. Len(s) : Differs(Signed(s \o q), n) <=> Differs(Signed(s), n)
           /\ Refuses(s \o q) <=> /\ Refuses(s)
                                  /\ \A k \in 1 .. Len(q) : q[k].ran <=> Differs(Signed(s \o q), Len(s) + k)
<1> DEFINE u == s \o q
           l == Len(s)
<1>1. /\ Len(u) = l + Len(q) /\ l \in Nat /\ Len(q) \in Nat
      /\ \A k \in 1 .. l : u[k] = s[k] /\ Signed(u)[k] = Signed(s)[k]
      /\ \A k \in 1 .. Len(q) : u[l + k] = q[k]
  BY SignedConcat
<1> HIDE DEF u
<1>2. ASSUME NEW n \in 1 .. l PROVE Differs(Signed(u), n) <=> Differs(Signed(s), n)
  <2>1. CASE n <= MaxDuplicates
    BY <2>1 DEF Differs
  <2>2. CASE ~(n <= MaxDuplicates)
    <3>1. \A k \in n - MaxDuplicates .. n : k \in 1 .. l
      BY <1>1, <2>2, RuntimeConstants DEF l
    <3>2. QED
      BY <1>1, <3>1 DEF Differs, l
  <2>3. QED
    BY <2>1, <2>2
<1> HIDE DEF l
<1>3. \A n : n \in 1 .. Len(u) <=> n \in 1 .. l \/ \E k \in 1 .. Len(q) : n = l + k
  <2>1. TAKE n
  <2>2. n \in 1 .. Len(u) /\ n \notin 1 .. l => n - l \in 1 .. Len(q) /\ n = l + (n - l)
    BY <1>1
  <2>3. QED
    BY <1>1, <2>2
<1>4. Refuses(s) <=> \A n \in 1 .. l : u[n].ran <=> Differs(Signed(u), n)
  BY <1>1, <1>2 DEF Refuses, l
<1>5. (\A k \in 1 .. Len(q) : q[k].ran <=> Differs(Signed(u), l + k))
        <=> \A k \in 1 .. Len(q) : u[l + k].ran <=> Differs(Signed(u), l + k)
  BY <1>1
<1>6. Refuses(u) <=> /\ \A n \in 1 .. l : u[n].ran <=> Differs(Signed(u), n)
                     /\ \A k \in 1 .. Len(q) : u[l + k].ran <=> Differs(Signed(u), l + k)
  <2> DEFINE P(n) == u[n].ran <=> Differs(Signed(u), n)
  <2>1. Refuses(u) <=> \A n \in 1 .. Len(u) : P(n)
    BY DEF Refuses
  <2> HIDE DEF P
  <2>2. (\A n \in 1 .. Len(u) : P(n)) <=> (\A n \in 1 .. l : P(n)) /\ \A k \in 1 .. Len(q) : P(l + k)
    BY <1>3
  <2>3. QED
    BY <2>1, <2>2 DEF P
<1>7. QED
  BY <1>2, <1>4, <1>5, <1>6 DEF u, l

LEMMA StreakFirst ==
    ASSUME NEW g, NEW h, NEW n \in Nat, NEW d, Streak(g, n, d), \A k \in 1 .. n : g[k] = h[k]
    PROVE  Streak(h, n, d)
<1>1. d \in Nat /\ d < n /\ n \in 1 .. n /\ \A k \in n - d .. n : k \in 1 .. n
  BY DEF Streak
<1>2. n - d > 1 => n - d - 1 \in 1 .. n
  BY <1>1
<1>3. QED
  BY <1>1, <1>2 DEF Streak

LEMMA Rules ==
    ASSUME NEW ms \in Seq(Runtime!Message), NEW open, Chain(ms, open), NEW n \in 1 .. Len(ms)
    PROVE  Rulings(ms, n) \in Seq(Decision)
<1>1. CASE ms[n].kind # "results"
  <2>1. <<>> \in Seq(Decision)
    OBVIOUS
  <2>2. QED
    BY <1>1, <2>1 DEF Rulings
<1>2. CASE ms[n].kind = "results"
  <2>1. n > 1 /\ Runtime!Calls(ms[n - 1]) /\ Runtime!Answers(ms[n], ms[n - 1])
    BY <1>2 DEF Chain
  <2>2. n - 1 \in 1 .. Len(ms)
    BY <2>1
  <2>3. ms[n] \in Runtime!Message /\ ms[n - 1] \in Runtime!Message
    <3> HIDE DEF Runtime!Message
    <3>1. QED
      BY <2>2
  <2>4. ms[n].results \in Seq(Runtime!Result) /\ ms[n - 1].calls \in Seq(Runtime!Call)
    BY <1>2, <2>1, <2>3 DEF Runtime!Message, Runtime!Calls
  <2> DEFINE rs == ms[n].results
             cs == ms[n - 1].calls
             d == [k \in DOMAIN rs |-> [call |-> cs[k], ran |-> rs[k].ran]]
  <2>5. DOMAIN rs = DOMAIN cs
    BY <2>1 DEF Runtime!Answers
  <2>6. Rulings(ms, n) = d
    BY <1>2 DEF Rulings
  <2> HIDE DEF rs, cs
  <2>7. rs \in Seq(Runtime!Result) /\ cs \in Seq(Runtime!Call)
    BY <2>4 DEF rs, cs
  <2>8. DOMAIN rs = 1 .. Len(rs) /\ Len(rs) \in Nat /\ \A k \in 1 .. Len(rs) : rs[k] \in Runtime!Result /\ cs[k] \in Runtime!Call
    BY <2>5, <2>7
  <2>9. \A k \in 1 .. Len(rs) : [call |-> cs[k], ran |-> rs[k].ran] \in Decision
    BY <2>8 DEF Runtime!Result, Decision
  <2> HIDE DEF Decision
  <2>10. d \in Seq(Decision)
    BY <2>8, <2>9
  <2>11. QED
    BY <2>6, <2>10
<1>3. QED
  BY <1>1, <1>2

LEMMA JudgedGrows ==
    ASSUME NEW ms \in Seq(Runtime!Message), NEW m \in Runtime!Message, NEW open, NEW open2,
           Chain(ms, open), Chain(Append(ms, m), open2)
    PROVE  /\ JudgedIn(ms) \in Seq(Decision) /\ Rulings(Append(ms, m), Len(ms) + 1) \in Seq(Decision)
           /\ JudgedIn(Append(ms, m)) = JudgedIn(ms) \o Rulings(Append(ms, m), Len(ms) + 1)
<1> HIDE DEF Runtime!Message, Decision
<1> DEFINE t == Append(ms, m)
           l == Len(ms)
           W == Seq(Decision)
           f == [n \in 1 .. l |-> Rulings(ms, n)]
           x == Rulings(t, l + 1)
<1>1. t \in Seq(Runtime!Message) /\ Len(t) = l + 1 /\ l \in Nat /\ \A n \in 1 .. l : t[n] = ms[n]
  BY AppendProperties, LenProperties
<1>2. DOMAIN t = 1 .. l + 1 /\ DOMAIN ms = 1 .. l
  BY <1>1
<1> HIDE DEF t, l
<1>3. \A n \in 1 .. l : Rulings(ms, n) \in W
  BY Rules DEF l
<1>4. x \in W
  <2>1. Chain(t, open2) /\ l + 1 \in 1 .. Len(t)
    BY <1>1 DEF t
  <2>2. QED
    BY <1>1, <2>1, Rules
<1>5. \A n \in 1 .. l : Rulings(t, n) = Rulings(ms, n)
  <2>1. TAKE n \in 1 .. l
  <2>2. t[n] = ms[n] /\ (ms[n].kind = "results" => n > 1)
    BY <1>1 DEF Chain, l
  <2>3. n > 1 => t[n - 1] = ms[n - 1]
    BY <1>1
  <2>4. QED
    BY <2>2, <2>3 DEF Rulings
<1> HIDE DEF W
<1>6. f \in Seq(W) /\ Len(f) = l
  <2>1. f \in [1 .. l -> W]
    BY <1>3
  <2>2. QED
    BY <1>1, <2>1
<1> HIDE DEF x
<1>7. [n \in DOMAIN t |-> Rulings(t, n)] = Append(f, x)
  <2> DEFINE h == Append(f, x)
  <2>3. \A n \in 1 .. l : f[n] = Rulings(ms, n)
    OBVIOUS
  <2> HIDE DEF f
  <2>1. h \in Seq(W) /\ Len(h) = l + 1 /\ h[l + 1] = x /\ \A n \in 1 .. l : h[n] = f[n]
    BY <1>4, <1>6, AppendProperties
  <2> HIDE DEF h
  <2>2. DOMAIN h = 1 .. l + 1 /\ h = [n \in 1 .. l + 1 |-> h[n]]
    BY <2>1
  <2>4. \A n \in 1 .. l + 1 : n \in 1 .. l \/ n = l + 1
    BY <1>1
  <2>5. \A n \in 1 .. l + 1 : h[n] = Rulings(t, n)
    BY <1>5, <2>1, <2>3, <2>4 DEF x
  <2>6. QED
    BY <1>2, <2>2, <2>5 DEF h
<1>8. FlattenSeq(Append(f, x)) = FlattenSeq(f) \o x /\ FlattenSeq(f) \in Seq(Decision)
  BY <1>4, <1>6, FlattenAppend, Flatten DEF W
<1>9. JudgedIn(ms) = FlattenSeq(f)
  BY <1>2 DEF JudgedIn
<1>10. QED
  BY <1>4, <1>7, <1>8, <1>9 DEF JudgedIn, t, l, W, x

(* The guard judges the calls of a reply.                                    *)
LEMMA GuardJudges ==
    ASSUME rDuplicates \in Nat, GuardEnabled,
           NEW calls \in Seq(Runtime!Call), calls # <<>>, Runtime!Judge(calls),
           NEW s \in Seq(Decision), Guarded(s, rLastCall, rDuplicates),
           NEW q \in Seq(Decision), Len(q) = Len(calls),
           \A k \in 1 .. Len(calls) : q[k].call = calls[k] /\ (q[k].ran <=> k \notin Runtime!Rejected(calls))
    PROVE  Guarded(s \o q, rLastCall', rDuplicates')
<1> DEFINE u == s \o q
           g == Signed(u)
           l == Len(s)
           n == Len(calls)
           c == Runtime!Counts(calls)
           sig(k) == Runtime!SignatureOf(calls[k])
<1>1. /\ u \in Seq(Decision) /\ Len(u) = l + n /\ l \in Nat /\ n \in Nat /\ n > 0 /\ DOMAIN calls = 1 .. n
      /\ \A k \in 1 .. l : g[k] = Signed(s)[k]
      /\ \A k \in 1 .. n : g[l + k] = sig(k)
  <2>1. n > 0 /\ DOMAIN calls = 1 .. n
    BY EmptySeq, LenProperties
  <2>2. /\ u \in Seq(Decision) /\ Len(u) = l + Len(q) /\ l \in Nat /\ Len(q) \in Nat
        /\ \A k \in 1 .. l : Signed(u)[k] = Signed(s)[k]
        /\ \A k \in 1 .. Len(q) : Signed(u)[l + k] = Runtime!SignatureOf(q[k].call)
    BY SignedConcat
  <2> HIDE DEF u, l
  <2>3. QED
    BY <2>1, <2>2
<1>2. /\ c[0] = rDuplicates /\ \A k \in 0 .. n : c[k] \in Nat
      /\ \A k \in 1 .. n : c[k] = IF sig(k) = Before(calls, k) THEN c[k - 1] + 1 ELSE 0
  BY Counted
<1>3. rLastCall' = sig(n) /\ rDuplicates' = c[n]
  BY DEF Runtime!Judge
<1>4. s # <<>> => l > 0
  BY EmptySeq, LenProperties
<1>5. s = <<>> => l = 0 /\ rLastCall = Nothing /\ rDuplicates = 0
  BY DEF Guarded
<1>6. s # <<>> => rLastCall = Signed(s)[l] /\ Streak(Signed(s), l, rDuplicates)
  BY DEF Guarded
<1>7. \A k \in 1 .. n : sig(k) # Nothing
  <2>1. TAKE k \in 1 .. n
  <2>2. calls[k] \in Runtime!Call
    BY <1>1
  <2>3. sig(k) \in Runtime!Signature
    BY <2>2, RuntimeSignature
  <2>4. QED
    BY <2>3, RuntimeConstants
<1> HIDE DEF u, g, c, sig, l, n
<1>8. \A k \in Nat : k \in 1 .. n => Streak(g, l + k, c[k])
  <2> DEFINE S == {k \in Nat : k \in 1 .. n => Streak(g, l + k, c[k])}
  <2>1. 0 \in S
    OBVIOUS
  <2>2. ASSUME NEW k \in S PROVE k + 1 \in S
    <3>1. SUFFICES ASSUME k + 1 \in 1 .. n PROVE Streak(g, l + (k + 1), c[k + 1])
      OBVIOUS
    <3>2. /\ k \in Nat /\ (k + 1) - 1 = k /\ l + (k + 1) = (l + k) + 1 /\ l + k \in Nat
          /\ g[(l + k) + 1] = sig(k + 1)
          /\ c[k + 1] = IF sig(k + 1) = Before(calls, k + 1) THEN c[k] + 1 ELSE 0
      BY <1>1, <1>2, <3>1
    <3>3. CASE k = 0 /\ s = <<>>
      <4>1. c[k + 1] = 0 /\ l = 0
        BY <1>5, <1>7, <3>1, <3>2, <3>3 DEF Before
      <4>2. Streak(g, 1, 0)
        BY DEF Streak
      <4>3. QED
        BY <3>3, <4>1, <4>2
    <3>4. CASE k = 0 /\ s # <<>>
      <4>1. Before(calls, k + 1) = g[l + k] /\ c[k] = rDuplicates /\ l + k = l
        BY <1>1, <1>2, <1>4, <1>6, <3>4 DEF Before
      <4>2. Streak(g, l, rDuplicates)
        BY <1>1, <1>6, <3>4, StreakFirst
      <4>3. QED
        BY <3>2, <4>1, <4>2, StreakGrows
    <3>5. CASE k # 0
      <4>1. k \in 1 .. n
        BY <1>1, <3>1, <3>2, <3>5
      <4>2. Before(calls, k + 1) = g[l + k]
        BY <1>1, <3>2, <3>5, <4>1 DEF Before, sig
      <4>3. Streak(g, l + k, c[k])
        BY <4>1
      <4>4. QED
        BY <3>2, <4>2, <4>3, StreakGrows
    <3>6. QED
      BY <3>3, <3>4, <3>5
  <2>3. S \in SUBSET Nat
    OBVIOUS
  <2> HIDE DEF S
  <2>4. S = Nat
    BY <2>1, <2>2, <2>3, SetInduction
  <2>5. QED
    BY <2>4 DEF S
<1>9. n \in 1 .. n
  BY <1>1
<1>10. Streak(Signed(u), Len(u), rDuplicates') /\ rLastCall' = Signed(u)[Len(u)]
  BY <1>1, <1>3, <1>8, <1>9 DEF g
<1>11. u # <<>>
  BY <1>1
<1>12. ASSUME RejectMode PROVE Refuses(u)
  <2>1. Refuses(s)
    BY <1>12 DEF Guarded
  <2>2. \A k \in 1 .. n : k \in Runtime!Rejected(calls) <=> c[k] >= MaxDuplicates
    BY <1>1, <1>12 DEF Runtime!Rejected, c
  <2>3. \A k \in 1 .. n : Differs(g, l + k) <=> ~(c[k] >= MaxDuplicates)
    <3>1. TAKE k \in 1 .. n
    <3>2. l + k \in Nat /\ k \in Nat
      BY <1>1
    <3>3. Streak(g, l + k, c[k])
      BY <1>8, <3>2
    <3>4. QED
      BY <3>2, <3>3, StreakMeans
  <2>4. \A k \in 1 .. n : q[k].ran <=> Differs(g, l + k)
    BY <2>2, <2>3 DEF n
  <2>5. \A k \in 1 .. Len(q) : q[k].ran <=> Differs(Signed(s \o q), Len(s) + k)
    BY <2>4 DEF g, u, l, n
  <2>6. QED
    BY <2>1, <2>5, RefusesFirst DEF u
<1>13. QED
  BY <1>10, <1>11, <1>12 DEF Guarded, u

LEMMA RuntimeJudges ==
    ASSUME RuntimeTyped, Working, Followed, Followed', Judging, [Runtime!Next]_runtimeVars
    PROVE  Judging'
<1> HIDE DEF Runtime!Message, Runtime!Result, Runtime!Call, Decision
<1>1. rMessages \in Seq(Runtime!Message) /\ rResults \in Seq(Runtime!Result) /\ rDuplicates \in Nat
      /\ (rPc # "end" => rOutcome = "none") /\ Chain(rMessages, rPc = "tools")
  BY DEF RuntimeTyped, Runtime!TypeOK, Followed
<1>2. CASE Still
  <2>1. /\ UNCHANGED <<rMessages, rRunning, rResults, rLastCall, rDuplicates>> /\ (rPc' = "tools") = (rPc = "tools")
        /\ rPc = "tools" => UNCHANGED rIteration
        /\ (rOutcome' = "failed") = (rOutcome = "failed")
    BY <1>1, <1>2 DEF Still
  <2>2. rPc = "tools" => Verdicts' = Verdicts
    BY <2>1 DEF Verdicts, Ran, LastSaid
  <2>3. Sofar' = Sofar
    BY <2>1, <2>2 DEF Sofar
  <2>4. QED
    BY <2>1, <2>3 DEF Judging
<1>3. CASE Runtime!ProviderFails
  BY <1>3 DEF Runtime!ProviderFails, Runtime!End, Judging
<1>4. ASSUME NEW r \in Replies, rPc = "stream",
             rMessages' = Append(rMessages, Runtime!Assistant(rIteration, r))
      PROVE  /\ Runtime!Assistant(rIteration, r) \in Runtime!Message
             /\ LastSaid' = Runtime!Assistant(rIteration, r) /\ LastSaid'.calls = r.calls
             /\ JudgedIn(rMessages') = Sofar /\ Sofar \in Seq(Decision)
  <2> DEFINE a == Runtime!Assistant(rIteration, r)
  <2>1. rIteration \in 1 .. Budget
    BY <1>4 DEF RuntimeTyped, Runtime!TypeOK
  <2>2. a \in Runtime!Message /\ a.kind = "assistant" /\ a.calls = r.calls
    BY <2>1, RuntimeReply
  <2> HIDE DEF a
  <2>3. rMessages' = Append(rMessages, a) /\ Chain(Append(rMessages, a), rPc' = "tools")
    BY <1>4 DEF Followed, a
  <2>4. Len(rMessages') = Len(rMessages) + 1 /\ rMessages'[Len(rMessages) + 1] = a
    BY <1>1, <2>2, <2>3, Says
  <2>5. /\ JudgedIn(rMessages) \in Seq(Decision)
        /\ JudgedIn(Append(rMessages, a)) = JudgedIn(rMessages) \o Rulings(Append(rMessages, a), Len(rMessages) + 1)
    BY <1>1, <2>2, <2>3, JudgedGrows
  <2>6. Rulings(Append(rMessages, a), Len(rMessages) + 1) = <<>>
    BY <2>2, <2>3, <2>4 DEF Rulings
  <2>7. JudgedIn(rMessages) \o <<>> = JudgedIn(rMessages)
    BY <2>5
  <2>8. Sofar = JudgedIn(rMessages)
    BY <1>4 DEF Sofar
  <2>9. QED
    BY <2>2, <2>3, <2>4, <2>5, <2>6, <2>7, <2>8 DEF LastSaid, a
<1>5. ASSUME NEW r \in Replies, Runtime!AskToContinue(r) \/ Runtime!Complete(r) PROVE Judging'
  <2>1. /\ rPc = "stream" /\ rPc' # "tools" /\ rOutcome' \in {rOutcome, "completed"}
        /\ rMessages' = Append(rMessages, Runtime!Assistant(rIteration, r)) /\ UNCHANGED <<rLastCall, rDuplicates>>
    BY <1>5 DEF Runtime!AskToContinue, Runtime!Complete, Runtime!Say, Runtime!End, Runtime!guard
  <2>2. Sofar' = Sofar
    BY <1>4, <2>1 DEF Sofar
  <2>3. rOutcome # "failed" /\ rOutcome' # "failed"
    BY <1>1, <2>1
  <2>4. QED
    BY <2>1, <2>2, <2>3 DEF Judging
<1>6. ASSUME NEW r \in Replies, Runtime!StartTools(r) PROVE Judging'
  <2> DEFINE s == Sofar
             q == Verdicts'
             R == Runtime!Rejected(r.calls)
             n == Len(r.calls)
  <2>1. /\ rPc = "stream" /\ rPc' = "tools" /\ UNCHANGED <<rIteration, rOutcome>> /\ Runtime!Judge(r.calls)
        /\ rMessages' = Append(rMessages, Runtime!Assistant(rIteration, r))
    BY <1>6 DEF Runtime!StartTools, Runtime!Say
  <2>2. /\ r.calls \in Seq(Runtime!Call) /\ r.calls # <<>> /\ DOMAIN r.calls = 1 .. n /\ n \in Nat
        /\ rRunning' = (1 .. n) \ R
        /\ \A m \in 1 .. Len(rResults') : \E k \in R : rResults'[m] = Runtime!Entry(k, FALSE)
    BY <1>6, Started DEF Entries
  <2>3. LastSaid'.calls = r.calls /\ JudgedIn(rMessages') = s /\ s \in Seq(Decision)
    BY <1>4, <2>1
  <2> HIDE DEF R, s
  <2>4. \A k : ~Runtime!Entry(k, FALSE).ran
    <3>1. TAKE k
    <3>2. Runtime!Entry(k, FALSE).ran = FALSE
      BY DEF Runtime!Entry
    <3>3. QED
      BY <3>2
  <2> HIDE DEF Runtime!Entry
  <2>5. \A k \in 1 .. n : Ran(k)' <=> k \notin R
    BY <2>2, <2>4 DEF Ran
  <2>6. \A k : Ran(k)' \in BOOLEAN
    BY DEF Ran
  <2>7. q = [k \in 1 .. n |-> [call |-> r.calls[k], ran |-> Ran(k)']]
    BY <2>2, <2>3 DEF Verdicts
  <2>8. \A k \in 1 .. n : [call |-> r.calls[k], ran |-> Ran(k)'] \in Decision
    BY <2>2, <2>6 DEF Decision
  <2>9. q \in Seq(Decision) /\ Len(q) = n /\ \A k \in 1 .. n : q[k].call = r.calls[k] /\ (q[k].ran <=> k \notin R)
    <3>1. \A k \in 1 .. n : q[k].call = r.calls[k] /\ q[k].ran = Ran(k)'
      BY <2>7
    <3>2. q \in [1 .. n -> Decision]
      BY <2>7, <2>8
    <3> HIDE DEF q, n
    <3>3. q \in Seq(Decision) /\ Len(q) = n
      BY <2>2, <3>2 DEF n
    <3>4. QED
      BY <2>5, <3>1, <3>3
  <2> HIDE DEF q
  <2>10. Sofar' = s \o q
    BY <2>1, <2>3 DEF Sofar, q
  <2>11. ASSUME GuardEnabled PROVE Guarded(s \o q, rLastCall', rDuplicates')
    <3>1. Guarded(s, rLastCall, rDuplicates)
      BY <1>1, <2>1, <2>11 DEF Judging, s
    <3>2. QED
      BY <1>1, <2>1, <2>2, <2>3, <2>9, <2>11, <3>1, GuardJudges DEF R
  <2>12. rOutcome' # "failed"
    BY <1>1, <2>1
  <2>13. QED
    BY <2>10, <2>11, <2>12 DEF Judging
<1>7. CASE Runtime!Collect
  <2> DEFINE rs == Runtime!InOrder(rResults)
             m == Runtime!Results(rs)
             n == Len(LastSaid.calls)
             t == Append(rMessages, m)
  <2>1. /\ rPc = "tools" /\ rRunning = {} /\ rMessages' = t /\ rPc' # "tools"
        /\ rOutcome' \in {rOutcome, "stalled"} /\ UNCHANGED <<rLastCall, rDuplicates>>
    BY <1>7 DEF Runtime!Collect, Runtime!Say, Runtime!End
  <2>2. /\ LastSaid.calls \in Seq(Runtime!Call) /\ rs \in Seq(Runtime!Result) /\ Len(rs) = n
        /\ \A k \in 1 .. n : rs[k].call = <<rIteration, k>>
        /\ ToSet(rs) = ToSet(rResults)
    BY <2>1, Collected
  <2>3. m.kind = "results" /\ m.results = rs /\ m \in Runtime!Message
    <3> HIDE DEF rs
    <3>1. QED
      BY <2>2 DEF Runtime!Results, Runtime!Message
  <2> HIDE DEF rs, m
  <2>4. DOMAIN rs = 1 .. n /\ n \in Nat /\ DOMAIN LastSaid.calls = 1 .. n
    BY <2>2
  <2> HIDE DEF n
  <2>5. ToSet(rs) = {rs[k] : k \in 1 .. Len(rs)} /\ ToSet(rResults) = {rResults[k] : k \in 1 .. Len(rResults)}
    BY <1>1, <2>2, SetOf
  <2>6. \A k \in 1 .. n : Ran(k) = rs[k].ran
    <3>1. TAKE k \in 1 .. n
    <3>2. rs[k] \in Runtime!Result
      BY <2>2, <2>4
    <3>3. rs[k].ran \in BOOLEAN
      BY <3>2 DEF Runtime!Result
    <3>4. ASSUME rs[k].ran PROVE Ran(k)
      <4>1. PICK o \in 1 .. Len(rResults) : rResults[o] = rs[k]
        BY <2>2, <2>5
      <4>2. QED
        BY <2>2, <3>4, <4>1 DEF Ran
    <3>5. ASSUME Ran(k) PROVE rs[k].ran
      <4>1. PICK o \in 1 .. Len(rResults) : rResults[o].call = <<rIteration, k>> /\ rResults[o].ran
        BY <2>1, <3>5 DEF Ran
      <4>2. PICK j \in 1 .. n : rs[j] = rResults[o]
        BY <2>2, <2>5
      <4>3. j = k
        BY <2>2, <4>1, <4>2
      <4>4. QED
        BY <4>1, <4>2, <4>3
    <3>6. Ran(k) \in BOOLEAN
      BY DEF Ran
    <3>7. QED
      BY <3>3, <3>4, <3>5, <3>6
  <2>7. t[Len(rMessages) + 1] = m /\ rMessages # <<>> /\ Len(rMessages) \in Nat
        /\ \A k \in 1 .. Len(rMessages) : t[k] = rMessages[k]
    BY <1>1, <2>1, <2>3, Says DEF Working
  <2>8. t[Len(rMessages)] = LastSaid
    <3>1. Len(rMessages) \in 1 .. Len(rMessages)
      BY <1>1, <2>7, EmptySeq, LenProperties
    <3>2. QED
      BY <2>7, <3>1 DEF LastSaid
  <2> HIDE DEF t
  <2>9. Rulings(t, Len(rMessages) + 1) = [k \in 1 .. n |-> [call |-> LastSaid.calls[k], ran |-> rs[k].ran]]
    <3>1. (Len(rMessages) + 1) - 1 = Len(rMessages)
      BY <2>7
    <3>2. QED
      BY <2>3, <2>4, <2>7, <2>8, <3>1 DEF Rulings
  <2>10. Verdicts = [k \in 1 .. n |-> [call |-> LastSaid.calls[k], ran |-> rs[k].ran]]
    BY <2>4, <2>6 DEF Verdicts
  <2>11. JudgedIn(t) = JudgedIn(rMessages) \o Verdicts
    <3>1. Chain(t, rPc' = "tools")
      BY <2>1 DEF Followed
    <3>2. QED
      BY <1>1, <2>3, <2>9, <2>10, <3>1, JudgedGrows DEF t
  <2>12. Sofar' = Sofar
    BY <2>1, <2>11 DEF Sofar
  <2>13. rOutcome # "failed" /\ rOutcome' # "failed"
    BY <1>1, <2>1
  <2>14. QED
    BY <2>1, <2>12, <2>13 DEF Judging
<1>8. ASSUME NEW k \in rRunning, Runtime!ToolEnds(k) PROVE Judging'
  <2> DEFINE e == Runtime!Entry(k, TRUE)
  <2>1. /\ rPc = "tools" /\ rRunning' = rRunning \ {k} /\ rResults' = Append(rResults, e)
        /\ UNCHANGED <<rMessages, rPc, rIteration, rOutcome, rLastCall, rDuplicates>>
    BY <1>8 DEF Runtime!ToolEnds, Runtime!said, Runtime!guard
  <2>2. e.call = <<rIteration, k>> /\ e.ran
    BY DEF Runtime!Entry
  <2> HIDE DEF e
  <2>3. Len(rResults') = Len(rResults) + 1 /\ Len(rResults) \in Nat /\ rResults'[Len(rResults) + 1] = e
        /\ \A n \in 1 .. Len(rResults) : rResults'[n] = rResults[n]
    BY <1>1, <2>1, AppendProperties, LenProperties
  <2>4. \A n : n \in 1 .. Len(rResults') <=> n \in 1 .. Len(rResults) \/ n = Len(rResults) + 1
    BY <2>3
  <2>5. \A j : Ran(j)' = Ran(j)
    <3>1. TAKE j
    <3>2. (\E n \in 1 .. Len(rResults') : rResults'[n].call = <<rIteration, j>> /\ rResults'[n].ran)
          <=> (\E n \in 1 .. Len(rResults) : rResults[n].call = <<rIteration, j>> /\ rResults[n].ran) \/ j = k
      <4>1. <<rIteration, j>> = <<rIteration, k>> <=> j = k
        OBVIOUS
      <4>2. QED
        BY <2>2, <2>3, <2>4, <4>1
    <3>3. Ran(j) <=> Ran(j)'
      BY <2>1, <3>2 DEF Ran
    <3>4. Ran(j) \in BOOLEAN /\ Ran(j)' \in BOOLEAN
      BY DEF Ran
    <3>5. QED
      BY <3>3, <3>4
  <2>6. Verdicts' = Verdicts
    BY <2>1, <2>5 DEF Verdicts, LastSaid
  <2>7. Sofar' = Sofar
    BY <2>1, <2>6 DEF Sofar
  <2>8. QED
    BY <2>1, <2>7 DEF Judging
<1>9. QED
  BY <1>2, <1>3, <1>5, <1>6, <1>7, <1>8, RuntimeKinds

LEMMA JudgedTyped ==
    ASSUME NEW ms \in Seq(Runtime!Message), NEW open, Chain(ms, open)
    PROVE  JudgedIn(ms) \in Seq(Decision)
<1> HIDE DEF Runtime!Message, Decision
<1> DEFINE W == Seq(Decision)
           l == Len(ms)
           f == [n \in 1 .. l |-> Rulings(ms, n)]
<1>1. \A n \in 1 .. l : Rulings(ms, n) \in W
  BY Rules
<1>2. l \in Nat /\ DOMAIN ms = 1 .. l
  OBVIOUS
<1> HIDE DEF W, l
<1>3. f \in [1 .. l -> W]
  BY <1>1
<1>4. f \in Seq(W)
  BY <1>2, <1>3
<1>5. FlattenSeq(f) \in Seq(Decision)
  BY <1>4, Flatten DEF W
<1>6. QED
  BY <1>2, <1>5 DEF JudgedIn

LEMMA RuntimeRejects == RuntimeTyped /\ Working /\ Followed /\ Judging => Runtime!DuplicatesRejected
<1> SUFFICES ASSUME RuntimeTyped, Working, Followed, Judging, GuardEnabled, RejectMode
             PROVE  \A n \in DOMAIN JudgedIn(rMessages) :
                       JudgedIn(rMessages)[n].ran <=>
                          \/ n <= MaxDuplicates
                          \/ \E k \in n - MaxDuplicates .. n :
                                Runtime!SignatureOf(JudgedIn(rMessages)[k].call)
                                   # Runtime!SignatureOf(JudgedIn(rMessages)[n].call)
  <2>1. Runtime!Judged = JudgedIn(rMessages)
    BY DEF Runtime!Judged, JudgedIn, Rulings, Runtime!FlattenSeq, FlattenSeq
  <2>2. QED
    BY <2>1 DEF Runtime!DuplicatesRejected
<1> DEFINE j == JudgedIn(rMessages)
<1> HIDE DEF Runtime!Message, Runtime!Call, Decision
<1>1. rMessages \in Seq(Runtime!Message) /\ Chain(rMessages, rPc = "tools")
  BY DEF RuntimeTyped, Runtime!TypeOK, Followed
<1>2. j \in Seq(Decision)
  BY <1>1, JudgedTyped
<1>3. DOMAIN j = 1 .. Len(j) /\ Len(j) \in Nat
  BY <1>2
<1>4. Refuses(j)
  <2>1. CASE rOutcome = "failed"
    <3>1. rMessages = <<>>
      BY <2>1 DEF Judging
    <3>2. j = <<>>
      BY <3>1 DEF JudgedIn, FlattenSeq
    <3>3. QED
      BY <3>2 DEF Refuses
  <2>2. CASE rOutcome # "failed"
    <3>1. Refuses(Sofar)
      BY <2>2 DEF Judging, Guarded
    <3>2. CASE rPc # "tools"
      BY <3>1, <3>2 DEF Sofar
    <3>3. CASE rPc = "tools"
      <4>1. rMessages # <<>> /\ Runtime!Calls(LastSaid)
        BY <3>3 DEF Working
      <4>2. LastSaid \in Runtime!Message
        BY <1>1, <4>1, EmptySeq, LenProperties DEF LastSaid
      <4>3. LastSaid.calls \in Seq(Runtime!Call)
        BY <4>1, <4>2 DEF Runtime!Calls, Runtime!Message
      <4> DEFINE cs == LastSaid.calls
      <4>4. cs \in Seq(Runtime!Call)
        BY <4>3
      <4> HIDE DEF cs
      <4>5. DOMAIN cs = 1 .. Len(cs) /\ Len(cs) \in Nat /\ \A k \in 1 .. Len(cs) : cs[k] \in Runtime!Call
        BY <4>4
      <4>6. \A k : Ran(k) \in BOOLEAN
        BY DEF Ran
      <4>7. Verdicts = [k \in 1 .. Len(cs) |-> [call |-> cs[k], ran |-> Ran(k)]]
        BY <4>5 DEF Verdicts, cs
      <4>8. \A k \in 1 .. Len(cs) : [call |-> cs[k], ran |-> Ran(k)] \in Decision
        BY <4>5, <4>6 DEF Decision
      <4>9. Verdicts \in Seq(Decision)
        BY <4>5, <4>7, <4>8
      <4>10. Sofar = j \o Verdicts
        BY <3>3 DEF Sofar
      <4> HIDE DEF j
      <4>11. QED
        BY <1>2, <3>1, <4>9, <4>10, RefusesFirst
    <3>4. QED
      BY <3>2, <3>3
  <2>3. QED
    BY <2>1, <2>2
<1> HIDE DEF j
<1>5. \A n \in 1 .. Len(j) : Signed(j)[n] = Runtime!SignatureOf(j[n].call)
  BY DEF Signed
<1>6. ASSUME NEW n \in 1 .. Len(j)
      PROVE  j[n].ran <=> \/ n <= MaxDuplicates
                          \/ \E k \in n - MaxDuplicates .. n :
                                Runtime!SignatureOf(j[k].call) # Runtime!SignatureOf(j[n].call)
  <2>1. j[n].ran <=> n <= MaxDuplicates \/ \E k \in n - MaxDuplicates .. n : Signed(j)[k] # Signed(j)[n]
    BY <1>4 DEF Refuses, Differs
  <2>2. n > MaxDuplicates => \A k \in n - MaxDuplicates .. n : k \in 1 .. Len(j)
    BY <1>3, RuntimeConstants
  <2>3. n > MaxDuplicates \/ n <= MaxDuplicates
    BY <1>3, RuntimeConstants
  <2>4. QED
    BY <1>5, <2>1, <2>2, <2>3
<1>7. QED
  BY <1>3, <1>6 DEF j

LEMMA RuntimeStarts == Runtime!Init => RuntimeInv
<1> SUFFICES ASSUME Runtime!Init PROVE RuntimeInv
  OBVIOUS
<1> USE RuntimeConstants
<1>1. /\ rMessages = <<>> /\ rPc = "top" /\ rIteration = 0 /\ rOutcome = "none" /\ rExecuted = {}
      /\ rLastCall = Nothing /\ rDuplicates = 0 /\ Len(rMessages) = 0
  BY DEF Runtime!Init
<1>2. RuntimeTyped /\ Working /\ Followed
  BY RuntimeInit
<1>3. Executed /\ CutsAsked
  <2>1. rContext = <<>> /\ Len(rContext) = 0
    BY DEF Runtime!Init
  <2>2. CutsAsked
    BY <1>1, <2>1 DEF CutsAsked, CutsDone, RoundsIn
  <2>3. QED
    BY <1>1, <2>2 DEF Executed, Recorded
<1>4. Spoken = 0 /\ Numbered
  BY <1>1, NoReplies DEF Spoken, Numbered
<1>5. Compared = 0 /\ 1 .. 0 = {} /\ 1 .. (0 - MaxStalled) = {}
  BY <1>1, <1>4 DEF Compared
<1>6. Stalling /\ Stalls
  BY <1>4, <1>5 DEF Stalling, Stalls
<1>7. Sofar = <<>>
  BY <1>1 DEF Sofar, JudgedIn, FlattenSeq
<1>8. Judging
  BY <1>1, <1>7 DEF Judging, Guarded, Refuses
<1>9. QED
  BY <1>2, <1>3, <1>4, <1>6, <1>8 DEF RuntimeInv

LEMMA RuntimeStepKeeps == RuntimeInv /\ [Runtime!Next]_runtimeVars => RuntimeInv'
<1> SUFFICES ASSUME RuntimeInv, [Runtime!Next]_runtimeVars PROVE RuntimeInv'
  OBVIOUS
<1>1. /\ RuntimeTyped /\ Working /\ Followed /\ CutsAsked
      /\ Executed /\ Numbered /\ Stalling /\ Stalls /\ Judging
  BY DEF RuntimeInv
<1>2. RuntimeTyped' /\ Working' /\ Followed' /\ CutsAsked'
  BY <1>1, RuntimeTypes, RuntimeWorks, RuntimeFollows, RuntimeAsks
<1>3. Executed' /\ Numbered' /\ Stalling' /\ Stalls'
  BY <1>1, RuntimeExecutes, RuntimeNumbers, RuntimeStalls
<1>4. Judging'
  BY <1>1, <1>2, RuntimeJudges
<1>5. QED
  BY <1>2, <1>3, <1>4 DEF RuntimeInv

LEMMA RuntimeHolds ==
    RuntimeInv => /\ Runtime!TypeOK /\ Runtime!ConversationWhole /\ Runtime!HandsOver
                  /\ Runtime!DuplicatesRejected /\ Runtime!StallsEnd
<1>1. RuntimeInv => RuntimeTyped /\ Working /\ Followed /\ CutsAsked /\ Executed /\ Stalls /\ Judging
  BY DEF RuntimeInv
<1>2. RuntimeTyped => Runtime!TypeOK
  BY DEF RuntimeTyped
<1>3. QED
  BY <1>1, <1>2, RuntimeConverses, RuntimeHandsOver, RuntimeRejects, RuntimeStallsEnd
-----------------------------------------------------------------------------
(* Whatever part a behaviour is about, the other parts rest.                 *)
EngineInv == McpInv /\ EventsInv /\ RuntimeInv

LEMMA EngineKeeps ==
    /\ EngineInit => EngineInv
    /\ EngineInv /\ [EngineNext]_engineVars => EngineInv'
<1>1. EngineInit => Mcp!Init /\ Events!Init /\ Runtime!Init
  BY DEF EngineInit, mcpRests, eventsRests, runtimeRests
<1>2. [EngineNext]_engineVars => [Mcp!Next]_mcpVars /\ [Events!Next]_eventsVars /\ [Runtime!Next]_runtimeVars
  BY DEF EngineNext, OrchestrationStep, RuntimeStep, EventsStep, McpStep, engineVars
<1>3. EngineInit => EngineInv
  BY <1>1, McpInit, EventsInit, RuntimeStarts DEF EngineInv
<1>4. EngineInv /\ [EngineNext]_engineVars => EngineInv'
  BY <1>2, McpStepKeeps, EventsStepKeeps, RuntimeStepKeeps DEF EngineInv
<1>5. QED
  BY <1>3, <1>4

(* A call of an external tool returns the answer of its own request, however *)
(* many are open and whatever else the server sends, and no server is asked  *)
(* before it was greeted (tool/mcp: transport.rs, client.rs).                *)
THEOREM OwnAnswers == EngineSpec => []OwnAnswer
<1>1. EngineInv => OwnAnswer
  BY McpGreets DEF EngineInv, McpInv, McpOwn, OwnAnswer
<1>2. QED
  BY <1>1, EngineKeeps, PTL DEF EngineSpec

(* A chat is answered when all its events have been sent, and complete only  *)
(* when it is stored, whatever way the events take through the channels      *)
(* (chat.rs, conversation_service.rs).                                       *)
THEOREM AnswersSettle == EngineSpec => []AnswerSettles
<1>1. EngineInv => AnswerSettles
  BY EventsSettle DEF EngineInv, AnswerSettles
<1>2. QED
  BY <1>1, EngineKeeps, PTL DEF EngineSpec

(* The logs of a sub-agent, of a command and of every other call come before *)
(* the end of the call (agent.rs).                                           *)
THEOREM LogsComeFirst == EngineSpec => Events!LogsBeforeEnd
<1>1. [EngineNext]_engineVars => [Events!Next]_eventsVars
  BY DEF EngineNext, OrchestrationStep, RuntimeStep, EventsStep, McpStep, engineVars
<1>2. UNCHANGED eventsVars => UNCHANGED Events!vars
  BY DEF eventsVars, Events!vars, Events!channels, Events!tasks, Events!stored
<1>3. EngineInv /\ [EngineNext]_engineVars
         => [\A a \in eSaved : <<"log", a>> \in eSent' => <<"log", a>> \in eSent]_(Events!vars)
  BY <1>1, <1>2, EventsLogs DEF EngineInv
<1>4. QED
  BY <1>3, EngineKeeps, PTL DEF EngineSpec, Events!LogsBeforeEnd

(* The calls of a complete reply are followed by their results in their      *)
(* order, in whatever order the tools ended; a reply that was cut by the     *)
(* limit of tokens keeps its calls without results, is followed by the       *)
(* question to go on, and none of its calls is executed; and a turn hands    *)
(* over what the model was sent and reports the calls it executed and no     *)
(* other (tool_exec.rs).                                                     *)
THEOREM ConversationsWhole == EngineSpec => []ConversationWhole
<1>1. EngineInv => ConversationWhole
  BY RuntimeHolds DEF EngineInv, ConversationWhole
<1>2. QED
  BY <1>1, EngineKeeps, PTL DEF EngineSpec

(* The loop guard refuses a call if and only if the MaxDuplicates calls      *)
(* before it have its signature, and a turn whose rounds repeat themselves   *)
(* MaxStalled times ends (loop_guard.rs, agent.rs).                          *)
THEOREM GuardHolds == EngineSpec => []GuardEnds
<1>1. EngineInv => GuardEnds
  BY RuntimeHolds DEF EngineInv, GuardEnds
<1>2. QED
  BY <1>1, EngineKeeps, PTL DEF EngineSpec
=============================================================================
