-------------------------- MODULE SessionStoreProofs --------------------------
(***************************************************************************)
(* Proofs about SessionStore: the types, the consistency of the table      *)
(* `loading` with the tasks, the refinement of SingleFlight, deleted        *)
(* sessions that stay deleted, and the agreement of a session's only copy   *)
(* with its rows.                                                          *)
(***************************************************************************)
EXTENDS SessionStore, TLAPS

USE DEF Null

(***************************************************************************)
(* Types.                                                                  *)
(***************************************************************************)

(* NoCall is told apart from a call by its operation.                      *)
LEMMA NoCallFacts ==
    /\ NoCall.op = "none"
    /\ \A c \in Call : c # NoCall /\ c.op \in Ops /\ c.id \in Id
<1>1. NoCall.op = "none"
  BY DEF NoCall
<1>2. ASSUME NEW c \in Call PROVE c # NoCall /\ c.op \in Ops /\ c.id \in Id
  <2>1. c.op \in Ops /\ c.id \in Id
    BY DEF Call
  <2>2. "none" \notin Ops
    BY SessionStoreAssumption DEF AllOps
  <2>3. QED
    BY <1>1, <2>1, <2>2
<1>3. QED
  BY <1>1, <1>2

(* A task that is not idle has a call. *)
LEMMA BusyHasCall ==
    ASSUME TaskTypeOK, NEW t \in Task, pc[t] # "idle"
    PROVE  call[t] \in Call /\ call[t].id \in Id
BY NoCallFacts DEF TaskTypeOK, CallFits

(* A task in the middle of a write has a message to write.                 *)
LEMMA CallsFit ==
    ASSUME TaskTypeOK, NEW t \in Task
    PROVE  /\ pc[t] \in {"save", "persist", "schedule"}
                => call[t].op = "append" /\ call[t].msg \in Msg
           /\ pc[t] \in {"createRow", "createMessage", "publish"}
                => call[t].op = "create" /\ call[t].msg \in Msg
           /\ call[t].op = "append" => call[t].msg \in Msg
BY DEF TaskTypeOK, CallFits

(* A new Session object extends the heap by one.                           *)
LEMMA AllocateType ==
    ASSUME heap \in Seq(SUBSET Msg), NEW h \in SUBSET Msg, Allocate(h)
    PROVE  heap' \in Seq(SUBSET Msg) /\ Len(heap') = Len(heap) + 1
BY DEF Allocate

RetShrinks == \A u \in Task : ret[u] \in Nat /\ ret'[u] \in Nat /\ ret'[u] <= ret[u]

(* Returning leaves the tasks well-typed. *)
LEMMA ReturnType ==
    ASSUME TaskTypeOK, NEW t \in Task, Return(t)
    PROVE  TaskTypeOK' /\ RetShrinks
<1>1. /\ pc' \in [Task -> Label]
      /\ call' \in [Task -> Call \cup {NoCall}]
      /\ ret' \in [Task -> Nat]
  BY DEF Return, Goto, TaskTypeOK, Label
<1>2. ASSUME NEW u \in Task PROVE CallFits(u)'
  BY NoCallFacts DEF Return, Goto, TaskTypeOK, CallFits
<1>3. RetShrinks
  BY DEF Return, RetShrinks, TaskTypeOK
<1>4. QED
  BY <1>1, <1>2, <1>3 DEF TaskTypeOK

(* So does moving on within a call to a place its arguments fit.           *)
LEMMA GotoType ==
    ASSUME TaskTypeOK, NEW t \in Task, NEW l \in Label \ {"idle"}, Goto(t, l),
           pc[t] # "idle", UNCHANGED call,
           ret' \in [Task -> Nat] \/ UNCHANGED ret,
           l \in {"save", "persist", "schedule"} => call[t].op = "append",
           l \in {"createRow", "createMessage", "publish"} => call[t].op = "create"
    PROVE  TaskTypeOK' /\ (UNCHANGED ret => RetShrinks)
<1>1. ASSUME NEW u \in Task PROVE CallFits(u)'
  BY DEF Goto, TaskTypeOK, CallFits
<1>2. QED
  BY <1>1 DEF Goto, TaskTypeOK, RetShrinks

(* So does what the caller of get does with its result.                    *)
LEMMA GetReturnsType ==
    ASSUME TaskTypeOK, NEW t \in Task, NEW o, GetReturns(t, o), pc[t] # "idle"
    PROVE  TaskTypeOK' /\ RetShrinks
<1>1. CASE Return(t)
  BY <1>1, ReturnType
<1>2. CASE Goto(t, "createRow") /\ UNCHANGED <<call, ret>> /\ call[t].op = "create"
  BY <1>2, GotoType DEF Label, DatabaseLabel
<1>3. CASE (Goto(t, "ensured") \/ Goto(t, "recheck")) /\ UNCHANGED <<call, ret>>
  BY <1>3, GotoType DEF Label
<1>4. QED
  BY <1>1, <1>2, <1>3 DEF GetReturns

LEMMA TypeInit == Init => TypeOK
<1> SUFFICES ASSUME Init PROVE TypeOK
  OBVIOUS
<1>1. StoreTypeOK
  <2>1. heap \in Seq(SUBSET Msg)
    BY DEF Init
  <2>2. QED
    BY <2>1 DEF Init, StoreTypeOK
<1>2. TaskTypeOK
  BY NoCallFacts DEF Init, TaskTypeOK, CallFits, Label
<1>3. ObjectsExist /\ PastTypeOK
  BY DEF Init, ObjectsExist, PastTypeOK
<1>4. QED
  BY <1>1, <1>2, <1>3 DEF TypeOK

LEMMA TypeStep == TypeOK /\ FlightInv /\ [Next]_vars => TypeOK'
<1> SUFFICES ASSUME TypeOK, FlightInv, [Next]_vars
             PROVE  TypeOK'
  OBVIOUS
<1>0. Len(heap) \in Nat /\ \A i \in Id : cache[i] \in Nat
  BY DEF TypeOK, StoreTypeOK
<1> USE <1>0 DEF TypeOK, db, memory, flight, service, past
<1>1. ASSUME NEW t \in Task, Start(t) PROVE TypeOK'
  <2>1. PICK op \in Ops, i \in Id : \E m \in Fresh(op) :
           /\ call' = [call EXCEPT ![t] = [op |-> op, id |-> i, msg |-> m]]
           /\ Goto(t, FirstLabel(op))
           /\ used' = used \cup ({m} \ {NoMsg})
    BY <1>1 DEF Start
  <2>2. PICK m \in Fresh(op) :
           /\ call' = [call EXCEPT ![t] = [op |-> op, id |-> i, msg |-> m]]
           /\ Goto(t, FirstLabel(op))
           /\ used' = used \cup ({m} \ {NoMsg})
    BY <2>1
  <2> DEFINE c == [op |-> op, id |-> i, msg |-> m]
  <2>3. /\ m \in Msg \cup {NoMsg}
        /\ op \in {"append", "create"} => m \in Msg
    BY <2>2 DEF Fresh, Msg
  <2>4. c \in Call
    BY <2>3 DEF Call
  <2>5. /\ FirstLabel(op) \in Label \ {"idle", "save", "persist", "schedule"}
        /\ FirstLabel(op) \notin {"createRow", "createMessage", "publish"}
    BY SessionStoreAssumption DEF AllOps, FirstLabel, Label, DatabaseLabel
  <2>6. ASSUME NEW u \in Task PROVE CallFits(u)'
    BY <2>2, <2>3, <2>4, <2>5, NoCallFacts DEF Goto, TaskTypeOK, CallFits
  <2>7. TaskTypeOK'
    BY <1>1, <2>2, <2>4, <2>5, <2>6 DEF Start, Goto, TaskTypeOK
  <2>8. used' \subseteq Msg
    BY <2>2, <2>3 DEF PastTypeOK
  <2>9. QED
    BY <1>1, <2>7, <2>8 DEF Start, StoreTypeOK, ObjectsExist, PastTypeOK
<1>2. ASSUME NEW t \in Task, Get(t) PROVE TypeOK'
  <2>1. TaskTypeOK' /\ RetShrinks
    BY <1>2, GetReturnsType, GotoType DEF Get, Label, LoaderLabel, DatabaseLabel
  <2>2. StoreTypeOK'
    BY <1>2, <2>1, BusyHasCall DEF Get, StoreTypeOK
  <2>3. ObjectsExist'
    BY <1>2, <2>1, BusyHasCall DEF Get, RetShrinks, ObjectsExist, StoreTypeOK
  <2>4. PastTypeOK'
    BY <1>2, <2>1, BusyHasCall DEF Get, PastTypeOK
  <2>5. QED
    BY <2>1, <2>2, <2>3, <2>4
<1>3. ASSUME NEW t \in Task, ReadMeta(t) PROVE TypeOK'
  <2>1. TaskTypeOK' /\ RetShrinks
    BY <1>3, GetReturnsType, GotoType DEF ReadMeta, Label, LoaderLabel, DatabaseLabel
  <2>2. StoreTypeOK'
    BY <1>3, <2>1, BusyHasCall DEF ReadMeta, StoreTypeOK
  <2>3. ObjectsExist'
    BY <1>3, <2>1, BusyHasCall DEF ReadMeta, RetShrinks, ObjectsExist, StoreTypeOK
  <2>4. PastTypeOK'
    BY <1>3, <2>1, BusyHasCall DEF ReadMeta, PastTypeOK
  <2>5. QED
    BY <2>1, <2>2, <2>3, <2>4
<1>4. ASSUME NEW t \in Task, Index(t) PROVE TypeOK'
  <2>0. heap' \in Seq(SUBSET Msg) /\ Len(heap') = Len(heap) + 1
    BY <1>4, AllocateType, BusyHasCall DEF StoreTypeOK, Index
  <2>1. TaskTypeOK' /\ RetShrinks
    BY <1>4, <2>0, GetReturnsType DEF Index, Label, LoaderLabel, DatabaseLabel, New
  <2>2. StoreTypeOK'
    BY <1>4, <2>1, BusyHasCall, <2>0 DEF Index, StoreTypeOK, New, InsertIndexed
  <2>3. ObjectsExist'
    BY <1>4, <2>1, BusyHasCall, <2>0 DEF Index, RetShrinks, ObjectsExist, StoreTypeOK, New, InsertIndexed
  <2>4. PastTypeOK'
    BY <1>4, <2>1, BusyHasCall, <2>0 DEF Index, PastTypeOK, New, InsertIndexed
  <2>5. QED
    BY <2>1, <2>2, <2>3, <2>4
<1>5. ASSUME NEW t \in Task, IsLoaded(t) PROVE TypeOK'
  <2>1. TaskTypeOK' /\ RetShrinks
    BY <1>5, GotoType DEF IsLoaded, Label, LoaderLabel, DatabaseLabel
  <2>2. StoreTypeOK'
    BY <1>5, <2>1, BusyHasCall DEF IsLoaded, StoreTypeOK
  <2>3. ObjectsExist'
    BY <1>5, <2>1, BusyHasCall DEF IsLoaded, RetShrinks, ObjectsExist, StoreTypeOK
  <2>4. PastTypeOK'
    BY <1>5, <2>1, BusyHasCall DEF IsLoaded, PastTypeOK
  <2>5. QED
    BY <2>1, <2>2, <2>3, <2>4
<1>6. ASSUME NEW t \in Task, IsCached(t) PROVE TypeOK'
  <2>1. TaskTypeOK' /\ RetShrinks
    BY <1>6, GotoType DEF IsCached, Label, LoaderLabel, DatabaseLabel
  <2>2. StoreTypeOK'
    BY <1>6, <2>1, BusyHasCall DEF IsCached, StoreTypeOK
  <2>3. ObjectsExist'
    BY <1>6, <2>1, BusyHasCall DEF IsCached, RetShrinks, ObjectsExist, StoreTypeOK
  <2>4. PastTypeOK'
    BY <1>6, <2>1, BusyHasCall DEF IsCached, PastTypeOK
  <2>5. QED
    BY <2>1, <2>2, <2>3, <2>4
<1>7. ASSUME NEW t \in Task, Recheck(t) PROVE TypeOK'
  <2>1. TaskTypeOK' /\ RetShrinks
    BY <1>7, GotoType DEF Recheck, Label, LoaderLabel, DatabaseLabel
  <2>2. StoreTypeOK'
    BY <1>7, <2>1, BusyHasCall DEF Recheck, StoreTypeOK
  <2>3. ObjectsExist'
    BY <1>7, <2>1, BusyHasCall DEF Recheck, RetShrinks, ObjectsExist, StoreTypeOK
  <2>4. PastTypeOK'
    BY <1>7, <2>1, BusyHasCall DEF Recheck, PastTypeOK
  <2>5. QED
    BY <2>1, <2>2, <2>3, <2>4
<1>8. ASSUME NEW t \in Task, ReturnCached(t) PROVE TypeOK'
  <2>1. TaskTypeOK'
    BY <1>8, GotoType, BusyHasCall DEF ReturnCached, Label, LoaderLabel, DatabaseLabel, TaskTypeOK, StoreTypeOK
  <2>2. StoreTypeOK'
    BY <1>8, <2>1, BusyHasCall DEF ReturnCached, StoreTypeOK, TaskTypeOK
  <2>3. ObjectsExist'
    BY <1>8, <2>1, BusyHasCall DEF ReturnCached, RetShrinks, ObjectsExist, StoreTypeOK, TaskTypeOK
  <2>4. PastTypeOK'
    BY <1>8, <2>1, BusyHasCall DEF ReturnCached, PastTypeOK, TaskTypeOK
  <2>5. QED
    BY <2>1, <2>2, <2>3, <2>4
<1>9. ASSUME NEW t \in Task, Enter(t) PROVE TypeOK'
  <2>1. TaskTypeOK' /\ RetShrinks
    BY <1>9, GotoType DEF Enter, Label, LoaderLabel, DatabaseLabel
  <2>2. StoreTypeOK'
    BY <1>9, <2>1, BusyHasCall DEF Enter, StoreTypeOK, MayLead
  <2>3. ObjectsExist'
    BY <1>9, <2>1, BusyHasCall DEF Enter, RetShrinks, ObjectsExist, StoreTypeOK, MayLead
  <2>4. PastTypeOK'
    BY <1>9, <2>1, BusyHasCall DEF Enter, PastTypeOK, MayLead
  <2>5. QED
    BY <2>1, <2>2, <2>3, <2>4
<1>10. ASSUME NEW t \in Task, ReadRow(t) PROVE TypeOK'
  <2>1. TaskTypeOK' /\ RetShrinks
    BY <1>10, GotoType DEF ReadRow, Label, LoaderLabel, DatabaseLabel
  <2>2. StoreTypeOK'
    BY <1>10, <2>1, BusyHasCall DEF ReadRow, StoreTypeOK
  <2>3. ObjectsExist'
    BY <1>10, <2>1, BusyHasCall DEF ReadRow, RetShrinks, ObjectsExist, StoreTypeOK
  <2>4. PastTypeOK'
    BY <1>10, <2>1, BusyHasCall DEF ReadRow, PastTypeOK
  <2>5. QED
    BY <2>1, <2>2, <2>3, <2>4
<1>11. ASSUME NEW t \in Task, ReadMessages(t) PROVE TypeOK'
  <2>0. heap' \in Seq(SUBSET Msg) /\ Len(heap') = Len(heap) + 1
    BY <1>11, AllocateType, BusyHasCall DEF StoreTypeOK, ReadMessages, LoadedHistory
  <2>1. TaskTypeOK'
    BY <1>11, <2>0, GotoType DEF ReadMessages, Label, LoaderLabel, DatabaseLabel, New, TaskTypeOK
  <2>2. StoreTypeOK'
    BY <1>11, <2>1, BusyHasCall, <2>0 DEF ReadMessages, StoreTypeOK, New, TaskTypeOK
  <2>3. ObjectsExist'
    BY <1>11, <2>1, BusyHasCall, <2>0 DEF ReadMessages, RetShrinks, ObjectsExist, StoreTypeOK, New, TaskTypeOK
  <2>4. PastTypeOK'
    BY <1>11, <2>1, BusyHasCall, <2>0 DEF ReadMessages, PastTypeOK, New, TaskTypeOK
  <2>5. QED
    BY <2>1, <2>2, <2>3, <2>4
<1>12. ASSUME NEW t \in Task, Install(t) PROVE TypeOK'
  <2>1. TaskTypeOK' /\ RetShrinks
    BY <1>12, GotoType DEF Install, Label, LoaderLabel, DatabaseLabel
  <2>2. StoreTypeOK'
    BY <1>12, <2>1, BusyHasCall DEF RetShrinks, Install, StoreTypeOK, InsertLoaded
  <2>3. ObjectsExist'
    BY <1>12, <2>1, BusyHasCall DEF Install, RetShrinks, ObjectsExist, StoreTypeOK, InsertLoaded
  <2>4. PastTypeOK'
    BY <1>12, <2>1, BusyHasCall DEF Install, PastTypeOK, InsertLoaded
  <2>5. QED
    BY <2>1, <2>2, <2>3, <2>4
<1>13. ASSUME NEW t \in Task, Release(t) PROVE TypeOK'
  <2>1. /\ pc' \in [Task -> Label]
        /\ ret' \in [Task -> Nat]
        /\ \A u \in Task : ret'[u] <= Len(heap')
    BY <1>13 DEF Release, TaskTypeOK, Label, ObjectsExist
  <2>2. ASSUME NEW u \in Task PROVE CallFits(u)'
    <3>1. u # t /\ u \in Answered(t) => pc[u] = "wait"
      BY <1>13, BusyHasCall DEF Release, Answered, FlightInv
    <3>2. pc'[u] = "idle" <=> pc[u] = "idle"
      BY <1>13, <3>1 DEF Release, TaskTypeOK
    <3>3. pc'[u] = pc[u] \/ pc'[u] = "ensured"
      BY <1>13 DEF Release
    <3>4. QED
      BY <1>13, <3>2, <3>3 DEF Release, TaskTypeOK, CallFits
  <2>3. TaskTypeOK'
    BY <1>13, <2>1, <2>2 DEF Release, TaskTypeOK
  <2>4. QED
    BY <1>13, <2>1, <2>3, BusyHasCall
    DEF Release, StoreTypeOK, ObjectsExist, PastTypeOK
<1>14. ASSUME NEW t \in Task, Ensured(t) PROVE TypeOK'
  <2>1. TaskTypeOK' /\ RetShrinks
    BY <1>14, ReturnType DEF Ensured, Label, LoaderLabel, DatabaseLabel
  <2>2. StoreTypeOK'
    BY <1>14, <2>1, BusyHasCall DEF Ensured, StoreTypeOK
  <2>3. ObjectsExist'
    BY <1>14, <2>1, BusyHasCall DEF Ensured, RetShrinks, ObjectsExist, StoreTypeOK
  <2>4. PastTypeOK'
    BY <1>14, <2>1, BusyHasCall DEF Ensured, PastTypeOK
  <2>5. QED
    BY <2>1, <2>2, <2>3, <2>4
<1>15. ASSUME NEW t \in Task, Push(t) PROVE TypeOK'
  <2>1. TaskTypeOK' /\ RetShrinks
    BY <1>15, GotoType, CallsFit DEF Push, Label, LoaderLabel, DatabaseLabel
  <2>2. StoreTypeOK'
    <3>1. ret[t] \in 1 .. Len(heap) /\ call[t].msg \in Msg
      BY <1>15, <2>1, CallsFit DEF Push, RetShrinks, ObjectsExist
    <3>2. heap' \in Seq(SUBSET Msg) /\ Len(heap') = Len(heap)
      BY <1>15, <3>1 DEF Push, StoreTypeOK
    <3>3. QED
      BY <1>15, <3>2 DEF Push, StoreTypeOK
  <2>3. ObjectsExist'
    BY <1>15, <2>1, BusyHasCall, CallsFit DEF Push, RetShrinks, ObjectsExist, StoreTypeOK
  <2>4. PastTypeOK'
    BY <1>15, <2>1, BusyHasCall, CallsFit DEF Push, PastTypeOK
  <2>5. QED
    BY <2>1, <2>2, <2>3, <2>4
<1>16. ASSUME NEW t \in Task, Save(t) PROVE TypeOK'
  <2>1. TaskTypeOK' /\ RetShrinks
    BY <1>16, ReturnType, GotoType, CallsFit DEF Save, Label, LoaderLabel, DatabaseLabel
  <2>2. StoreTypeOK'
    BY <1>16, <2>1, BusyHasCall, CallsFit DEF Save, StoreTypeOK
  <2>3. ObjectsExist'
    BY <1>16, <2>1, BusyHasCall, CallsFit DEF Save, RetShrinks, ObjectsExist, StoreTypeOK
  <2>4. PastTypeOK'
    BY <1>16, <2>1, BusyHasCall, CallsFit DEF Save, PastTypeOK
  <2>5. QED
    BY <2>1, <2>2, <2>3, <2>4
<1>17. ASSUME NEW t \in Task, Persist(t) PROVE TypeOK'
  <2>1. TaskTypeOK' /\ RetShrinks
    BY <1>17, ReturnType, GotoType, CallsFit DEF Persist, Acknowledge, Label, LoaderLabel,
                                               DatabaseLabel
  <2>2. StoreTypeOK'
    BY <1>17, <2>1, BusyHasCall, CallsFit DEF Persist, Acknowledge, StoreTypeOK
  <2>3. ObjectsExist'
    BY <1>17, <2>1, BusyHasCall, CallsFit DEF Persist, Acknowledge, RetShrinks, ObjectsExist, StoreTypeOK
  <2>4. PastTypeOK'
    BY <1>17, <2>1, BusyHasCall, CallsFit DEF Persist, Acknowledge, PastTypeOK
  <2>5. QED
    BY <2>1, <2>2, <2>3, <2>4
<1>18. ASSUME NEW t \in Task, CreateRow(t) PROVE TypeOK'
  <2>1. TaskTypeOK' /\ RetShrinks
    BY <1>18, GotoType, CallsFit DEF CreateRow, Label, LoaderLabel, DatabaseLabel
  <2>2. StoreTypeOK'
    BY <1>18, <2>1, BusyHasCall DEF CreateRow, StoreTypeOK
  <2>3. ObjectsExist'
    BY <1>18, <2>1, BusyHasCall DEF CreateRow, RetShrinks, ObjectsExist, StoreTypeOK
  <2>4. PastTypeOK'
    BY <1>18, <2>1, BusyHasCall DEF CreateRow, PastTypeOK
  <2>5. QED
    BY <2>1, <2>2, <2>3, <2>4
<1>19. ASSUME NEW t \in Task, CreateMessage(t) PROVE TypeOK'
  <2>1. TaskTypeOK' /\ RetShrinks
    BY <1>19, ReturnType, GotoType, CallsFit DEF CreateMessage, Label, LoaderLabel, DatabaseLabel
  <2>2. StoreTypeOK'
    <3>1. stored' \in [Id -> SUBSET Msg]
      BY <1>19, BusyHasCall, CallsFit DEF CreateMessage, StoreTypeOK
    <3>2. QED
      BY <1>19, <3>1 DEF CreateMessage, StoreTypeOK
  <2>3. ObjectsExist'
    BY <1>19, <2>1, BusyHasCall, CallsFit DEF CreateMessage, RetShrinks, ObjectsExist, StoreTypeOK
  <2>4. PastTypeOK'
    BY <1>19, <2>1, BusyHasCall, CallsFit DEF CreateMessage, PastTypeOK
  <2>5. QED
    BY <2>1, <2>2, <2>3, <2>4
<1>20. ASSUME NEW t \in Task, Publish(t) PROVE TypeOK'
  <2>0. heap' \in Seq(SUBSET Msg) /\ Len(heap') = Len(heap) + 1
    BY <1>20, AllocateType, CallsFit DEF StoreTypeOK, Publish
  <2>1. TaskTypeOK' /\ RetShrinks
    BY <1>20, <2>0, ReturnType DEF Publish, Label, LoaderLabel, DatabaseLabel, Return
  <2>2. StoreTypeOK'
    BY <1>20, <2>1, BusyHasCall, <2>0 DEF Publish, StoreTypeOK, New, InsertLoaded
  <2>3. ObjectsExist'
    <3>1. \A i \in Id : cache'[i] = cache[i] \/ cache'[i] = Len(heap')
      BY <1>20, <2>0 DEF Publish, StoreTypeOK, New, InsertLoaded
    <3>2. QED
      BY <2>0, <2>1, <3>1 DEF RetShrinks, ObjectsExist
  <2>4. PastTypeOK'
    BY <1>20, <2>1, BusyHasCall, <2>0 DEF Publish, PastTypeOK, New, InsertLoaded
  <2>5. QED
    BY <2>1, <2>2, <2>3, <2>4
<1>21. ASSUME NEW t \in Task, DeleteRows(t) PROVE TypeOK'
  <2>1. TaskTypeOK' /\ RetShrinks
    BY <1>21, GotoType DEF DeleteRows, Label, LoaderLabel, DatabaseLabel
  <2>2. StoreTypeOK'
    BY <1>21, <2>1, BusyHasCall DEF DeleteRows, StoreTypeOK
  <2>3. ObjectsExist'
    BY <1>21, <2>1, BusyHasCall DEF DeleteRows, RetShrinks, ObjectsExist, StoreTypeOK
  <2>4. PastTypeOK'
    BY <1>21, <2>1, BusyHasCall DEF DeleteRows, PastTypeOK
  <2>5. QED
    BY <2>1, <2>2, <2>3, <2>4
<1>22. ASSUME NEW t \in Task, Evict(t) PROVE TypeOK'
  <2>1. TaskTypeOK' /\ RetShrinks
    BY <1>22, ReturnType DEF Evict, Label, LoaderLabel, DatabaseLabel
  <2>2. StoreTypeOK'
    BY <1>22, <2>1, BusyHasCall DEF Evict, StoreTypeOK
  <2>3. ObjectsExist'
    <3>1. \A i \in Id : cache'[i] = cache[i] \/ cache'[i] = Null
      BY <1>22 DEF Evict, StoreTypeOK
    <3>2. QED
      BY <1>22, <2>1, <3>1 DEF Evict, RetShrinks, ObjectsExist
  <2>4. PastTypeOK'
    BY <1>22, <2>1, BusyHasCall DEF Evict, PastTypeOK
  <2>5. QED
    BY <2>1, <2>2, <2>3, <2>4
<1>23. ASSUME NEW t \in Task, StatementFails(t) PROVE TypeOK'
  <2>1. TaskTypeOK' /\ RetShrinks
    BY <1>23, ReturnType DEF StatementFails, Label, LoaderLabel, DatabaseLabel
  <2>2. StoreTypeOK'
    BY <1>23, <2>1, BusyHasCall DEF StatementFails, StoreTypeOK
  <2>3. ObjectsExist'
    BY <1>23, <2>1, BusyHasCall DEF StatementFails, RetShrinks, ObjectsExist, StoreTypeOK
  <2>4. PastTypeOK'
    BY <1>23, <2>1, BusyHasCall DEF DatabaseLabel, StatementFails, PastTypeOK
  <2>5. QED
    BY <2>1, <2>2, <2>3, <2>4
<1>29. ASSUME NEW t \in Task, Schedule(t) PROVE TypeOK'
  <2>1. TaskTypeOK' /\ RetShrinks
    BY <1>29, ReturnType DEF Schedule, Acknowledge
  <2>2. StoreTypeOK'
    BY <1>29, BusyHasCall DEF Schedule, StoreTypeOK
  <2>3. ObjectsExist'
    BY <1>29, <2>1 DEF Schedule, RetShrinks, ObjectsExist, StoreTypeOK
  <2>4. PastTypeOK'
    BY <1>29, BusyHasCall, CallsFit DEF Schedule, Acknowledge, PastTypeOK
  <2>5. QED
    BY <2>1, <2>2, <2>3, <2>4
<1>30. ASSUME NEW i \in Id, TitleEnds(i) PROVE TypeOK'
  <2>1. StoreTypeOK'
    BY <1>30 DEF TitleEnds, StoreTypeOK
  <2>2. TaskTypeOK' /\ ObjectsExist'
    BY <1>30 DEF TitleEnds, TaskTypeOK, CallFits, ObjectsExist
  <2>3. PastTypeOK'
    BY <1>30 DEF TitleEnds, PastTypeOK
  <2>4. QED
    BY <2>1, <2>2, <2>3
<1>24. ASSUME NEW i \in Id, IndexRow(i) PROVE TypeOK'
  <2>1. heap' \in Seq(SUBSET Msg) /\ Len(heap') = Len(heap) + 1
    BY <1>24, AllocateType DEF IndexRow, StoreTypeOK
  <2>2. QED
    BY <1>24, <2>1 DEF IndexRow, New, InsertIndexed, TaskTypeOK, CallFits,
        StoreTypeOK, ObjectsExist, PastTypeOK
<1>25. CASE Crash
  <2>1. TaskTypeOK'
    BY <1>25, NoCallFacts DEF Crash, TaskTypeOK, CallFits, Label
  <2>2. heap' \in Seq(SUBSET Msg) /\ Len(heap') = 0
    BY <1>25 DEF Crash
  <2>3. StoreTypeOK'
    BY <1>25, <2>2 DEF Crash, StoreTypeOK
  <2>4. ObjectsExist'
    BY <1>25, <2>2 DEF Crash, ObjectsExist
  <2>5. PastTypeOK'
    BY <1>25 DEF Crash, PastTypeOK
  <2>6. QED
    BY <2>1, <2>3, <2>4, <2>5
<1>26. CASE Serve
  BY <1>26 DEF Serve, TaskTypeOK, CallFits, StoreTypeOK, ObjectsExist, PastTypeOK
<1>27. CASE UNCHANGED vars
  BY <1>27 DEF vars, TaskTypeOK, CallFits, StoreTypeOK, ObjectsExist, PastTypeOK
<1>28. QED
  BY <1>1, <1>2, <1>3, <1>4, <1>5, <1>6, <1>7, <1>8, <1>9, <1>10,
     <1>11, <1>12, <1>13, <1>14, <1>15, <1>16, <1>17, <1>18, <1>19,
     <1>20, <1>21, <1>22, <1>23, <1>24, <1>25, <1>26, <1>27, <1>29, <1>30
  DEF Next, Step

(***************************************************************************)
(* The table of loads.                                                     *)
(***************************************************************************)

(* A step of t that neither enters nor leaves a flight.                    *)
FlightStill(t) ==
    /\ UNCHANGED <<loading, waiters>>
    /\ disturbed \subseteq disturbed'
    /\ \A u \in Task \ {t} : pc'[u] = pc[u] /\ call'[u] = call[u]
    /\ pc[t] # "wait" /\ pc'[t] # "wait"
    /\ pc'[t] \in LoaderLabel <=> pc[t] \in LoaderLabel
    /\ pc[t] \in LoaderLabel => call'[t] = call[t]

LEMMA StillFlight ==
    ASSUME TypeOK, FlightInv, NEW t \in Task, FlightStill(t)
    PROVE  FlightInv'
<1>1. ASSUME NEW i \in loading PROVE Loaders(i)' # {} \/ i \in disturbed'
  BY <1>1 DEF FlightInv, FlightStill, Loaders
<1>2. ASSUME NEW i \in Id, NEW u \in waiters[i]
      PROVE  pc'[u] = "wait" /\ call'[u].id = i
  BY <1>2 DEF FlightInv, FlightStill, TypeOK, StoreTypeOK
<1>3. QED
  BY <1>1, <1>2 DEF FlightInv, FlightStill

(* What GetReturns does to the flight: nothing. *)
LEMMA GetReturnsStill ==
    ASSUME TypeOK, NEW t \in Task, NEW o, GetReturns(t, o),
           pc[t] \notin LoaderLabel \cup {"wait"},
           UNCHANGED <<loading, waiters, disturbed>>
    PROVE  FlightStill(t)
BY DEF GetReturns, Return, Goto, FlightStill, LoaderLabel, TypeOK, TaskTypeOK

LEMMA FlightInit == Init => FlightInv
BY DEF Init, FlightInv, LoaderLabel

LEMMA FlightStep == TypeOK /\ TypeOK' /\ FlightInv /\ [Next]_vars => FlightInv'
<1> SUFFICES ASSUME TypeOK, TypeOK', FlightInv, [Next]_vars
             PROVE  FlightInv'
  OBVIOUS
<1> USE DEF flight, past
<1>1. ASSUME NEW t \in Task, Get(t) \/ ReadMeta(t) \/ Index(t) PROVE FlightStill(t)
  <2>1. CASE Goto(t, "readMeta") /\ pc[t] = "get" /\ UNCHANGED <<call, flight, past>>
    BY <2>1 DEF Goto, FlightStill, LoaderLabel, TypeOK, TaskTypeOK
  <2>2. CASE Goto(t, "index") /\ pc[t] = "readMeta" /\ UNCHANGED <<call, flight, past>>
    BY <2>2 DEF Goto, FlightStill, LoaderLabel, TypeOK, TaskTypeOK
  <2>3. CASE /\ \E o \in {Null, New, cache[call[t].id]} : GetReturns(t, o)
             /\ pc[t] \in {"get", "readMeta", "index"}
             /\ UNCHANGED <<flight, past>>
    BY <2>3, GetReturnsStill DEF LoaderLabel
  <2>4. QED
    BY <1>1, <2>1, <2>2, <2>3 DEF Get, ReadMeta, Index
<1>2. ASSUME NEW t \in Task,
             IsLoaded(t) \/ ReturnCached(t) \/ IsCached(t) \/ Recheck(t) \/ Push(t)
      PROVE  FlightStill(t)
  BY <1>2 DEF IsLoaded, ReturnCached, IsCached, Recheck, Push, Goto, FlightStill,
              LoaderLabel, TypeOK, TaskTypeOK
<1>3. ASSUME NEW t \in Task, ReadRow(t) \/ ReadMessages(t) \/ Install(t)
      PROVE  FlightStill(t)
  BY <1>3 DEF ReadRow, ReadMessages, Install, Goto, FlightStill, LoaderLabel,
              TypeOK, TaskTypeOK
<1>4. ASSUME NEW t \in Task, Ensured(t) \/ Save(t) \/ Persist(t) \/ Schedule(t)
      PROVE  FlightStill(t)
  BY <1>4 DEF Ensured, Save, Persist, Schedule, Acknowledge, Return, Goto, FlightStill, LoaderLabel,
              TypeOK, TaskTypeOK
<1>5. ASSUME NEW t \in Task,
             CreateRow(t) \/ CreateMessage(t) \/ Publish(t) \/ DeleteRows(t) \/ Evict(t)
      PROVE  FlightStill(t)
  BY <1>5 DEF CreateRow, CreateMessage, Publish, DeleteRows, Evict, Return, Goto,
              FlightStill, LoaderLabel, TypeOK, TaskTypeOK
<1>6. ASSUME NEW t \in Task, Start(t) PROVE FlightStill(t)
  <2>1. PICK op \in Ops : Goto(t, FirstLabel(op))
    BY <1>6 DEF Start
  <2>2. FirstLabel(op) \notin LoaderLabel \cup {"wait"}
    BY SessionStoreAssumption DEF AllOps, FirstLabel, LoaderLabel
  <2>3. \A u \in Task \ {t} : call'[u] = call[u]
    BY <1>6 DEF Start, TypeOK, TaskTypeOK
  <2>4. QED
    BY <1>6, <2>1, <2>2, <2>3
    DEF Start, Goto, FlightStill, LoaderLabel, TypeOK, TaskTypeOK
<1>7. ASSUME NEW t \in Task, Enter(t) PROVE FlightInv'
  <2> DEFINE i == call[t].id
  <2>1. i \in Id
    BY <1>7, BusyHasCall DEF Enter, TypeOK
  <2>2. CASE i \in loading /\ pc'[t] = "wait"
    <3>1. /\ waiters' = [waiters EXCEPT ![i] = @ \cup {t}]
          /\ Goto(t, "wait")
          /\ UNCHANGED <<loading, call, disturbed>>
      BY <1>7, <2>2 DEF Enter, Goto, TypeOK, TaskTypeOK
    <3>2. \A j \in loading : Loaders(j)' # {} \/ j \in disturbed'
      BY <1>7, <3>1 DEF FlightInv, Loaders, Enter, Goto, LoaderLabel, TypeOK, TaskTypeOK
    <3>3. \A j \in Id : \A u \in waiters'[j] : pc'[u] = "wait" /\ call'[u].id = j
      BY <2>1, <3>1 DEF FlightInv, Goto, TypeOK, TaskTypeOK, StoreTypeOK
    <3>4. QED
      BY <1>7, <2>1, <3>1, <3>2, <3>3
      DEF FlightInv, Enter, Goto, LoaderLabel, TypeOK, TaskTypeOK, StoreTypeOK
  <2>3. CASE i \notin loading /\ pc'[t] = "readRow"
    <3>1. /\ loading' = loading \cup {i}
          /\ waiters' = [waiters EXCEPT ![i] = {}]
          /\ Goto(t, "readRow")
          /\ UNCHANGED <<call, disturbed>>
      BY <1>7, <2>3 DEF Enter, Goto, TypeOK, TaskTypeOK
    <3>2. \A j \in loading' : Loaders(j)' # {} \/ j \in disturbed'
      BY <1>7, <3>1 DEF FlightInv, Loaders, Enter, Goto, LoaderLabel, TypeOK, TaskTypeOK
    <3>3. \A j \in Id : \A u \in waiters'[j] : pc'[u] = "wait" /\ call'[u].id = j
      BY <1>7, <2>1, <3>1
      DEF FlightInv, Enter, Goto, TypeOK, TaskTypeOK, StoreTypeOK
    <3>4. QED
      BY <1>7, <2>1, <2>3, <3>1, <3>2, <3>3
      DEF FlightInv, Enter, Goto, LoaderLabel, TypeOK, TaskTypeOK, StoreTypeOK
  <2>4. pc \in [Task -> Label]
    BY DEF TypeOK, TaskTypeOK
  <2>5. QED
    BY <1>7, <2>2, <2>3, <2>4 DEF Enter, Goto, MayLead
<1>8. ASSUME NEW t \in Task, Release(t) PROVE FlightInv'
  <2> DEFINE i == call[t].id
  <2>1. i \in Id /\ i \in loading
    BY <1>8, BusyHasCall DEF Release, FlightInv, LoaderLabel, TypeOK
  <2>2. \A u \in Task : pc'[u] = pc[u] \/ pc'[u] = "ensured"
    BY <1>8 DEF Release
  <2>3. \A u \in Task : pc'[u] = "wait" => pc[u] = "wait" /\ u \notin waiters[i]
    BY <1>8 DEF Release, Answered
  <2>4. \A u \in Task : pc'[u] \in LoaderLabel => pc[u] \in LoaderLabel /\ u # t
    BY <1>8 DEF Release, Answered, LoaderLabel
  <2>5. \A u \in Task : pc'[u] \in LoaderLabel => call[u].id # i
    BY <1>8, <2>4 DEF FlightInv, Release, LoaderLabel
  <2>6. \A j \in loading' : Loaders(j)' # {} \/ j \in disturbed'
    <3> SUFFICES ASSUME NEW j \in loading', j \notin disturbed' PROVE Loaders(j)' # {}
      OBVIOUS
    <3>1. j \in loading /\ j # i /\ j \notin disturbed
      BY <1>8 DEF Release
    <3>2. PICK u \in Task : pc[u] \in LoaderLabel /\ call[u].id = j
      BY <3>1 DEF FlightInv, Loaders
    <3>3. u \notin Answered(t)
      BY <1>8, <2>1, <3>1, <3>2 DEF Answered, FlightInv, LoaderLabel
    <3>4. QED
      BY <1>8, <3>2, <3>3 DEF Release, Loaders
  <2>7. \A j \in Id : \A u \in waiters'[j] : pc'[u] = "wait" /\ call'[u].id = j
    BY <1>8, <2>1 DEF Release, Answered, FlightInv, TypeOK, StoreTypeOK
  <2>8. \A u \in Task : pc'[u] = "wait" => call[u].id \in loading' /\ u \in waiters'[call[u].id]
    BY <1>8, <2>1, <2>3 DEF Release, FlightInv, TypeOK, StoreTypeOK
  <2>9. QED
    BY <1>8, <2>4, <2>5, <2>6, <2>7, <2>8 DEF Release, FlightInv
<1>9. ASSUME NEW t \in Task, StatementFails(t) PROVE FlightInv'
  <2>1. /\ pc[t] \in DatabaseLabel
        /\ pc' = [pc EXCEPT ![t] = "idle"]
        /\ call' = [call EXCEPT ![t] = NoCall]
        /\ disturbed' = disturbed \cup {call[t].id}
        /\ UNCHANGED flight
    BY <1>9 DEF StatementFails, Return, Goto
  <2>2. \A j \in loading' : Loaders(j)' # {} \/ j \in disturbed'
    BY <2>1 DEF FlightInv, Loaders, LoaderLabel, DatabaseLabel, TypeOK, TaskTypeOK
  <2>3. \A j \in Id : \A u \in waiters'[j] : pc'[u] = "wait" /\ call'[u].id = j
    BY <2>1 DEF FlightInv, DatabaseLabel, TypeOK, TaskTypeOK, StoreTypeOK
  <2>4. QED
    BY <2>1, <2>2, <2>3 DEF FlightInv, LoaderLabel, TypeOK, TaskTypeOK
<1>10. CASE Crash
  BY <1>10 DEF Crash, FlightInv, LoaderLabel
<1>11. ASSUME NEW i \in Id, IndexRow(i) \/ TitleEnds(i) PROVE FlightInv'
  BY <1>11 DEF IndexRow, TitleEnds, FlightInv, Loaders
<1>12. CASE Serve
  BY <1>12 DEF Serve, FlightInv, Loaders
<1>13. CASE UNCHANGED vars
  BY <1>13 DEF vars, FlightInv, Loaders
<1>14. QED
  BY <1>1, <1>2, <1>3, <1>4, <1>5, <1>6, <1>7, <1>8, <1>9, <1>10, <1>11, <1>12,
     <1>13, StillFlight DEF Next, Step

(***************************************************************************)
(* The theorems.                                                           *)
(***************************************************************************)

(* Types and the table of loads together are inductive: that the tasks a   *)
(* release answers are waiting is what keeps them well-typed.              *)
LEMMA Inductive == Spec => [](TypeOK /\ FlightInv)
<1>1. Init => TypeOK /\ FlightInv
  BY TypeInit, FlightInit
<1>2. TypeOK /\ FlightInv /\ [Next]_vars => (TypeOK /\ FlightInv)'
  BY TypeStep, FlightStep
<1>3. QED
  BY <1>1, <1>2, PTL DEF Spec

(* Types hold for ever: in particular no task and no cache entry ever      *)
(* holds a Session object that does not exist.                             *)
THEOREM TypeCorrect == Spec => []TypeOK
BY Inductive, PTL

(* The table of loads always agrees with the tasks: one loader at most for *)
(* a session, and a caller waits only where its sender is registered.      *)
THEOREM FlightCorrect == Spec => []FlightInv
BY Inductive, PTL

(***************************************************************************)
(* The refinement of SingleFlight.                                         *)
(***************************************************************************)

(* The variables of SingleFlight as seen in SessionStore. *)
Leads   == [t \in Task |-> IF pc[t] \in LoaderLabel THEN call[t].id ELSE "none"]
Follows == [t \in Task |-> IF pc[t] = "wait" THEN call[t].id ELSE "none"]
Holds   == [t \in Task |-> IF pc[t] = "ensured" THEN <<ret[t]>> ELSE <<>>]

(* A step of one task outside every flight changes at most its own answer. *)
LEMMA StillIsElsewhere ==
    ASSUME TypeOK, NEW t \in Task, UNCHANGED loading,
           \A u \in Task \ {t} : pc'[u] = pc[u] /\ call'[u] = call[u] /\ ret'[u] = ret[u],
           pc[t] \notin LoaderLabel \cup {"wait"},
           pc'[t] \notin LoaderLabel \cup {"wait"}
    PROVE  Flight!Elsewhere(t)
BY DEF Flight!Elsewhere, Flight!Aground

(* A step of one task outside every flight, as a step of SingleFlight. *)
Outside(t) ==
    /\ UNCHANGED loading
    /\ \A u \in Task \ {t} : pc'[u] = pc[u] /\ call'[u] = call[u] /\ ret'[u] = ret[u]
    /\ pc[t] \notin LoaderLabel \cup {"wait"}
    /\ pc'[t] \notin LoaderLabel \cup {"wait"}

(* Every step of SessionStore is a step of SingleFlight or leaves its      *)
(* variables alone.                                                        *)
LEMMA FlightRefines ==
    TypeOK /\ TypeOK' /\ FlightInv /\ [Next]_vars => [Flight!Next]_(Flight!vars)
<1> SUFFICES ASSUME TypeOK, TypeOK', FlightInv, [Next]_vars
             PROVE  Flight!Next \/ UNCHANGED <<loading, Leads, Follows, Holds>>
  BY DEF Flight!vars, Leads, Follows, Holds
<1> USE DEF flight
<1>1. ASSUME NEW t \in Task, Outside(t) PROVE Flight!Next
  BY <1>1, StillIsElsewhere DEF Outside, Flight!Next
<1>2. ASSUME NEW t \in Task, NEW o, GetReturns(t, o), UNCHANGED loading,
             pc[t] \notin LoaderLabel \cup {"wait"}
      PROVE  Outside(t)
  BY <1>2 DEF GetReturns, Return, Goto, Outside, LoaderLabel, TypeOK, TaskTypeOK
<1>3. ASSUME NEW t \in Task, Get(t) \/ ReadMeta(t) \/ Index(t) PROVE Outside(t)
  <2>1. CASE Goto(t, "readMeta") /\ pc[t] = "get" /\ UNCHANGED <<call, ret, flight>>
    BY <2>1 DEF Goto, Outside, LoaderLabel, TypeOK, TaskTypeOK
  <2>2. CASE Goto(t, "index") /\ pc[t] = "readMeta" /\ UNCHANGED <<call, ret, flight>>
    BY <2>2 DEF Goto, Outside, LoaderLabel, TypeOK, TaskTypeOK
  <2>3. CASE /\ \E o \in {Null, New, cache[call[t].id]} : GetReturns(t, o)
             /\ pc[t] \in {"get", "readMeta", "index"}
             /\ UNCHANGED flight
    BY <2>3, <1>2 DEF LoaderLabel
  <2>4. QED
    BY <1>3, <2>1, <2>2, <2>3 DEF Get, ReadMeta, Index
<1>4. ASSUME NEW t \in Task,
             IsLoaded(t) \/ ReturnCached(t) \/ IsCached(t) \/ Recheck(t) \/ Push(t)
      PROVE  Outside(t)
  BY <1>4 DEF IsLoaded, ReturnCached, IsCached, Recheck, Push, Goto, Outside,
              LoaderLabel, TypeOK, TaskTypeOK
<1>5. ASSUME NEW t \in Task, Ensured(t) \/ Save(t) \/ Persist(t) \/ Schedule(t)
      PROVE  Outside(t)
  BY <1>5 DEF Ensured, Save, Persist, Schedule, Acknowledge, Return, Goto, Outside, LoaderLabel,
              TypeOK, TaskTypeOK
<1>6. ASSUME NEW t \in Task,
             CreateRow(t) \/ CreateMessage(t) \/ Publish(t) \/ DeleteRows(t) \/ Evict(t)
      PROVE  Outside(t)
  BY <1>6 DEF CreateRow, CreateMessage, Publish, DeleteRows, Evict, Return, Goto,
              Outside, LoaderLabel, TypeOK, TaskTypeOK
<1>7. ASSUME NEW t \in Task, Start(t) PROVE Outside(t)
  <2>1. PICK op \in Ops : Goto(t, FirstLabel(op))
    BY <1>7 DEF Start
  <2>2. FirstLabel(op) \notin LoaderLabel \cup {"wait"}
    BY SessionStoreAssumption DEF AllOps, FirstLabel, LoaderLabel
  <2>3. \A u \in Task \ {t} : call'[u] = call[u]
    BY <1>7 DEF Start, TypeOK, TaskTypeOK
  <2>4. QED
    BY <1>7, <2>1, <2>2, <2>3
    DEF Start, Goto, Outside, LoaderLabel, TypeOK, TaskTypeOK
<1>8. ASSUME NEW t \in Task, ReadRow(t) \/ ReadMessages(t) \/ Install(t)
      PROVE  UNCHANGED <<loading, Leads, Follows, Holds>>
  <2>1. /\ UNCHANGED <<loading, call>>
        /\ pc[t] \in LoaderLabel /\ pc'[t] \in LoaderLabel
        /\ \A u \in Task \ {t} : pc'[u] = pc[u] /\ ret'[u] = ret[u]
    BY <1>8 DEF ReadRow, ReadMessages, Install, Goto, LoaderLabel, TypeOK, TaskTypeOK
  <2>2. "wait" \notin LoaderLabel /\ "ensured" \notin LoaderLabel
    BY DEF LoaderLabel
  <2>3. QED
    BY <2>1, <2>2 DEF Leads, Follows, Holds
<1>9. ASSUME NEW t \in Task, Enter(t) PROVE Flight!Next
  <2>1. PICK i \in Id : i = call[t].id /\ i # "none"
    BY <1>9, BusyHasCall, SessionStoreAssumption DEF Enter, TypeOK
  <2>2. CASE i \in loading /\ Goto(t, "wait")
    <3>1. Flight!Follow(t, i)
      BY <1>9, <2>1, <2>2
      DEF Flight!Follow, Flight!Aground, Enter, Goto, LoaderLabel, TypeOK, TaskTypeOK
    <3>2. QED
      BY <2>1, <3>1 DEF Flight!Next
  <2>3. CASE i \notin loading /\ Goto(t, "readRow") /\ loading' = loading \cup {i}
    <3>1. Flight!Lead(t, i)
      BY <1>9, <2>1, <2>3
      DEF Flight!Lead, Flight!Aground, Enter, Goto, LoaderLabel, TypeOK, TaskTypeOK
    <3>2. QED
      BY <2>1, <3>1 DEF Flight!Next
  <2>4. QED
    BY <1>9, <2>1, <2>2, <2>3 DEF Enter, MayLead
<1>10. ASSUME NEW t \in Task, Release(t) PROVE Flight!Next
  <2> DEFINE i == call[t].id
  <2>1. i \in Id /\ i # "none"
    BY <1>10, BusyHasCall, SessionStoreAssumption DEF Release, TypeOK
  <2>2. /\ pc[t] = "release" /\ loading' = loading \ {i} /\ UNCHANGED call
        /\ \A u \in Task : /\ pc'[u] = IF u \in Answered(t) THEN "ensured" ELSE pc[u]
                           /\ ret'[u] = IF u \in Answered(t) THEN ret[t] ELSE ret[u]
    BY <1>10 DEF Release
  <2>3. \A u \in Task : u \in Answered(t) <=> u = t \/ (pc[u] = "wait" /\ call[u].id = i)
    BY <2>1 DEF Answered, FlightInv
  <2>4. Leads[t] = i /\ Leads' = [Leads EXCEPT ![t] = "none"]
    BY <2>2, <2>3 DEF Leads, LoaderLabel
  <2>5. Follows' = [u \in Task |-> IF Follows[u] = i THEN "none" ELSE Follows[u]]
    BY <2>1, <2>2, <2>3 DEF Follows
  <2>6. Holds' = [u \in Task |-> IF u = t \/ Follows[u] = i THEN Holds'[t] ELSE Holds[u]]
    BY <2>1, <2>2, <2>3 DEF Holds, Follows
  <2>7. Holds'[t] # <<>>
    BY <2>2, <2>3 DEF Holds
  <2>8. Flight!Land(t)
    BY <2>1, <2>2, <2>4, <2>5, <2>6, <2>7 DEF Flight!Land, Leads, Follows, Holds
  <2>9. QED
    BY <2>8 DEF Flight!Next
<1>11. ASSUME NEW t \in Task, StatementFails(t) PROVE Flight!Next
  <2>1. /\ pc' = [pc EXCEPT ![t] = "idle"]
        /\ call' = [call EXCEPT ![t] = NoCall]
        /\ ret' = [ret EXCEPT ![t] = Null]
        /\ UNCHANGED loading
        /\ pc[t] \notin {"wait", "ensured"}
    BY <1>11 DEF StatementFails, Return, Goto, DatabaseLabel
  <2>2. CASE pc[t] \notin LoaderLabel
    BY <2>1, <2>2, <1>1 DEF Outside, LoaderLabel, TypeOK, TaskTypeOK
  <2>3. CASE pc[t] \in LoaderLabel
    <3>1. call[t].id # "none"
      BY <2>3, BusyHasCall, SessionStoreAssumption DEF LoaderLabel, TypeOK
    <3>2. Flight!Fail(t)
      BY <2>1, <2>3, <3>1 DEF Flight!Fail, LoaderLabel, TypeOK, TaskTypeOK
    <3>3. QED
      BY <3>2 DEF Flight!Next
  <2>4. QED
    BY <2>2, <2>3
<1>12. CASE Crash
  BY <1>12 DEF Crash, Flight!Next, Flight!Restart, LoaderLabel
<1>13. ASSUME NEW i \in Id, IndexRow(i) \/ TitleEnds(i)
       PROVE  UNCHANGED <<loading, Leads, Follows, Holds>>
  BY <1>13 DEF IndexRow, TitleEnds, Leads, Follows, Holds
<1>14. CASE Serve
  BY <1>14 DEF Serve, Leads, Follows, Holds
<1>15. CASE UNCHANGED vars
  BY <1>15 DEF vars, Leads, Follows, Holds
<1>16. QED
  BY <1>1, <1>3, <1>4, <1>5, <1>6, <1>7, <1>8, <1>9, <1>10, <1>11, <1>12, <1>13,
     <1>14, <1>15 DEF Next, Step

(* Concurrent cold loads of one session are a single flight: whoever joins *)
(* a running load gets exactly what its loader got.                        *)
THEOREM ImplementsSingleFlight == Spec => SingleFlightSpec
<1>1. Init => Flight!Init
  BY DEF Init, Flight!Init, LoaderLabel
<1>2. TypeOK /\ TypeOK' /\ FlightInv /\ [Next]_vars => [Flight!Next]_(Flight!vars)
  BY FlightRefines
<1>3. QED
  BY <1>1, <1>2, Inductive, PTL DEF Spec, SingleFlightSpec, Flight!Spec
-----------------------------------------------------------------------------
(***************************************************************************)
(* Quiet deletes.                                                          *)
(***************************************************************************)
(* A session deleted while nothing else worked on it has no row, no message *)
(* and no copy that outlives the delete; no task is at a place from which    *)
(* it would write one or start a title generation, and none is at work.     *)
Writing == {"index", "readMessages", "install", "persist", "schedule", "createMessage",
            "publish"}
Deleted(i) ==
    /\ i \notin rows
    /\ stored[i] = {}
    /\ cache[i] # Null => \E t \in Task : pc[t] = "evict" /\ call[t].id = i
    /\ \A t \in Task : pc[t] \in Writing => call[t].id # i
    /\ titles[i] = 0
DeleteInv == \A i \in gone : Deleted(i)

LEMMA DeleteInit == Init => DeleteInv
BY DEF Init, DeleteInv

(* One task moves: it ends its delete by evicting, and does not go on to    *)
(* write what was deleted.                                                 *)
LEMMA StillDeleted ==
    ASSUME TypeOK, NEW i \in Id, Deleted(i), NEW t \in Task,
           \A u \in Task \ {t} : pc'[u] = pc[u] /\ call'[u] = call[u],
           i \notin rows', stored'[i] = {}, titles'[i] = titles[i], cache'[i] \in {cache[i], Null},
           pc[t] = "evict" /\ call[t].id = i => cache'[i] = Null,
           pc'[t] \in Writing => call'[t].id # i
    PROVE  Deleted(i)'
<1>1. ASSUME cache'[i] # Null PROVE \E u \in Task : pc'[u] = "evict" /\ call'[u].id = i
  <2>1. PICK u \in Task : pc[u] = "evict" /\ call[u].id = i
    BY <1>1 DEF Deleted
  <2>2. u # t
    BY <1>1, <2>1
  <2>3. QED
    BY <2>1, <2>2
<1>2. QED
  BY <1>1 DEF Deleted

LEMMA DeleteStep == TypeOK /\ FlightInv /\ DeleteInv /\ [Next]_vars => DeleteInv'
<1> SUFFICES ASSUME TypeOK, FlightInv, DeleteInv, [Next]_vars, NEW i \in gone'
             PROVE  Deleted(i)'
  BY DEF DeleteInv
<1> USE DEF db, memory, flight, service, past
<1>0. /\ gone \subseteq Id /\ pc \in [Task -> Label] /\ ret \in [Task -> Nat]
      /\ call \in [Task -> Call \cup {NoCall}] /\ cache \in [Id -> Nat]
      /\ stored \in [Id -> SUBSET Msg] /\ titles \in [Id -> Nat]
      /\ \A t \in Task : pc[t] # "idle" => call[t].id \in Id
  BY BusyHasCall DEF TypeOK, TaskTypeOK, StoreTypeOK, PastTypeOK
<1>1. i \in gone => Deleted(i)
  BY DEF DeleteInv
<1>2. ASSUME NEW t \in Task, NEW o, GetReturns(t, o), UNCHANGED <<rows, stored, titles, gone>>,
             cache'[i] \in {cache[i], Null}, pc[t] \in {"get", "readMeta", "index"}
      PROVE  Deleted(i)'
  <2>1. /\ \A u \in Task \ {t} : pc'[u] = pc[u] /\ call'[u] = call[u]
        /\ pc'[t] \notin Writing
    BY <1>0, <1>2 DEF GetReturns, Return, Goto, Writing
  <2>2. QED
    BY <1>0, <1>1, <1>2, <2>1, StillDeleted DEF Deleted
<1>3. ASSUME NEW t \in Task, Get(t) \/ ReadMeta(t) PROVE Deleted(i)'
  <2>1. CASE /\ Goto(t, "readMeta") \/ (Goto(t, "index") /\ call[t].id \in rows)
             /\ pc[t] \in {"get", "readMeta"} /\ UNCHANGED <<db, memory, call, titles, gone>>
    <3>1. /\ \A u \in Task \ {t} : pc'[u] = pc[u] /\ call'[u] = call[u]
          /\ pc'[t] \in Writing => call'[t].id \in rows
      BY <1>0, <2>1 DEF Goto, Writing
    <3>2. QED
      BY <1>0, <1>1, <2>1, <3>1, StillDeleted DEF Deleted
  <2>2. CASE /\ \E o \in {Null, cache[call[t].id]} : GetReturns(t, o)
             /\ pc[t] \in {"get", "readMeta"} /\ UNCHANGED <<db, memory, service, past>>
    BY <1>2, <2>2
  <2>3. QED
    BY <1>3, <2>1, <2>2 DEF Get, ReadMeta
<1>4. ASSUME NEW t \in Task, Index(t) PROVE Deleted(i)'
  <2>1. /\ pc[t] = "index" /\ GetReturns(t, New) /\ UNCHANGED <<db, service, past>>
        /\ cache' = [cache EXCEPT ![call[t].id] = New]
    BY <1>4 DEF Index, InsertIndexed
  <2>2. call[t].id # i
    BY <1>1, <2>1 DEF Deleted, Writing
  <2>3. cache'[i] = cache[i]
    BY <1>0, <2>1, <2>2
  <2>4. QED
    BY <1>2, <2>1, <2>3
<1>5. ASSUME NEW t \in Task,
             IsLoaded(t) \/ ReturnCached(t) \/ IsCached(t) \/ Recheck(t) \/ Push(t) \/ Enter(t)
      PROVE  Deleted(i)'
  <2>1. /\ UNCHANGED <<db, cache, call, titles, gone>>
        /\ \A u \in Task \ {t} : pc'[u] = pc[u]
        /\ pc'[t] \notin Writing /\ pc[t] # "evict"
    BY <1>0, <1>5 DEF IsLoaded, ReturnCached, IsCached, Recheck, Push, Enter, Goto, Writing
  <2>2. QED
    BY <1>0, <1>1, <2>1, StillDeleted DEF Deleted
<1>6. ASSUME NEW t \in Task, ReadRow(t) \/ ReadMessages(t) \/ Install(t) PROVE Deleted(i)'
  <2>1. /\ UNCHANGED <<db, call, titles, gone>> /\ pc[t] # "evict"
        /\ \A u \in Task \ {t} : pc'[u] = pc[u]
        /\ pc'[t] \in Writing => pc[t] \in Writing \/ call[t].id \in rows
    BY <1>0, <1>6 DEF ReadRow, ReadMessages, Install, Goto, Writing
  <2>2. cache'[i] # cache[i] => pc[t] \in Writing /\ call[t].id = i
    BY <1>0, <1>6 DEF ReadRow, ReadMessages, Install, InsertLoaded, Writing
  <2>3. QED
    BY <1>0, <1>1, <2>1, <2>2, StillDeleted DEF Deleted
<1>7. ASSUME NEW t \in Task, Release(t) PROVE Deleted(i)'
  <2>1. /\ UNCHANGED <<db, memory, call, titles, gone>> /\ pc[t] = "release"
        /\ \A u \in Task : pc'[u] = IF u \in Answered(t) THEN "ensured" ELSE pc[u]
    BY <1>7 DEF Release
  <2>2. \A u \in Task : u \in Answered(t) => pc[u] \in {"wait", "release"}
    BY <1>0, <2>1 DEF Answered, FlightInv
  <2>3. \A u \in Task : /\ pc'[u] \in Writing => pc[u] \in Writing
                        /\ pc[u] = "evict" => pc'[u] = "evict"
    BY <2>1, <2>2 DEF Writing
  <2>4. QED
    BY <1>1, <2>1, <2>3 DEF Deleted
<1>8. ASSUME NEW t \in Task,
             Ensured(t) \/ Save(t) \/ CreateMessage(t) \/ StatementFails(t)
      PROVE  Deleted(i)'
  <2>1. /\ UNCHANGED <<rows, memory, titles, gone>> /\ pc[t] # "evict"
        /\ \A u \in Task \ {t} : pc'[u] = pc[u] /\ call'[u] = call[u]
        /\ pc'[t] \in Writing => call[t].id \in rows /\ call'[t] = call[t]
    BY <1>0, <1>8 DEF Ensured, Save, CreateMessage, StatementFails, DatabaseLabel, Return,
                      Goto, Writing
  <2>2. stored' = stored \/ (call[t].id \in rows /\ \A j \in Id \ {call[t].id} : stored'[j] = stored[j])
    BY <1>0, <1>8 DEF Ensured, Save, CreateMessage, StatementFails
  <2>3. QED
    BY <1>0, <1>1, <2>1, <2>2, StillDeleted DEF Deleted
<1>9. ASSUME NEW t \in Task, Persist(t) \/ Schedule(t) \/ Publish(t) PROVE Deleted(i)'
  <2>1. /\ UNCHANGED <<stored, gone>> /\ pc[t] \in Writing /\ pc[t] # "evict"
        /\ \A u \in Task \ {t} : pc'[u] = pc[u] /\ call'[u] = call[u]
        /\ pc'[t] \in Writing => call'[t] = call[t]
        /\ rows' \subseteq rows \cup {call[t].id}
        /\ \A j \in Id \ {call[t].id} : cache'[j] = cache[j]
    BY <1>0, <1>9 DEF Persist, Schedule, Acknowledge, Publish, InsertLoaded, Return, Goto,
                      Writing
  <2>2. call[t].id # i
    BY <1>1, <2>1 DEF Deleted
  <2>3. titles'[i] = titles[i]
    BY <1>0, <1>9, <2>2 DEF Persist, Schedule, Publish
  <2>4. QED
    BY <1>0, <1>1, <2>1, <2>2, <2>3, StillDeleted DEF Deleted
<1>10. ASSUME NEW t \in Task, CreateRow(t) PROVE Deleted(i)'
  <2>1. /\ rows' = rows \cup {call[t].id} /\ UNCHANGED <<stored, memory, call, titles>>
        /\ gone' = gone \ {call[t].id} /\ pc[t] = "createRow"
        /\ \A u \in Task \ {t} : pc'[u] = pc[u]
    BY <1>0, <1>10 DEF CreateRow, Goto
  <2>2. i \in gone /\ call[t].id # i
    BY <2>1
  <2>3. QED
    BY <1>0, <1>1, <2>1, <2>2, StillDeleted DEF Deleted
<1>11. ASSUME NEW t \in Task, DeleteRows(t) PROVE Deleted(i)'
  <2> DEFINE j == call[t].id
  <2>1. /\ pc[t] = "deleteRows" /\ rows' = rows \ {j} /\ stored' = [stored EXCEPT ![j] = {}]
        /\ gone' = (IF Quiet(t) THEN gone \cup {j} ELSE gone)
        /\ UNCHANGED <<memory, call, titles>> /\ j \in Id
        /\ pc'[t] = "evict" /\ \A u \in Task \ {t} : pc'[u] = pc[u]
    BY <1>0, <1>11 DEF DeleteRows, Goto
  <2>2. CASE i \in gone
    <3>1. stored'[i] = {} /\ i \notin rows'
      BY <1>0, <1>1, <2>1, <2>2 DEF Deleted
    <3>2. QED
      BY <1>0, <1>1, <2>1, <2>2, <3>1, StillDeleted DEF Writing
  <2>3. CASE i \notin gone
    <3>1. i = j /\ Busy(j) = {t} /\ titles[i] = 0
      BY <2>1, <2>3 DEF Quiet
    <3>2. \A u \in Task : pc'[u] \in Writing => call'[u].id # i
      BY <2>1, <3>1 DEF Busy, Writing
    <3>3. QED
      BY <1>0, <2>1, <3>1, <3>2 DEF Deleted
  <2>4. QED
    BY <2>2, <2>3
<1>12. ASSUME NEW t \in Task, Evict(t) PROVE Deleted(i)'
  <2>1. /\ cache' = [cache EXCEPT ![call[t].id] = Null] /\ UNCHANGED <<db, titles, gone>>
        /\ \A u \in Task \ {t} : pc'[u] = pc[u] /\ call'[u] = call[u]
        /\ pc'[t] = "idle"
    BY <1>0, <1>12 DEF Evict, Return, Goto
  <2>2. QED
    BY <1>0, <1>1, <2>1, StillDeleted DEF Deleted, Writing
<1>13. ASSUME NEW t \in Task, Start(t) PROVE Deleted(i)'
  <2>1. PICK op \in Ops : Goto(t, FirstLabel(op))
    BY <1>13 DEF Start
  <2>2. FirstLabel(op) \notin Writing
    BY SessionStoreAssumption DEF AllOps, FirstLabel, Writing
  <2>3. /\ UNCHANGED <<db, memory, titles, gone>> /\ pc[t] = "idle"
        /\ \A u \in Task \ {t} : pc'[u] = pc[u] /\ call'[u] = call[u]
        /\ pc'[t] \notin Writing
    BY <1>0, <1>13, <2>1, <2>2 DEF Start, Goto
  <2>4. QED
    BY <1>0, <1>1, <2>3, StillDeleted DEF Deleted
<1>14. CASE Crash
  BY <1>0, <1>1, <1>14 DEF Crash, Deleted, Writing
<1>15. ASSUME NEW j \in Id, IndexRow(j) PROVE Deleted(i)'
  <2>1. /\ j \in rows /\ cache' = [cache EXCEPT ![j] = New] /\ UNCHANGED <<db, pc, call, titles, gone>>
    BY <1>15 DEF IndexRow, InsertIndexed
  <2>2. cache'[i] = cache[i]
    BY <1>0, <1>1, <2>1 DEF Deleted
  <2>3. QED
    BY <1>1, <2>1, <2>2 DEF Deleted
<1>16. CASE Serve \/ UNCHANGED vars
  BY <1>1, <1>16 DEF Serve, vars, Deleted
<1>17. ASSUME NEW j \in Id, TitleEnds(j) PROVE Deleted(i)'
  <2>1. /\ titles[j] > 0 /\ rows' \subseteq rows \cup {j}
        /\ titles' = [titles EXCEPT ![j] = @ - 1]
        /\ UNCHANGED <<stored, memory, pc, call, gone>>
    BY <1>17 DEF TitleEnds
  <2>2. Deleted(i) /\ i # j
    BY <1>1, <2>1 DEF Deleted
  <2>3. titles'[i] = titles[i]
    BY <1>0, <2>1, <2>2
  <2>4. QED
    BY <2>1, <2>2, <2>3 DEF Deleted
<1>18. QED
  BY <1>3, <1>4, <1>5, <1>6, <1>7, <1>8, <1>9, <1>10, <1>11, <1>12, <1>13, <1>14,
     <1>15, <1>16, <1>17 DEF Next, Step

(* A delete that nothing was in the way of, neither a call nor a title       *)
(* generation, is final: neither the callers that still saw the cache entry *)
(* nor what they start nor a restart bring the session back.                *)
THEOREM QuietDeletesStay == Spec => []QuietDeleteIsFinal
<1>1. Init => DeleteInv
  BY DeleteInit
<1>2. TypeOK /\ FlightInv /\ DeleteInv /\ [Next]_vars => DeleteInv'
  BY DeleteStep
<1>3. DeleteInv => QuietDeleteIsFinal
  BY DEF DeleteInv, Deleted, QuietDeleteIsFinal
<1>4. QED
  BY <1>1, <1>2, <1>3, Inductive, PTL DEF Spec
-----------------------------------------------------------------------------
(***************************************************************************)
(* One copy of a session.                                                  *)
(***************************************************************************)
(* Who holds a Session object.  An object belongs to one session, and as    *)
(* long as the only loaded copy of a session is cached, that copy is the    *)
(* one its callers hold.                                                   *)
Holding == {"install", "release", "ensured", "save", "persist", "schedule"}
Settled(i) == i \in full /\ copies[i] = 1
HoldsOwn ==
    /\ \A i, j \in Id : cache[i] = cache[j] /\ cache[i] # Null => i = j
    /\ \A t \in Task, i \in Id : ret[t] = cache[i] /\ ret[t] # Null => call[t].id = i
    /\ \A t, u \in Task : ret[t] = ret[u] /\ ret[t] # Null => call[t].id = call[u].id
HoldsCopy(t) ==
    /\ pc[t] \notin Holding => ret[t] = Null
    /\ pc[t] \in {"install", "save"} => ret[t] # Null
    /\ pc[t] = "returnCached" => copies[call[t].id] > 0
    /\ ret[t] # Null /\ pc[t] # "install" =>
          /\ copies[call[t].id] > 0
          /\ Settled(call[t].id) => ret[t] = cache[call[t].id]
HandsInv ==
    /\ \A i \in full : copies[i] > 0 /\ cache[i] # Null
    /\ HoldsOwn
    /\ \A t \in Task : HoldsCopy(t)

(* The types these proofs need.                                            *)
Facts ==
    /\ pc \in [Task -> Label] /\ ret \in [Task -> Nat] /\ call \in [Task -> Call \cup {NoCall}]
    /\ cache \in [Id -> Nat] /\ copies \in [Id -> Nat] /\ full \subseteq Id
    /\ stored \in [Id -> SUBSET Msg] /\ rows \subseteq Id /\ disturbed \subseteq Id
    /\ heap \in Seq(SUBSET Msg) /\ Len(heap) \in Nat
    /\ \A i \in Id : cache[i] <= Len(heap)
    /\ \A t \in Task : ret[t] <= Len(heap)
    /\ \A t \in Task : pc[t] # "idle" => call[t].id \in Id

LEMMA TypeFacts == TypeOK => Facts
<1> SUFFICES ASSUME TypeOK PROVE Facts
  OBVIOUS
<1>1. \A t \in Task : pc[t] # "idle" => call[t].id \in Id
  BY BusyHasCall DEF TypeOK
<1>2. heap \in Seq(SUBSET Msg) /\ Len(heap) \in Nat
  BY DEF TypeOK, StoreTypeOK
<1>3. QED
  BY <1>1, <1>2 DEF Facts, TypeOK, StoreTypeOK, TaskTypeOK, ObjectsExist, PastTypeOK

Alone(t) == \A u \in Task \ {t} : pc'[u] = pc[u] /\ call'[u] = call[u] /\ ret'[u] = ret[u]

(* A step that gives no task and no cache entry another object.            *)
HandsStill(t) ==
    /\ Alone(t) /\ UNCHANGED <<cache, full, copies>>
    /\ \/ ret'[t] = Null
       \/ ret'[t] = ret[t] /\ call'[t].id = call[t].id /\ pc[t] # "install" /\ pc'[t] \in Holding
    /\ pc'[t] \in {"install", "save"} => ret'[t] # Null
    /\ pc'[t] = "returnCached" => call'[t].id \in full

LEMMA StillHands ==
    ASSUME Facts, HandsInv, NEW t \in Task, HandsStill(t)
    PROVE  HandsInv'
<1>1. HoldsOwn'
  BY DEF HandsInv, HoldsOwn, HandsStill, Alone
<1>2. ASSUME NEW u \in Task, u # t PROVE HoldsCopy(u)'
  BY <1>2 DEF HandsInv, HoldsCopy, Settled, HandsStill, Alone
<1>3. HoldsCopy(t)'
  BY DEF HandsInv, HoldsCopy, Settled, HandsStill
<1>4. QED
  BY <1>1, <1>2, <1>3 DEF HandsInv, HandsStill

LEMMA HandsInit == Init => HandsInv
BY DEF Init, HandsInv, HoldsOwn, HoldsCopy, Holding

(* What GetReturns does to the hands: nothing. *)
LEMMA GetReturnsHands ==
    ASSUME Facts, HandsInv, NEW t \in Task, NEW o, GetReturns(t, o),
           pc[t] \in {"get", "readMeta", "index"}
    PROVE  Alone(t) /\ ret'[t] = Null /\ pc'[t] \in {"idle", "createRow", "ensured", "recheck"}
BY DEF GetReturns, Return, Goto, Alone, Facts, HandsInv, HoldsCopy, Holding

(* A cache entry is dropped, or replaced by a new object.                   *)
LEMMA EntryOwn ==
    ASSUME Facts, HandsInv, NEW i \in Id, NEW o \in {Null, Len(heap) + 1},
           cache' = [cache EXCEPT ![i] = o],
           \A u \in Task : ret'[u] = Null \/ (ret'[u] = ret[u] /\ call'[u] = call[u])
    PROVE  HoldsOwn'
<1>1. /\ \A j \in Id : cache'[j] = (IF j = i THEN o ELSE cache[j]) /\ cache[j] # Len(heap) + 1
      /\ \A u \in Task : ret[u] # Len(heap) + 1
  BY DEF Facts
<1>2. ASSUME NEW j \in Id, NEW k \in Id, cache'[j] = cache'[k], cache'[j] # Null PROVE j = k
  BY <1>1, <1>2 DEF HandsInv, HoldsOwn
<1>3. ASSUME NEW u \in Task, NEW j \in Id, ret'[u] = cache'[j], ret'[u] # Null
      PROVE  call'[u].id = j
  BY <1>1, <1>3 DEF HandsInv, HoldsOwn
<1>4. ASSUME NEW u \in Task, NEW v \in Task, ret'[u] = ret'[v], ret'[u] # Null
      PROVE  call'[u].id = call'[v].id
  BY <1>4 DEF HandsInv, HoldsOwn
<1>5. QED
  BY <1>2, <1>3, <1>4 DEF HoldsOwn

LEMMA HandsStep == TypeOK /\ FlightInv /\ HandsInv /\ [Next]_vars => HandsInv'
<1> SUFFICES ASSUME TypeOK, FlightInv, HandsInv, [Next]_vars PROVE HandsInv'
  OBVIOUS
<1> USE DEF db, memory, flight, service, past
<1>0. Facts
  BY TypeFacts
<1>1. ASSUME NEW t \in Task, Get(t) \/ ReadMeta(t) PROVE HandsInv'
  <2>1. CASE /\ Goto(t, "readMeta") \/ Goto(t, "index")
             /\ pc[t] \in {"get", "readMeta"}
             /\ UNCHANGED <<call, ret, memory, past>>
    <3>1. HandsStill(t)
      BY <1>0, <2>1 DEF Goto, HandsStill, Alone, Facts, HandsInv, HoldsCopy, Holding
    <3>2. QED
      BY <1>0, <3>1, StillHands
  <2>2. CASE /\ \E o \in {Null, cache[call[t].id]} : GetReturns(t, o)
             /\ pc[t] \in {"get", "readMeta"} /\ UNCHANGED <<memory, past>>
    <3>1. HandsStill(t)
      BY <1>0, <2>2, GetReturnsHands DEF HandsStill
    <3>2. QED
      BY <1>0, <3>1, StillHands
  <2>3. QED
    BY <1>1, <2>1, <2>2 DEF Get, ReadMeta
<1>2. ASSUME NEW t \in Task, Index(t) PROVE HandsInv'
  <2> DEFINE i == call[t].id
  <2>1. /\ Alone(t) /\ ret'[t] = Null /\ pc'[t] \notin {"install", "save", "returnCached"}
        /\ cache' = [cache EXCEPT ![i] = Len(heap) + 1] /\ full' = full \ {i}
        /\ UNCHANGED copies /\ i \in Id
    BY <1>0, <1>2, GetReturnsHands DEF Index, InsertIndexed, New, Facts
  <2>2. HoldsOwn'
    BY <1>0, <2>1, EntryOwn DEF Alone
  <2>3. ASSUME NEW u \in Task PROVE HoldsCopy(u)'
    BY <1>0, <2>1 DEF HandsInv, HoldsCopy, Settled, Alone, Facts
  <2>4. \A j \in full' : copies'[j] > 0 /\ cache'[j] # Null
    BY <1>0, <2>1 DEF HandsInv, Facts
  <2>5. QED
    BY <2>2, <2>3, <2>4 DEF HandsInv
<1>3. ASSUME NEW t \in Task,
             IsLoaded(t) \/ IsCached(t) \/ Recheck(t) \/ Enter(t) \/ ReadRow(t)
      PROVE  HandsInv'
  <2>1. HandsStill(t)
    BY <1>0, <1>3 DEF IsLoaded, IsCached, Recheck, Enter, ReadRow, Goto, HandsStill, Alone,
                      Facts, HandsInv, HoldsCopy, Holding
  <2>2. QED
    BY <1>0, <2>1, StillHands
<1>4. ASSUME NEW t \in Task, Push(t) PROVE HandsInv'
  <2>1. HandsStill(t)
    BY <1>0, <1>4 DEF Push, Goto, HandsStill, Alone, Facts, Holding
  <2>2. QED
    BY <1>0, <2>1, StillHands
<1>5. ASSUME NEW t \in Task,
             Ensured(t) \/ Save(t) \/ Persist(t) \/ Schedule(t) \/ CreateMessage(t)
             \/ StatementFails(t)
      PROVE  HandsInv'
  <2>1. /\ Alone(t) /\ UNCHANGED <<cache, full, copies>>
        /\ \/ Return(t)
           \/ pc[t] = "save" /\ Goto(t, "persist") /\ UNCHANGED <<call, ret>>
           \/ pc[t] = "persist" /\ Goto(t, "schedule") /\ UNCHANGED <<call, ret>>
           \/ pc[t] = "createMessage" /\ Goto(t, "publish") /\ UNCHANGED <<call, ret>>
    BY <1>0, <1>5 DEF Ensured, Save, Persist, Schedule, Acknowledge, CreateMessage,
                      StatementFails, Return, Goto, Alone, Facts
  <2>2. HandsStill(t)
    BY <1>0, <2>1 DEF Return, Goto, HandsStill, Facts, Holding, HandsInv, HoldsCopy
  <2>3. QED
    BY <1>0, <2>2, StillHands
<1>6. ASSUME NEW t \in Task, CreateRow(t) \/ DeleteRows(t) PROVE HandsInv'
  <2>1. HandsStill(t)
    BY <1>0, <1>6 DEF CreateRow, DeleteRows, Goto, HandsStill, Alone, Facts, HandsInv,
                      HoldsCopy, Holding
  <2>2. QED
    BY <1>0, <2>1, StillHands
<1>7. ASSUME NEW t \in Task, Start(t) PROVE HandsInv'
  <2>1. PICK op \in Ops : Goto(t, FirstLabel(op))
    BY <1>7 DEF Start
  <2>2. FirstLabel(op) \notin Holding \cup {"returnCached"}
    BY SessionStoreAssumption DEF AllOps, FirstLabel, Holding
  <2>3. HandsStill(t)
    BY <1>0, <1>7, <2>1, <2>2
       DEF Start, Goto, HandsStill, Alone, Facts, HandsInv, HoldsCopy, Holding
  <2>4. QED
    BY <1>0, <2>3, StillHands
<1>8. ASSUME NEW t \in Task, ReturnCached(t) PROVE HandsInv'
  <2> DEFINE i == call[t].id
  <2>1. /\ ret' = [ret EXCEPT ![t] = cache[i]] /\ pc' = [pc EXCEPT ![t] = "ensured"]
        /\ UNCHANGED <<cache, full, copies, call>> /\ i \in Id /\ copies[i] > 0
    BY <1>0, <1>8 DEF ReturnCached, Goto, Facts, HandsInv, HoldsCopy
  <2>2. HoldsOwn'
    <3>1. ASSUME NEW u \in Task, NEW j \in Id, ret'[u] = cache[j], ret'[u] # Null
          PROVE  call[u].id = j
      BY <1>0, <2>1, <3>1 DEF HandsInv, HoldsOwn, Facts
    <3>2. ASSUME NEW u \in Task, NEW v \in Task, ret'[u] = ret'[v], ret'[u] # Null
          PROVE  call[u].id = call[v].id
      BY <1>0, <2>1, <3>2 DEF HandsInv, HoldsOwn, Facts
    <3>3. QED
      BY <2>1, <3>1, <3>2 DEF HandsInv, HoldsOwn
  <2>3. ASSUME NEW u \in Task PROVE HoldsCopy(u)'
    BY <1>0, <2>1 DEF HandsInv, HoldsCopy, Settled, Facts, Holding
  <2>4. QED
    BY <2>1, <2>2, <2>3 DEF HandsInv
<1>9. ASSUME NEW t \in Task, ReadMessages(t) PROVE HandsInv'
  <2>1. /\ ret' = [ret EXCEPT ![t] = Len(heap) + 1] /\ pc' = [pc EXCEPT ![t] = "install"]
        /\ UNCHANGED <<cache, full, copies, call>>
    BY <1>9 DEF ReadMessages, Goto, New
  <2>2. HoldsOwn'
    BY <1>0, <2>1 DEF HandsInv, HoldsOwn, Facts
  <2>3. ASSUME NEW u \in Task PROVE HoldsCopy(u)'
    BY <1>0, <2>1 DEF HandsInv, HoldsCopy, Settled, Facts, Holding
  <2>4. QED
    BY <2>1, <2>2, <2>3 DEF HandsInv
<1>10. ASSUME NEW t \in Task, Install(t) PROVE HandsInv'
  <2> DEFINE i == call[t].id
  <2>1. /\ pc[t] = "install" /\ pc' = [pc EXCEPT ![t] = "release"] /\ UNCHANGED <<call, ret>>
        /\ cache' = [cache EXCEPT ![i] = ret[t]] /\ full' = full \cup {i}
        /\ copies' = [copies EXCEPT ![i] = @ + 1] /\ i \in Id /\ ret[t] # Null
    BY <1>0, <1>10 DEF Install, InsertLoaded, Goto, Facts, HandsInv, HoldsCopy
  <2>2. HoldsOwn'
    <3>1. ASSUME NEW j \in Id, NEW k \in Id, cache'[j] = cache'[k], cache'[j] # Null PROVE j = k
      BY <1>0, <2>1, <3>1 DEF HandsInv, HoldsOwn, Facts
    <3>2. ASSUME NEW u \in Task, NEW j \in Id, ret[u] = cache'[j], ret[u] # Null
          PROVE  call[u].id = j
      BY <1>0, <2>1, <3>2 DEF HandsInv, HoldsOwn, Facts
    <3>3. QED
      BY <2>1, <3>1, <3>2 DEF HandsInv, HoldsOwn
  <2>3. ASSUME NEW u \in Task PROVE HoldsCopy(u)'
    <3>1. CASE u = t
      BY <1>0, <2>1, <3>1 DEF HandsInv, HoldsCopy, Settled, Facts, Holding
    <3>2. CASE u # t
      BY <1>0, <2>1, <3>2 DEF HandsInv, HoldsCopy, Settled, Facts
    <3>3. QED
      BY <3>1, <3>2
  <2>4. \A j \in full' : copies'[j] > 0 /\ cache'[j] # Null
    BY <1>0, <2>1 DEF HandsInv, Facts
  <2>5. QED
    BY <2>2, <2>3, <2>4 DEF HandsInv
<1>11. ASSUME NEW t \in Task, Release(t) PROVE HandsInv'
  <2> DEFINE i == call[t].id
  <2>1. /\ pc[t] = "release" /\ UNCHANGED <<cache, full, copies, call>> /\ i \in Id
        /\ \A u \in Task : /\ pc'[u] = IF u \in Answered(t) THEN "ensured" ELSE pc[u]
                           /\ ret'[u] = IF u \in Answered(t) THEN ret[t] ELSE ret[u]
    BY <1>0, <1>11 DEF Release, Facts
  <2>2. \A u \in Task : u \in Answered(t) => call[u].id = i
    BY <2>1 DEF Answered, FlightInv
  <2>3. HoldsOwn'
    <3>1. ASSUME NEW u \in Task, NEW j \in Id, ret'[u] = cache[j], ret'[u] # Null
          PROVE  call[u].id = j
      BY <2>1, <2>2, <3>1 DEF HandsInv, HoldsOwn
    <3>2. ASSUME NEW u \in Task, NEW v \in Task, ret'[u] = ret'[v], ret'[u] # Null
          PROVE  call[u].id = call[v].id
      BY <2>1, <2>2, <3>2 DEF HandsInv, HoldsOwn
    <3>3. QED
      BY <2>1, <3>1, <3>2 DEF HandsInv, HoldsOwn
  <2>4. ASSUME NEW u \in Task PROVE HoldsCopy(u)'
    BY <2>1, <2>2 DEF HandsInv, HoldsCopy, Settled, Holding
  <2>5. QED
    BY <2>1, <2>3, <2>4 DEF HandsInv
<1>12. ASSUME NEW t \in Task, Publish(t) PROVE HandsInv'
  <2> DEFINE i == call[t].id
  <2>1. /\ Alone(t) /\ ret'[t] = Null /\ pc'[t] = "idle" /\ i \in Id
        /\ cache' = [cache EXCEPT ![i] = Len(heap) + 1] /\ full' = full \cup {i}
        /\ copies' = [copies EXCEPT ![i] = @ + 1]
    BY <1>0, <1>12 DEF Publish, InsertLoaded, New, Return, Goto, Alone, Facts
  <2>2. HoldsOwn'
    BY <1>0, <2>1, EntryOwn DEF Alone
  <2>3. ASSUME NEW u \in Task PROVE HoldsCopy(u)'
    <3>1. CASE u = t
      BY <2>1, <3>1 DEF HoldsCopy
    <3>2. CASE u # t
      <4>1. HoldsCopy(u) /\ UNCHANGED <<pc[u], call[u], ret[u]>>
        BY <2>1, <3>2 DEF HandsInv, Alone
      <4>2. CASE call[u].id = i
        BY <1>0, <2>1, <4>1, <4>2 DEF HoldsCopy, Settled, Facts
      <4>3. CASE call[u].id # i
        BY <1>0, <2>1, <4>1, <4>3 DEF HoldsCopy, Settled, Facts
      <4>4. QED
        BY <4>2, <4>3
    <3>3. QED
      BY <3>1, <3>2
  <2>4. \A j \in full' : copies'[j] > 0 /\ cache'[j] # Null
    BY <1>0, <2>1 DEF HandsInv, Facts
  <2>5. QED
    BY <2>2, <2>3, <2>4 DEF HandsInv
<1>13. ASSUME NEW t \in Task, Evict(t) PROVE HandsInv'
  <2> DEFINE i == call[t].id
  <2>1. /\ Alone(t) /\ ret'[t] = Null /\ pc'[t] = "idle" /\ UNCHANGED copies
        /\ cache' = [cache EXCEPT ![i] = Null] /\ full' = full \ {i} /\ i \in Id
    BY <1>0, <1>13 DEF Evict, Return, Goto, Alone, Facts
  <2>2. HoldsOwn'
    BY <1>0, <2>1, EntryOwn DEF Alone
  <2>3. ASSUME NEW u \in Task PROVE HoldsCopy(u)'
    BY <1>0, <2>1 DEF HandsInv, HoldsCopy, Settled, Alone, Facts
  <2>4. QED
    BY <1>0, <2>1, <2>2, <2>3 DEF HandsInv, Facts
<1>14. CASE Crash
  BY <1>14 DEF Crash, HandsInv, HoldsOwn, HoldsCopy, Holding
<1>15. ASSUME NEW i \in Id, IndexRow(i) PROVE HandsInv'
  <2>1. /\ cache' = [cache EXCEPT ![i] = Len(heap) + 1] /\ full' = full \ {i}
        /\ UNCHANGED <<copies, pc, call, ret>>
    BY <1>15 DEF IndexRow, InsertIndexed, New
  <2>2. HoldsOwn'
    BY <1>0, <2>1 DEF HandsInv, HoldsOwn, Facts
  <2>3. ASSUME NEW u \in Task PROVE HoldsCopy(u)'
    BY <1>0, <2>1 DEF HandsInv, HoldsCopy, Settled, Facts
  <2>4. QED
    BY <1>0, <2>1, <2>2, <2>3 DEF HandsInv, Facts
<1>16. CASE (\E i \in Id : TitleEnds(i)) \/ Serve \/ UNCHANGED vars
  BY <1>16 DEF TitleEnds, Serve, vars, HandsInv, HoldsOwn, HoldsCopy, Settled
<1>17. QED
  BY <1>1, <1>2, <1>3, <1>4, <1>5, <1>6, <1>7, <1>8, <1>9, <1>10, <1>11, <1>12, <1>13,
     <1>14, <1>15, <1>16 DEF Next, Step

(***************************************************************************)
(* What is in the table: a session that is cached with its history, or      *)
(* about to be, has its row, and what is stored of a session nobody has      *)
(* cached yet is on its way through its creators.                          *)
(***************************************************************************)
Sending  == {"save", "createMessage", "publish"}
Creating == {"createRow", "createMessage", "publish"}
Rowed    == {"readMessages", "install", "createMessage", "publish"}
HasRow(t) == call[t].id \notin disturbed =>
    /\ pc[t] \in Rowed => call[t].id \in rows
    /\ pc[t] = "publish" => call[t].msg \in stored[call[t].id]
    /\ pc[t] \in Creating /\ copies[call[t].id] = 0 =>
          stored[call[t].id] \subseteq InFlight(call[t].id)
RowInv ==
    /\ \A i \in Id \ rows : stored[i] = {}
    /\ \A i \in Id \ disturbed : copies[i] > 0 => i \in rows
    /\ \A t \in Task : HasRow(t)

(* Task t sends what it sent before, if it sends to i.                      *)
SendsSame(t, i) ==
    /\ pc[t] \in Sending /\ call[t].id = i <=> pc'[t] \in Sending /\ call'[t].id = i
    /\ pc[t] \in Sending /\ call[t].id = i => call'[t].msg = call[t].msg
Others(t) == \A u \in Task \ {t} : pc'[u] = pc[u] /\ call'[u] = call[u]

LEMMA InFlightSame ==
    ASSUME NEW t \in Task, NEW i, Others(t), SendsSame(t, i)
    PROVE  InFlight(i)' = InFlight(i)
<1>1. ASSUME NEW u \in Task
      PROVE  /\ pc[u] \in Sending /\ call[u].id = i <=> pc'[u] \in Sending /\ call'[u].id = i
             /\ pc[u] \in Sending /\ call[u].id = i => call'[u].msg = call[u].msg
  BY DEF Others, SendsSame
<1>2. QED
  BY <1>1 DEF InFlight, Sending

(* A task starts to send m to i, or stops.                                  *)
LEMMA InFlightMore ==
    ASSUME NEW t \in Task, NEW i, Others(t), pc'[t] \in Sending, call'[t].id = i,
           pc[t] \notin Sending
    PROVE  InFlight(i)' = InFlight(i) \cup {call'[t].msg}
BY DEF InFlight, Sending, Others

LEMMA InFlightLess ==
    ASSUME NEW t \in Task, NEW i, Others(t), pc[t] \in Sending, call[t].id = i,
           pc'[t] \notin Sending
    PROVE  /\ InFlight(i)' \subseteq InFlight(i)
           /\ InFlight(i) \subseteq InFlight(i)' \cup {call[t].msg}
BY DEF InFlight, Sending, Others

(* A step that writes nothing.                                             *)
RowStill(t) ==
    /\ Others(t) /\ UNCHANGED <<rows, stored, copies>> /\ disturbed \subseteq disturbed'
    /\ pc[t] \in Sending /\ call[t].id \notin disturbed' => SendsSame(t, call[t].id)
    /\ pc'[t] \in Rowed => call'[t].id \in rows \/ (pc[t] \in Rowed /\ call'[t] = call[t])
    /\ pc'[t] # "publish"
    /\ pc'[t] \in Creating => call'[t].id \notin rows /\ pc[t] \notin Creating

LEMMA StillRow ==
    ASSUME Facts, RowInv, NEW t \in Task, RowStill(t), call'[t].id \in Id \/ pc'[t] = "idle"
    PROVE  RowInv'
<1>1. ASSUME NEW u \in Task \ {t} PROVE HasRow(u)'
  <2> DEFINE i == call[u].id
  <2> SUFFICES ASSUME i \notin disturbed' PROVE HasRow(u)'
    BY DEF HasRow, RowStill, Others
  <2>1. HasRow(u) /\ i \notin disturbed /\ pc'[u] = pc[u] /\ call'[u] = call[u]
    BY DEF RowInv, RowStill, Others
  <2>2. ASSUME NEW m \in InFlight(i) PROVE m \in InFlight(i)'
    <3>1. PICK v \in Task : pc[v] \in Sending /\ call[v].id = i /\ call[v].msg = m
      BY <2>2 DEF InFlight, Sending
    <3>2. pc'[v] \in Sending /\ call'[v].id = i /\ call'[v].msg = m
      BY <3>1 DEF RowStill, Others, SendsSame
    <3>3. QED
      BY <2>1, <3>2 DEF InFlight, Sending
  <2>3. QED
    BY <2>1, <2>2 DEF HasRow, RowStill
<1>2. HasRow(t)'
  BY DEF HasRow, RowInv, RowStill, Facts, Rowed, Creating
<1>3. QED
  BY <1>1, <1>2 DEF RowInv, RowStill, Facts

LEMMA RowInit == Init => RowInv
BY DEF Init, RowInv, HasRow, Rowed, Creating

(* What holds of the row of a task's session still holds when another task  *)
(* moves, if no row is lost and what is stored is on its way as before.     *)
LEMMA KeepsRow ==
    ASSUME NEW u \in Task, HasRow(u), pc'[u] = pc[u], call'[u] = call[u],
           call[u].id \notin disturbed' => call[u].id \notin disturbed,
           call[u].id \notin disturbed' =>
               /\ call[u].id \in rows => call[u].id \in rows'
               /\ stored[call[u].id] \subseteq stored'[call[u].id]
               /\ copies'[call[u].id] = 0 =>
                     /\ copies[call[u].id] = 0
                     /\ stored[call[u].id] \subseteq InFlight(call[u].id)
                            => stored'[call[u].id] \subseteq InFlight(call[u].id)'
    PROVE  HasRow(u)'
<1> DEFINE i == call[u].id
<1> SUFFICES ASSUME i \notin disturbed' PROVE HasRow(u)'
  BY DEF HasRow
<1>1. /\ pc[u] \in Rowed => i \in rows'
      /\ pc[u] = "publish" => call[u].msg \in stored'[i]
      /\ pc[u] \in Creating /\ copies'[i] = 0 => stored'[i] \subseteq InFlight(i)'
  BY DEF HasRow
<1>2. QED
  BY <1>1 DEF HasRow

LEMMA RowStep == TypeOK /\ FlightInv /\ HandsInv /\ RowInv /\ [Next]_vars => RowInv'
<1> SUFFICES ASSUME TypeOK, FlightInv, HandsInv, RowInv, [Next]_vars PROVE RowInv'
  OBVIOUS
<1> USE DEF db, memory, flight, service, past
<1>0. Facts
  BY TypeFacts
<1>1. ASSUME NEW t \in Task, NEW o, GetReturns(t, o), UNCHANGED <<db, past>>,
             pc[t] \in {"get", "readMeta", "index"}, o = Null => call[t].id \notin rows
      PROVE  RowInv'
  <2>1. Others(t)
    BY <1>0, <1>1 DEF GetReturns, Return, Goto, Others, Facts
  <2>2. /\ pc'[t] \in {"idle", "createRow", "ensured", "recheck"}
        /\ pc'[t] # "idle" => call'[t].id = call[t].id
        /\ pc'[t] = "createRow" => o = Null
    BY <1>0, <1>1 DEF GetReturns, Return, Goto, Facts
  <2>3. RowStill(t)
    BY <1>1, <2>1, <2>2 DEF RowStill, Sending, Rowed, Creating
  <2>4. QED
    BY <1>0, <1>1, <2>2, <2>3, StillRow DEF Facts
<1>2. ASSUME NEW t \in Task, Get(t) \/ ReadMeta(t) \/ Index(t) PROVE RowInv'
  <2>1. CASE /\ Goto(t, "readMeta") \/ Goto(t, "index")
             /\ pc[t] \in {"get", "readMeta"}
             /\ UNCHANGED <<call, db, past>>
    <3>1. RowStill(t) /\ call'[t].id \in Id
      BY <1>0, <2>1 DEF Goto, RowStill, Others, Facts, Sending, Rowed, Creating
    <3>2. QED
      BY <1>0, <3>1, StillRow
  <2>2. CASE /\ \E o \in {Null, New, cache[call[t].id]} :
                   GetReturns(t, o) /\ (o = Null => call[t].id \notin rows)
             /\ pc[t] \in {"get", "readMeta", "index"} /\ UNCHANGED <<db, past>>
    BY <1>1, <2>2
  <2>3. New # Null
    BY <1>0 DEF New, Null, Facts
  <2>4. QED
    BY <1>2, <2>1, <2>2, <2>3 DEF Get, ReadMeta, Index
<1>3. ASSUME NEW t \in Task,
             IsLoaded(t) \/ ReturnCached(t) \/ IsCached(t) \/ Recheck(t) \/ Enter(t)
             \/ ReadRow(t) \/ ReadMessages(t)
      PROVE  RowInv'
  <2>1. /\ UNCHANGED <<db, call, past>> /\ \A u \in Task \ {t} : pc'[u] = pc[u]
        /\ pc[t] \notin Sending /\ pc'[t] # "publish" /\ pc'[t] \notin Creating
        /\ pc'[t] \in Rowed => call[t].id \in rows \/ pc[t] \in Rowed
        /\ call[t].id \in Id
    BY <1>0, <1>3 DEF IsLoaded, ReturnCached, IsCached, Recheck, Enter, ReadRow, ReadMessages,
                      Goto, Facts, Sending, Rowed, Creating
  <2>2. QED
    BY <1>0, <2>1, StillRow DEF RowStill, Others
<1>4. ASSUME NEW t \in Task, Ensured(t) \/ Push(t) \/ Evict(t) \/ StatementFails(t)
      PROVE  RowInv'
  <2>1. /\ Others(t) /\ UNCHANGED <<db, copies>> /\ disturbed \subseteq disturbed'
        /\ pc[t] \notin Sending \/ call[t].id \in disturbed'
        /\ pc'[t] = "idle" \/ (pc'[t] = "save" /\ call'[t].id \in Id)
    BY <1>0, <1>4 DEF Ensured, Push, Evict, StatementFails, Return, Goto, Others, Facts, Sending
  <2>2. QED
    BY <1>0, <2>1, StillRow DEF RowStill, Rowed, Creating
<1>5. ASSUME NEW t \in Task, Start(t) PROVE RowInv'
  <2>1. PICK op \in Ops, i \in Id : Goto(t, FirstLabel(op)) /\ call'[t].id = i
    BY <1>0, <1>5 DEF Start, Facts
  <2>2. FirstLabel(op) \notin Sending \cup Rowed \cup Creating
    BY SessionStoreAssumption DEF AllOps, FirstLabel, Sending, Rowed, Creating
  <2>3. RowStill(t)
    BY <1>0, <1>5, <2>1, <2>2 DEF Start, Goto, RowStill, Others, Facts, Sending, Creating
  <2>4. QED
    BY <1>0, <2>1, <2>3, StillRow
<1>6. ASSUME NEW t \in Task, Install(t) PROVE RowInv'
  <2> DEFINE i == call[t].id
  <2>1. /\ pc[t] = "install" /\ pc' = [pc EXCEPT ![t] = "release"] /\ i \in Id
        /\ UNCHANGED <<db, call, disturbed>> /\ copies' = [copies EXCEPT ![i] = @ + 1]
    BY <1>0, <1>6 DEF Install, InsertLoaded, Goto, Facts
  <2>2. i \in disturbed \/ i \in rows
    BY <2>1 DEF RowInv, HasRow, Rowed
  <2>3. \A j : Others(t) /\ SendsSame(t, j)
    BY <1>0, <2>1 DEF Others, SendsSame, Sending, Facts
  <2>4. ASSUME NEW u \in Task, u # t PROVE HasRow(u)'
    <3>1. HasRow(u) /\ pc'[u] = pc[u] /\ InFlight(call[u].id)' = InFlight(call[u].id)
      BY <2>1, <2>3, <2>4, InFlightSame DEF RowInv
    <3>2. call[u].id = i => copies'[i] # 0
      BY <1>0, <2>1 DEF Facts
    <3>3. call[u].id # i => copies'[call[u].id] = copies[call[u].id]
      BY <1>0, <2>1 DEF Facts
    <3>4. QED
      BY <2>1, <3>1, <3>2, <3>3, KeepsRow
  <2>5. HasRow(t)'
    BY <1>0, <2>1 DEF HasRow, Rowed, Creating, Facts
  <2>6. QED
    BY <1>0, <2>1, <2>2, <2>4, <2>5 DEF RowInv, Facts
<1>7. ASSUME NEW t \in Task, Release(t) PROVE RowInv'
  <2>1. /\ UNCHANGED <<db, call, past>> /\ pc[t] = "release"
        /\ \A u \in Task : pc'[u] = IF u \in Answered(t) THEN "ensured" ELSE pc[u]
    BY <1>7 DEF Release
  <2>2. \A u \in Task : u \in Answered(t) => pc[u] \in {"wait", "release"}
    <3>1. call[t].id \in Id
      BY <1>0, <2>1 DEF Facts
    <3>2. QED
      BY <2>1, <3>1 DEF Answered, FlightInv
  <2>3. ASSUME NEW j PROVE InFlight(j)' = InFlight(j)
    BY <2>1, <2>2 DEF InFlight
  <2>4. ASSUME NEW u \in Task PROVE HasRow(u)'
    <3>1. pc'[u] = pc[u] \/ pc'[u] = "ensured"
      BY <2>1
    <3>2. HasRow(u) /\ InFlight(call[u].id)' = InFlight(call[u].id)
      BY <2>1, <2>3 DEF RowInv
    <3>3. QED
      BY <2>1, <3>1, <3>2 DEF HasRow, Rowed, Creating
  <2>5. QED
    BY <2>1, <2>4 DEF RowInv
<1>8. ASSUME NEW t \in Task, Save(t) PROVE RowInv'
  <2> DEFINE i == call[t].id
  <2>1. /\ pc[t] = "save" /\ pc'[t] \in {"persist", "idle"} /\ Others(t) /\ i \in Id
        /\ UNCHANGED <<rows, copies, disturbed>> /\ copies[i] > 0
    BY <1>0, <1>8 DEF Save, Return, Goto, Others, Facts, HandsInv, HoldsCopy
  <2>2. \/ i \in rows /\ stored' = [stored EXCEPT ![i] = @ \cup {call[t].msg}]
        \/ i \notin rows /\ UNCHANGED stored
    BY <1>8 DEF Save
  <2>3. ASSUME NEW u \in Task, u # t PROVE HasRow(u)'
    <3>1. HasRow(u) /\ pc'[u] = pc[u] /\ call'[u] = call[u]
      BY <2>1, <2>3 DEF RowInv, Others
    <3>2. CASE call[u].id = i
      BY <1>0, <2>1, <2>2, <3>1, <3>2 DEF HasRow, Facts
    <3>3. CASE call[u].id # i
      <4>1. SendsSame(t, call[u].id)
        BY <1>0, <1>8, <2>1, <3>3 DEF SendsSame, Sending, Save, Return, Facts
      <4>2. InFlight(call[u].id)' = InFlight(call[u].id)
        BY <2>1, <3>1, <4>1, InFlightSame
      <4>3. CASE pc[u] = "idle"
        BY <3>1, <4>3 DEF HasRow, Rowed, Creating
      <4>4. CASE pc[u] # "idle"
        <5>1. call[u].id \in Id
          BY <1>0, <4>4 DEF Facts
        <5>2. stored'[call[u].id] = stored[call[u].id]
          BY <1>0, <2>2, <3>3, <5>1 DEF Facts
        <5>3. QED
          BY <2>1, <3>1, <4>2, <5>2, KeepsRow
      <4>5. QED
        BY <4>3, <4>4
    <3>4. QED
      BY <3>2, <3>3
  <2>4. HasRow(t)'
    BY <2>1 DEF HasRow, Rowed, Creating
  <2>5. \A j \in Id \ rows : stored'[j] = {}
    BY <1>0, <2>2 DEF RowInv, Facts
  <2>6. QED
    BY <2>1, <2>3, <2>4, <2>5 DEF RowInv
<1>9. ASSUME NEW t \in Task, Persist(t) \/ Schedule(t) PROVE RowInv'
  <2>1. /\ pc[t] \in {"persist", "schedule"} /\ pc'[t] \in {"schedule", "idle"} /\ Others(t) 
        /\ rows \subseteq rows' /\ UNCHANGED <<stored, copies, disturbed>>
    BY <1>0, <1>9 DEF Persist, Schedule, Acknowledge, Return, Goto, Others, Facts
  <2>2. \A j : SendsSame(t, j)
    BY <2>1 DEF SendsSame, Sending
  <2>3. ASSUME NEW u \in Task, u # t PROVE HasRow(u)'
    <3>1. /\ HasRow(u) /\ pc'[u] = pc[u] /\ call'[u] = call[u]
          /\ InFlight(call[u].id)' = InFlight(call[u].id)
      BY <2>1, <2>2, <2>3, InFlightSame DEF RowInv, Others
    <3>2. QED
      BY <2>1, <3>1, KeepsRow
  <2>4. HasRow(t)'
    BY <2>1 DEF HasRow, Rowed, Creating
  <2>5. QED
    BY <2>1, <2>3, <2>4 DEF RowInv
<1>10. ASSUME NEW t \in Task, CreateRow(t) PROVE RowInv'
  <2> DEFINE i == call[t].id
  <2>1. /\ pc[t] = "createRow" /\ pc' = [pc EXCEPT ![t] = "createMessage"] /\ i \in Id
        /\ UNCHANGED <<stored, copies, disturbed, call>> /\ rows' = rows \cup {i}
    BY <1>0, <1>10 DEF CreateRow, Goto, Facts
  <2>2. Others(t) /\ pc[t] \notin Sending /\ pc'[t] \in Sending
    BY <1>0, <2>1 DEF Others, Sending, Facts
  <2>3. ASSUME NEW j PROVE InFlight(j) \subseteq InFlight(j)'
    <3>1. CASE j = i
      BY <2>1, <2>2, <3>1, InFlightMore
    <3>2. CASE j # i
      BY <2>1, <2>2, <3>2, InFlightSame DEF SendsSame
    <3>3. QED
      BY <3>1, <3>2
  <2>4. ASSUME NEW u \in Task, u # t PROVE HasRow(u)'
    <3>1. /\ HasRow(u) /\ pc'[u] = pc[u] /\ call'[u] = call[u]
          /\ InFlight(call[u].id) \subseteq InFlight(call[u].id)'
      BY <2>1, <2>2, <2>3, <2>4 DEF RowInv, Others
    <3>2. QED
      BY <2>1, <3>1, KeepsRow
  <2>5. HasRow(t)'
    <3>1. i \in disturbed \/ copies[i] # 0 \/ stored[i] \subseteq InFlight(i)
      BY <2>1 DEF RowInv, HasRow, Creating
    <3>2. InFlight(i) \subseteq InFlight(i)'
      BY <2>1, <2>3
    <3>3. pc'[t] # "publish"
      BY <1>0, <2>1 DEF Facts
    <3>4. QED
      BY <2>1, <3>1, <3>2, <3>3 DEF HasRow
  <2>6. QED
    BY <2>1, <2>4, <2>5 DEF RowInv
<1>11. ASSUME NEW t \in Task, CreateMessage(t) PROVE RowInv'
  <2> DEFINE i == call[t].id
  <2>1. /\ pc[t] = "createMessage" /\ Others(t) /\ i \in Id
        /\ UNCHANGED <<rows, copies, disturbed>>
    BY <1>0, <1>11 DEF CreateMessage, Return, Goto, Others, Facts
  <2>2. CASE i \in rows
    <3>1. /\ stored' = [stored EXCEPT ![i] = @ \cup {call[t].msg}] /\ UNCHANGED call
          /\ pc'[t] = "publish"
      BY <1>0, <1>11, <2>2 DEF CreateMessage, Goto, Facts
    <3>2. ASSUME NEW j PROVE InFlight(j)' = InFlight(j)
      BY <2>1, <3>1, InFlightSame DEF SendsSame, Sending
    <3>3. call[t].msg \in InFlight(i)
      BY <2>1 DEF InFlight
    <3>4. ASSUME NEW u \in Task, u # t PROVE HasRow(u)'
      <4>1. /\ HasRow(u) /\ pc'[u] = pc[u] /\ call'[u] = call[u]
            /\ InFlight(call[u].id)' = InFlight(call[u].id)
        BY <2>1, <3>1, <3>2, <3>4 DEF RowInv, Others
      <4>2. CASE call[u].id = i
        <5>1. /\ stored[i] \subseteq stored'[i]
              /\ stored[i] \subseteq InFlight(i) => stored'[i] \subseteq InFlight(i)
          BY <1>0, <2>1, <3>1, <3>3 DEF Facts
        <5>2. QED
          BY <2>1, <4>1, <4>2, <5>1, KeepsRow
      <4>3. CASE call[u].id # i
        <5>1. stored'[call[u].id] = stored[call[u].id]
          BY <1>0, <3>1, <4>3 DEF Facts
        <5>2. QED
          BY <2>1, <4>1, <5>1, KeepsRow
      <4>4. QED
        BY <4>2, <4>3
    <3>5. HasRow(t)'
      <4>1. i \in disturbed \/ copies[i] # 0 \/ stored[i] \subseteq InFlight(i)
        BY <2>1 DEF RowInv, HasRow, Creating
      <4>2. call[t].msg \in stored'[i] /\ stored'[i] = stored[i] \cup {call[t].msg}
        BY <1>0, <2>1, <3>1 DEF Facts
      <4>3. InFlight(i)' = InFlight(i)
        BY <3>1, <3>2
      <4>4. QED
        BY <2>1, <2>2, <3>1, <3>3, <4>1, <4>2, <4>3 DEF HasRow
    <3>6. \A j \in Id \ rows : stored'[j] = {}
      BY <1>0, <2>2, <3>1 DEF RowInv, Facts
    <3>7. QED
      BY <2>1, <3>4, <3>5, <3>6 DEF RowInv
  <2>3. CASE i \notin rows
    <3>1. UNCHANGED stored /\ pc'[t] = "idle" /\ i \in disturbed
      BY <1>0, <1>11, <2>1, <2>3 DEF CreateMessage, Return, Goto, Facts, RowInv, HasRow, Rowed
    <3>2. QED
      BY <1>0, <2>1, <3>1, StillRow DEF RowStill, Rowed, Creating
  <2>4. QED
    BY <2>2, <2>3
<1>12. ASSUME NEW t \in Task, Publish(t) PROVE RowInv'
  <2> DEFINE i == call[t].id
  <2>1. /\ pc[t] = "publish" /\ pc'[t] = "idle" /\ Others(t) /\ i \in Id
        /\ UNCHANGED <<db, disturbed>> /\ copies' = [copies EXCEPT ![i] = @ + 1]
    BY <1>0, <1>12 DEF Publish, InsertLoaded, Return, Goto, Others, Facts
  <2>2. i \in disturbed \/ i \in rows
    BY <2>1 DEF RowInv, HasRow, Rowed
  <2>3. ASSUME NEW u \in Task, u # t PROVE HasRow(u)'
    <3>1. HasRow(u) /\ pc'[u] = pc[u] /\ call'[u] = call[u]
      BY <2>1, <2>3 DEF RowInv, Others
    <3>2. CASE call[u].id = i
      <4>1. copies'[i] # 0
        BY <1>0, <2>1 DEF Facts
      <4>2. QED
        BY <2>1, <3>1, <3>2, <4>1, KeepsRow
    <3>3. CASE call[u].id # i
      <4>1. InFlight(call[u].id)' = InFlight(call[u].id)
        BY <2>1, <3>1, <3>3, InFlightSame DEF SendsSame, Sending
      <4>2. copies'[call[u].id] = copies[call[u].id]
        BY <1>0, <2>1, <3>3 DEF Facts
      <4>3. QED
        BY <2>1, <3>1, <4>1, <4>2, KeepsRow
    <3>4. QED
      BY <3>2, <3>3
  <2>4. HasRow(t)'
    BY <2>1 DEF HasRow, Rowed, Creating
  <2>5. \A j \in Id \ disturbed : copies'[j] > 0 => j \in rows
    BY <1>0, <2>1, <2>2 DEF RowInv, Facts
  <2>6. QED
    BY <2>1, <2>3, <2>4, <2>5 DEF RowInv
<1>13. ASSUME NEW t \in Task, DeleteRows(t) PROVE RowInv'
  <2> DEFINE i == call[t].id
  <2>1. /\ pc[t] = "deleteRows" /\ pc'[t] = "evict" /\ Others(t) /\ i \in Id
        /\ UNCHANGED <<copies, call>> /\ disturbed' = disturbed \cup {i}
        /\ rows' = rows \ {i} /\ stored' = [stored EXCEPT ![i] = {}]
    BY <1>0, <1>13 DEF DeleteRows, Goto, Others, Facts
  <2>2. \A j : SendsSame(t, j)
    BY <2>1 DEF SendsSame, Sending
  <2>3. ASSUME NEW u \in Task, u # t PROVE HasRow(u)'
    <3>1. /\ HasRow(u) /\ pc'[u] = pc[u] /\ call'[u] = call[u]
          /\ InFlight(call[u].id)' = InFlight(call[u].id)
      BY <2>1, <2>2, <2>3, InFlightSame DEF RowInv, Others
    <3>2. call[u].id # i => stored'[call[u].id] = stored[call[u].id]
      BY <1>0, <2>1 DEF Facts
    <3>3. QED
      BY <2>1, <3>1, <3>2, KeepsRow
  <2>4. HasRow(t)'
    BY <2>1 DEF HasRow, Rowed, Creating
  <2>5. \A j \in Id \ rows' : stored'[j] = {}
    BY <1>0, <2>1 DEF RowInv, Facts
  <2>6. QED
    BY <2>1, <2>3, <2>4, <2>5 DEF RowInv
<1>14. CASE Crash
  BY <1>14 DEF Crash, RowInv, HasRow, Rowed, Creating
<1>15. CASE (\E i \in Id : IndexRow(i)) \/ Serve \/ UNCHANGED vars
  <2>1. UNCHANGED <<db, pc, call, copies, disturbed>>
    BY <1>15 DEF IndexRow, Serve, vars
  <2>2. QED
    BY <2>1 DEF RowInv, HasRow, InFlight
<1>16. ASSUME NEW i \in Id, TitleEnds(i) PROVE RowInv'
  <2>1. rows \subseteq rows' /\ UNCHANGED <<stored, pc, call, copies, disturbed>>
    BY <1>16 DEF TitleEnds
  <2>2. QED
    BY <2>1 DEF RowInv, HasRow, InFlight
<1>17. QED
  BY <1>2, <1>3, <1>4, <1>5, <1>6, <1>7, <1>8, <1>9, <1>10, <1>11, <1>12, <1>13, <1>14,
     <1>15, <1>16 DEF Next, Step

(***************************************************************************)
(* What is in a copy: the copy about to be installed agrees with the table  *)
(* as the only installed one does, and a message is in the copy before it   *)
(* is sent to the table.                                                   *)
(***************************************************************************)
Agrees(i, h) == stored[i] \ InFlight(i) \subseteq h /\ h \subseteq stored[i] \cup InFlight(i)
Held(t) ==
    /\ pc[t] = "save" => call[t].msg \in heap[ret[t]]
    /\ pc[t] = "install" /\ call[t].id \notin disturbed /\ copies[call[t].id] = 0 =>
          Agrees(call[t].id, heap[ret[t]])
AgreeInv == OneCopyAgrees /\ \A t \in Task : Held(t)

(* A history of session i that is the only copy, or may become it.          *)
Matters(i, h) == copies[i] = 0 \/ (i \in full /\ copies[i] = 1 /\ h = heap[cache[i]])

LEMMA StillAgrees ==
    ASSUME Facts, HandsInv, AgreeInv,
           \A o \in 1..Len(heap) : heap'[o] = heap[o],
           UNCHANGED copies, disturbed \subseteq disturbed', full' \subseteq full,
           \A i \in full' : cache'[i] = cache[i],
           \A i \in Id \ disturbed' : \A h :
               Matters(i, h) /\ Agrees(i, h) => Agrees(i, h)',
           \A u \in Task : \/ pc'[u] \notin {"save", "install"} \/ Held(u)'
                           \/ pc'[u] = pc[u] /\ call'[u] = call[u] /\ ret'[u] = ret[u]
    PROVE  AgreeInv'
<1>1. OneCopyAgrees'
  <2> SUFFICES ASSUME NEW i \in full' \ disturbed', copies'[i] = 1
               PROVE  Agrees(i, heap[cache[i]])'
    BY DEF OneCopyAgrees, Agrees
  <2>1. PICK h : h = heap[cache[i]]
    OBVIOUS
  <2>2. i \in Id /\ i \in full \ disturbed /\ copies[i] = 1
    BY DEF Facts
  <2>3. Agrees(i, h) /\ Matters(i, h)
    BY <2>1, <2>2 DEF AgreeInv, OneCopyAgrees, Agrees, Matters
  <2>4. heap'[cache'[i]] = h
    <3>1. cache[i] \in Nat /\ cache[i] # 0 /\ cache[i] <= Len(heap) /\ Len(heap) \in Nat
      BY <2>2 DEF Facts, HandsInv, Null
    <3>2. cache'[i] = cache[i] /\ cache[i] \in 1..Len(heap)
      BY <3>1
    <3>3. QED
      BY <2>1, <3>2
  <2>5. Agrees(i, h)'
    BY <2>2, <2>3
  <2>6. QED
    BY <2>4, <2>5 DEF Agrees
<1>2. ASSUME NEW u \in Task PROVE Held(u)'
  <2> SUFFICES ASSUME pc'[u] \in {"save", "install"}, ~Held(u)'
               PROVE  Held(u)'
    BY DEF Held
  <2>1. pc'[u] = pc[u] /\ call'[u] = call[u] /\ ret'[u] = ret[u]
    OBVIOUS
  <2>2. PICK i, h : i = call[u].id /\ h = heap[ret[u]]
    OBVIOUS
  <2>3. heap'[ret'[u]] = h
    BY <2>1, <2>2 DEF Facts, HandsInv, HoldsCopy, Null
  <2>4. pc[u] = "save" => call[u].msg \in h
    BY <2>2 DEF AgreeInv, Held
  <2>5. ASSUME pc[u] = "install", i \notin disturbed', copies'[i] = 0
        PROVE  Agrees(i, h)'
    <3>1. i \in Id
      BY <2>2, <2>5 DEF Facts
    <3>2. Agrees(i, h) /\ Matters(i, h)
      BY <2>2, <2>5 DEF AgreeInv, Held, Matters
    <3>3. QED
      BY <2>5, <3>1, <3>2
  <2>6. ASSUME pc[u] = "install", i \notin disturbed', copies'[i] = 0
        PROVE  Agrees(call[u].id, heap[ret[u]])'
    BY <2>1, <2>2, <2>3, <2>5, <2>6 DEF Agrees
  <2>7. QED
    BY <2>1, <2>2, <2>3, <2>4, <2>6 DEF Held
<1>3. QED
  BY <1>1, <1>2 DEF AgreeInv

LEMMA AgreeInit == Init => AgreeInv
BY DEF Init, AgreeInv, OneCopyAgrees, Held

LEMMA AgreeStep ==
    TypeOK /\ FlightInv /\ HandsInv /\ RowInv /\ AgreeInv /\ [Next]_vars => AgreeInv'
<1> SUFFICES ASSUME TypeOK, FlightInv, HandsInv, RowInv, AgreeInv, [Next]_vars
             PROVE  AgreeInv'
  OBVIOUS
<1> USE DEF db, memory, flight, service, past
<1>0. Facts
  BY TypeFacts
(* Nothing is written to the table or sent to it, no copy is put in.        *)
<1>1. ASSUME NEW t \in Task, Alone(t),
             pc[t] \notin Sending \/ call[t].id \in disturbed', pc'[t] \notin Sending,
             UNCHANGED copies, disturbed \subseteq disturbed', full' \subseteq full,
             \A i \in full' : cache'[i] = cache[i],
             \A i \in Id \ disturbed' : stored'[i] = stored[i],
             \A o \in 1..Len(heap) : heap'[o] = heap[o], pc'[t] # "install"
      PROVE  AgreeInv'
  <2>1. ASSUME NEW i \in Id \ disturbed' PROVE InFlight(i)' = InFlight(i)
    BY <1>1, InFlightSame DEF SendsSame, Others, Alone
  <2>2. \A i \in Id \ disturbed' : \A h : Agrees(i, h) => Agrees(i, h)'
    BY <1>1, <2>1 DEF Agrees
  <2>3. \A u \in Task : \/ pc'[u] \notin {"save", "install"}
                        \/ pc'[u] = pc[u] /\ call'[u] = call[u] /\ ret'[u] = ret[u]
    BY <1>1 DEF Alone, Sending
  <2>4. QED
    BY <1>0, <1>1, <2>2, <2>3, StillAgrees
<1>2. ASSUME NEW h \in SUBSET Msg PROVE \A o \in 1..Len(heap) : Append(heap, h)[o] = heap[o]
  <2>1. heap \in Seq(SUBSET Msg)
    BY <1>0 DEF Facts
  <2>2. QED
    BY <2>1
<1>3. ASSUME NEW t \in Task, NEW o, GetReturns(t, o), pc[t] \in {"get", "readMeta", "index"}
      PROVE  Alone(t) /\ pc[t] \notin Sending /\ pc'[t] \notin Sending /\ pc'[t] # "install"
  BY <1>0, <1>3, GetReturnsHands DEF Sending
<1>4. ASSUME NEW t \in Task, Get(t) \/ ReadMeta(t) PROVE AgreeInv'
  <2>1. CASE /\ Goto(t, "readMeta") \/ Goto(t, "index")
             /\ pc[t] \in {"get", "readMeta"}
             /\ UNCHANGED <<call, ret, db, memory, past>>
    BY <1>0, <1>1, <2>1 DEF Goto, Alone, Facts, Sending
  <2>2. CASE /\ \E o \in {Null, cache[call[t].id]} : GetReturns(t, o)
             /\ pc[t] \in {"get", "readMeta"} /\ UNCHANGED <<db, memory, past>>
    BY <1>1, <1>3, <2>2
  <2>3. QED
    BY <1>4, <2>1, <2>2 DEF Get, ReadMeta
<1>5. ASSUME NEW t \in Task, Index(t) PROVE AgreeInv'
  <2>1. /\ pc[t] = "index" /\ GetReturns(t, New) /\ heap' = Append(heap, {})
        /\ cache' = [cache EXCEPT ![call[t].id] = New] /\ full' = full \ {call[t].id}
        /\ UNCHANGED <<db, past>>
    BY <1>5 DEF Index, InsertIndexed, Allocate
  <2>2. \A i \in full' : cache'[i] = cache[i]
    BY <1>0, <2>1 DEF Facts
  <2>3. \A o \in 1..Len(heap) : heap'[o] = heap[o]
    BY <1>2, <2>1
  <2>4. QED
    BY <1>1, <1>3, <2>1, <2>2, <2>3
<1>6. ASSUME NEW t \in Task,
             IsLoaded(t) \/ ReturnCached(t) \/ IsCached(t) \/ Recheck(t) \/ Enter(t)
             \/ ReadRow(t)
      PROVE  AgreeInv'
  <2>1. /\ UNCHANGED <<db, memory, past>> /\ Alone(t)
        /\ pc[t] \notin Sending /\ pc'[t] \notin Sending /\ pc'[t] # "install"
    BY <1>0, <1>6 DEF IsLoaded, ReturnCached, IsCached, Recheck, Enter, ReadRow, Goto, Alone,
                      Facts, Sending
  <2>2. QED
    BY <1>1, <2>1
<1>7. ASSUME NEW t \in Task,
             Ensured(t) \/ Persist(t) \/ Schedule(t) \/ StatementFails(t)
      PROVE  AgreeInv'
  <2>1. /\ UNCHANGED <<stored, memory, copies>> /\ Alone(t) /\ disturbed \subseteq disturbed'
        /\ pc[t] \notin Sending \/ call[t].id \in disturbed'
        /\ pc'[t] \in {"schedule", "idle"}
    BY <1>0, <1>7 DEF Ensured, Persist, Schedule, Acknowledge, StatementFails, Return, Goto,
                      Alone, Facts, Sending
  <2>2. QED
    BY <1>1, <2>1 DEF Sending
<1>8. ASSUME NEW t \in Task, DeleteRows(t) \/ Evict(t) PROVE AgreeInv'
  <2>1. /\ Alone(t) /\ pc[t] \notin Sending /\ pc'[t] \in {"evict", "idle"} /\ call[t].id \in Id
        /\ UNCHANGED <<heap, copies>> /\ disturbed \subseteq disturbed' /\ full' \subseteq full
    BY <1>0, <1>8 DEF DeleteRows, Evict, Return, Goto, Alone, Facts, Sending
  <2>2. \A i \in full' : cache'[i] = cache[i]
    BY <1>0, <1>8, <2>1 DEF DeleteRows, Evict, Facts
  <2>3. \A i \in Id \ disturbed' : stored'[i] = stored[i]
    BY <1>0, <1>8, <2>1 DEF DeleteRows, Evict, Facts
  <2>4. QED
    BY <1>1, <2>1, <2>2, <2>3 DEF Sending
<1>9. ASSUME NEW t \in Task, Start(t) PROVE AgreeInv'
  <2>1. PICK op \in Ops : Goto(t, FirstLabel(op))
    BY <1>9 DEF Start
  <2>2. FirstLabel(op) \notin Sending \cup {"install"}
    BY SessionStoreAssumption DEF AllOps, FirstLabel, Sending
  <2>3. /\ Alone(t) /\ pc[t] = "idle" /\ pc'[t] = FirstLabel(op)
        /\ UNCHANGED <<db, memory, copies, disturbed>>
    BY <1>0, <1>9, <2>1 DEF Start, Goto, Alone, Facts
  <2>4. QED
    BY <1>1, <2>2, <2>3 DEF Sending
<1>10. ASSUME NEW t \in Task, ReadMessages(t) PROVE AgreeInv'
  <2> DEFINE i == call[t].id
  <2>1. /\ heap' = Append(heap, stored[i]) /\ ret' = [ret EXCEPT ![t] = Len(heap) + 1]
        /\ pc[t] = "readMessages" /\ pc' = [pc EXCEPT ![t] = "install"]
        /\ UNCHANGED <<db, cache, full, call, past>> /\ i \in Id
    BY <1>0, <1>10 DEF ReadMessages, Allocate, LoadedHistory, New, Goto, Facts
  <2>2. stored[i] \in SUBSET Msg
    BY <1>0, <2>1 DEF Facts
  <2>3. \A o \in 1..Len(heap) : heap'[o] = heap[o]
    BY <1>2, <2>1, <2>2
  <2>4. Others(t) /\ \A j : SendsSame(t, j)
    BY <1>0, <2>1 DEF Others, SendsSame, Sending, Facts
  <2>5. ASSUME NEW j PROVE InFlight(j)' = InFlight(j)
    BY <2>4, InFlightSame
  <2>6. \A j \in Id \ disturbed' : \A h : Agrees(j, h) => Agrees(j, h)'
    BY <2>1, <2>5 DEF Agrees
  <2>7. Held(t)'
    <3>1. ret'[t] = Len(heap) + 1 /\ pc'[t] = "install"
      BY <1>0, <2>1 DEF Facts
    <3>2. heap \in Seq(SUBSET Msg)
      BY <1>0 DEF Facts
    <3>3. heap'[Len(heap) + 1] = stored[i]
      BY <2>1, <2>2, <3>2
    <3>4. stored'[call'[t].id] = heap'[ret'[t]]
      BY <2>1, <3>1, <3>3
    <3>5. QED
      BY <3>1, <3>4 DEF Held, Agrees
  <2>8. \A u \in Task : u # t => pc'[u] = pc[u] /\ call'[u] = call[u] /\ ret'[u] = ret[u]
    BY <1>0, <2>1 DEF Facts
  <2>9. QED
    BY <1>0, <2>1, <2>3, <2>6, <2>7, <2>8, StillAgrees
<1>11. ASSUME NEW t \in Task, Install(t) PROVE AgreeInv'
  <2> DEFINE i == call[t].id
  <2>1. /\ pc[t] = "install" /\ pc' = [pc EXCEPT ![t] = "release"] /\ i \in Id
        /\ UNCHANGED <<db, heap, call, ret, disturbed>> /\ full' = full \cup {i}
        /\ cache' = [cache EXCEPT ![i] = ret[t]] /\ copies' = [copies EXCEPT ![i] = @ + 1]
    BY <1>0, <1>11 DEF Install, InsertLoaded, Goto, Facts
  <2>2. Others(t) /\ \A j : SendsSame(t, j)
    BY <1>0, <2>1 DEF Others, SendsSame, Sending, Facts
  <2>3. ASSUME NEW j PROVE InFlight(j)' = InFlight(j)
    BY <2>2, InFlightSame
  <2>4. ASSUME NEW j \in full' \ disturbed', copies'[j] = 1
        PROVE  Agrees(j, heap[cache[j]])'
    <3>1. CASE j = i
      <4>1. copies[i] = 0 /\ cache'[j] = ret[t] /\ i \notin disturbed
        BY <1>0, <2>1, <2>4, <3>1 DEF Facts
      <4>2. Agrees(i, heap[ret[t]])
        BY <2>1, <4>1 DEF AgreeInv, Held
      <4>3. InFlight(i)' = InFlight(i)
        BY <2>1, <2>3
      <4>4. QED
        BY <2>1, <2>3, <3>1, <4>1, <4>2, <4>3 DEF Agrees
    <3>2. CASE j # i
      <4>1. j \in full \ disturbed /\ copies[j] = 1 /\ cache'[j] = cache[j]
        BY <1>0, <2>1, <2>4, <3>2 DEF Facts
      <4>2. Agrees(j, heap[cache[j]])
        BY <4>1 DEF AgreeInv, OneCopyAgrees, Agrees
      <4>3. QED
        BY <2>1, <2>3, <4>1, <4>2 DEF Agrees
    <3>3. QED
      BY <3>1, <3>2
  <2>5. ASSUME NEW u \in Task PROVE Held(u)'
    <3>1. CASE u = t
      BY <1>0, <2>1, <3>1 DEF Held, Facts
    <3>2. CASE u # t
      <4>1. pc'[u] = pc[u] /\ Held(u) /\ InFlight(call[u].id)' = InFlight(call[u].id)
        BY <1>0, <2>1, <2>3, <3>2 DEF Facts, AgreeInv
      <4>2. pc[u] = "install" => call[u].id # i
        BY <2>1, <3>2 DEF FlightInv, LoaderLabel
      <4>3. pc[u] = "install" => copies'[call[u].id] = copies[call[u].id]
        BY <1>0, <2>1, <4>2 DEF Facts
      <4>4. QED
        BY <2>1, <4>1, <4>3 DEF Held, Agrees
    <3>3. QED
      BY <3>1, <3>2
  <2>6. QED
    BY <2>4, <2>5 DEF AgreeInv, OneCopyAgrees, Agrees
<1>12. ASSUME NEW t \in Task, Release(t) PROVE AgreeInv'
  <2>1. /\ UNCHANGED <<db, memory, call, past>> /\ pc[t] = "release"
        /\ \A u \in Task : pc'[u] = IF u \in Answered(t) THEN "ensured" ELSE pc[u]
        /\ \A u \in Task : ret'[u] = IF u \in Answered(t) THEN ret[t] ELSE ret[u]
    BY <1>12 DEF Release
  <2>2. \A u \in Task : u \in Answered(t) => pc[u] \in {"wait", "release"}
    <3>1. call[t].id \in Id
      BY <1>0, <2>1 DEF Facts
    <3>2. QED
      BY <2>1, <3>1 DEF Answered, FlightInv
  <2>3. ASSUME NEW i PROVE InFlight(i)' = InFlight(i)
    BY <2>1, <2>2 DEF InFlight
  <2>4. \A i \in Id \ disturbed' : \A h : Agrees(i, h) => Agrees(i, h)'
    BY <2>1, <2>3 DEF Agrees
  <2>5. \A u \in Task : \/ pc'[u] \notin {"save", "install"}
                        \/ pc'[u] = pc[u] /\ call'[u] = call[u] /\ ret'[u] = ret[u]
    BY <2>1
  <2>6. QED
    BY <1>0, <2>1, <2>4, <2>5, StillAgrees
<1>13. CASE Crash
  BY <1>13 DEF Crash, AgreeInv, OneCopyAgrees, Held
<1>14. CASE (\E i \in Id : IndexRow(i) \/ TitleEnds(i)) \/ Serve \/ UNCHANGED vars
  <2>1. /\ UNCHANGED <<stored, pc, call, ret, copies, disturbed>> /\ full' \subseteq full
    BY <1>14 DEF IndexRow, TitleEnds, InsertIndexed, Serve, vars
  <2>2. \A i \in full' : cache'[i] = cache[i]
    BY <1>0, <1>14 DEF IndexRow, TitleEnds, InsertIndexed, Serve, vars, Facts
  <2>3. heap' = Append(heap, {}) \/ UNCHANGED heap
    BY <1>14 DEF IndexRow, TitleEnds, Allocate, Serve, vars
  <2>4. \A o \in 1..Len(heap) : heap'[o] = heap[o]
    BY <1>2, <2>3
  <2>5. ASSUME NEW i PROVE InFlight(i)' = InFlight(i)
    BY <2>1 DEF InFlight
  <2>6. \A i \in Id \ disturbed' : \A h : Agrees(i, h) => Agrees(i, h)'
    BY <2>1, <2>5 DEF Agrees
  <2>7. QED
    BY <1>0, <2>1, <2>2, <2>4, <2>6, StillAgrees
<1>15. ASSUME NEW t \in Task, Push(t) PROVE AgreeInv'
  <2> DEFINE i == call[t].id
             o == ret[t]
             m == call[t].msg
  <2>1. /\ pc[t] = "ensured" /\ pc' = [pc EXCEPT ![t] = "save"] /\ i \in Id /\ o # Null
        /\ heap' = [heap EXCEPT ![o] = @ \cup {m}]
        /\ UNCHANGED <<db, cache, full, call, ret, past>>
    BY <1>0, <1>15 DEF Push, Goto, Facts
  <2>2. /\ copies[i] > 0 /\ (Settled(i) => o = cache[i])
        /\ \A j \in Id \ {i} : cache[j] # o
        /\ \A u \in Task : ret[u] = o => call[u].id = i
    BY <2>1 DEF HandsInv, HoldsCopy, HoldsOwn
  <2>3. /\ \A k \in 1..Len(heap) : heap[k] \subseteq heap'[k] /\ (k # o => heap'[k] = heap[k])
        /\ heap'[o] = heap[o] \cup {m}
    <3>1. o \in 1..Len(heap) /\ heap \in Seq(SUBSET Msg)
      BY <1>0, <2>1 DEF Facts, Null
    <3>2. QED
      BY <2>1, <3>1
  <2>4. Others(t) /\ pc[t] \notin Sending /\ pc'[t] \in Sending
    BY <1>0, <2>1 DEF Others, Sending, Facts
  <2>5. InFlight(i)' = InFlight(i) \cup {m}
    BY <2>1, <2>4, InFlightMore
  <2>6. ASSUME NEW j, j # i PROVE InFlight(j)' = InFlight(j)
    BY <2>1, <2>4, <2>6, InFlightSame DEF SendsSame
  <2>7. ASSUME NEW j \in full' \ disturbed', copies'[j] = 1
        PROVE  Agrees(j, heap[cache[j]])'
    <3>1. j \in full \ disturbed /\ copies[j] = 1 /\ j \in Id
      BY <1>0, <2>1, <2>7 DEF Facts
    <3>2. Agrees(j, heap[cache[j]])
      BY <3>1 DEF AgreeInv, OneCopyAgrees, Agrees
    <3>3. CASE j = i
      <4>1. heap'[cache'[j]] = heap[cache[j]] \cup {m}
        BY <2>1, <2>2, <2>3, <3>1, <3>3 DEF Settled
      <4>2. InFlight(j)' = InFlight(j) \cup {m}
        BY <2>1, <2>5, <3>3
      <4>3. QED
        BY <2>1, <3>2, <4>1, <4>2 DEF Agrees
    <3>4. CASE j # i
      <4>1. cache[j] \in 1..Len(heap)
        BY <1>0, <3>1 DEF Facts, HandsInv, Null
      <4>2. heap'[cache'[j]] = heap[cache[j]]
        BY <2>1, <2>2, <2>3, <3>1, <3>4, <4>1
      <4>3. QED
        BY <2>1, <2>6, <3>2, <3>4, <4>2 DEF Agrees
    <3>5. QED
      BY <3>3, <3>4
  <2>8. ASSUME NEW u \in Task PROVE Held(u)'
    <3>1. CASE u = t
      BY <1>0, <2>1, <2>3, <3>1 DEF Held, Facts
    <3>2. CASE u # t /\ pc[u] = "save"
      <4>1. pc'[u] = "save" /\ call[u].msg \in heap[ret[u]]
        BY <1>0, <2>1, <3>2 DEF Facts, AgreeInv, Held
      <4>2. ret[u] \in 1..Len(heap)
        BY <1>0, <3>2 DEF Facts, HandsInv, HoldsCopy, Null
      <4>3. QED
        BY <2>1, <2>3, <4>1, <4>2 DEF Held
    <3>3. CASE u # t /\ pc[u] = "install" /\ call[u].id # i
      <4>1. pc'[u] = "install" /\ Held(u) /\ InFlight(call[u].id)' = InFlight(call[u].id)
        BY <1>0, <2>1, <2>6, <3>3 DEF Facts, AgreeInv
      <4>2. ret[u] \in 1..Len(heap) /\ ret[u] # o
        BY <1>0, <2>2, <3>3 DEF Facts, HandsInv, HoldsCopy, Null
      <4>3. heap'[ret'[u]] = heap[ret[u]]
        BY <2>1, <2>3, <4>2
      <4>4. QED
        BY <2>1, <4>1, <4>3 DEF Held, Agrees
    <3>4. CASE u # t /\ pc[u] = "install" /\ call[u].id = i
      BY <1>0, <2>1, <2>2, <3>4 DEF Held, Facts
    <3>5. CASE u # t /\ pc[u] \notin {"save", "install"}
      BY <1>0, <2>1, <3>5 DEF Held, Facts
    <3>6. QED
      BY <3>1, <3>2, <3>3, <3>4, <3>5
  <2>9. QED
    BY <2>7, <2>8 DEF AgreeInv, OneCopyAgrees, Agrees
<1>16. ASSUME NEW t \in Task, Save(t) PROVE AgreeInv'
  <2> DEFINE i == call[t].id
             m == call[t].msg
  <2>1. /\ pc[t] = "save" /\ pc'[t] \in {"persist", "idle"} /\ Alone(t) /\ i \in Id
        /\ UNCHANGED <<rows, memory, copies, disturbed>> /\ copies[i] > 0
        /\ Settled(i) => ret[t] = cache[i]
    BY <1>0, <1>16 DEF Save, Return, Goto, Alone, Facts, HandsInv, HoldsCopy
  <2>2. Others(t) /\ pc[t] \in Sending /\ pc'[t] \notin Sending
    BY <2>1 DEF Alone, Others, Sending
  <2>3. ASSUME NEW j \in Id \ disturbed', NEW h, Matters(j, h), Agrees(j, h)
        PROVE  Agrees(j, h)'
    <3>1. CASE j = i
      <4>1. i \in rows /\ stored' = [stored EXCEPT ![i] = @ \cup {m}]
        BY <1>16, <2>1, <2>3, <3>1 DEF Save, RowInv
      <4>2. stored'[i] = stored[i] \cup {m}
        BY <1>0, <2>1, <4>1 DEF Facts
      <4>3. m \in h
        BY <2>1, <2>3, <3>1 DEF Matters, Settled, AgreeInv, Held
      <4>4. InFlight(j)' \subseteq InFlight(j) /\ InFlight(j) \subseteq InFlight(j)' \cup {m}
        BY <2>2, <3>1, InFlightLess
      <4>5. QED
        BY <2>3, <3>1, <4>2, <4>3, <4>4 DEF Agrees
    <3>2. CASE j # i
      <4>1. InFlight(j)' = InFlight(j)
        BY <2>2, <3>2, InFlightSame DEF SendsSame
      <4>2. stored'[j] = stored[j]
        BY <1>0, <1>16, <2>3, <3>2 DEF Save, Facts
      <4>3. QED
        BY <2>3, <4>1, <4>2 DEF Agrees
    <3>3. QED
      BY <3>1, <3>2
  <2>4. QED
    BY <1>0, <2>1, <2>3, StillAgrees DEF Alone
<1>17. ASSUME NEW t \in Task, CreateRow(t) PROVE AgreeInv'
  <2> DEFINE i == call[t].id
  <2>1. /\ pc[t] = "createRow" /\ pc'[t] = "createMessage" /\ Alone(t) /\ call'[t] = call[t]
        /\ UNCHANGED <<stored, memory, copies, disturbed>>
    BY <1>0, <1>17 DEF CreateRow, Goto, Alone, Facts
  <2>2. Others(t) /\ pc[t] \notin Sending /\ pc'[t] \in Sending
    BY <2>1 DEF Alone, Others, Sending
  <2>3. ASSUME NEW j, NEW h, Agrees(j, h) PROVE Agrees(j, h)'
    <3>1. InFlight(j) \subseteq InFlight(j)'
      <4>1. CASE j = i
        BY <2>1, <2>2, <4>1, InFlightMore
      <4>2. CASE j # i
        BY <2>1, <2>2, <4>2, InFlightSame DEF SendsSame
      <4>3. QED
        BY <4>1, <4>2
    <3>2. QED
      BY <2>1, <2>3, <3>1 DEF Agrees
  <2>4. QED
    BY <1>0, <2>1, <2>3, StillAgrees DEF Alone
<1>18. ASSUME NEW t \in Task, CreateMessage(t) PROVE AgreeInv'
  <2> DEFINE i == call[t].id
             m == call[t].msg
  <2>1. /\ pc[t] = "createMessage" /\ pc'[t] \in {"publish", "idle"} /\ Alone(t) /\ i \in Id
        /\ UNCHANGED <<memory, copies, disturbed>>
    BY <1>0, <1>18 DEF CreateMessage, Return, Goto, Alone, Facts
  <2>2. \/ /\ stored' = [stored EXCEPT ![i] = @ \cup {m}] /\ call'[t] = call[t]
           /\ pc'[t] = "publish"
        \/ i \in disturbed /\ UNCHANGED stored /\ pc'[t] = "idle"
    BY <1>0, <1>18, <2>1 DEF CreateMessage, Return, Goto, Facts, RowInv, HasRow, Rowed
  <2>3. ASSUME NEW j \in Id \ disturbed', NEW h, Agrees(j, h) PROVE Agrees(j, h)'
    <3>1. InFlight(j)' = InFlight(j)
      BY <2>1, <2>2, InFlightSame DEF SendsSame, Others, Alone, Sending
    <3>2. stored'[j] = stored[j] \/ (j = i /\ stored'[j] = stored[j] \cup {m})
      BY <1>0, <2>2 DEF Facts
    <3>3. m \in InFlight(i)
      BY <2>1 DEF InFlight
    <3>4. QED
      BY <2>3, <3>1, <3>2, <3>3 DEF Agrees
  <2>4. QED
    BY <1>0, <2>1, <2>3, StillAgrees DEF Alone
<1>19. ASSUME NEW t \in Task, Publish(t) PROVE AgreeInv'
  <2> DEFINE i == call[t].id
             m == call[t].msg
  <2>1. /\ pc[t] = "publish" /\ pc'[t] = "idle" /\ Alone(t) /\ i \in Id
        /\ UNCHANGED <<db, disturbed>> /\ full' = full \cup {i} /\ heap' = Append(heap, {m})
        /\ cache' = [cache EXCEPT ![i] = Len(heap) + 1]
        /\ copies' = [copies EXCEPT ![i] = @ + 1]
    BY <1>0, <1>19 DEF Publish, InsertLoaded, Allocate, New, Return, Goto, Alone, Facts
  <2>2. Others(t) /\ pc[t] \in Sending /\ pc'[t] \notin Sending
    BY <2>1 DEF Alone, Others, Sending
  <2>3. m \in Msg
    <3>1. CallFits(t) /\ pc[t] = "publish"
      BY <2>1 DEF TypeOK, TaskTypeOK
    <3>2. QED
      BY <3>1 DEF CallFits
  <2>4. /\ \A o \in 1..Len(heap) : heap'[o] = heap[o]
        /\ heap'[Len(heap) + 1] = {m}
    <3>1. heap \in Seq(SUBSET Msg) /\ {m} \in SUBSET Msg
      BY <1>0, <2>3 DEF Facts
    <3>2. QED
      BY <2>1, <3>1
  <2>5. ASSUME NEW j, j # i PROVE InFlight(j)' = InFlight(j)
    BY <2>2, <2>5, InFlightSame, <1>0, <2>1 DEF SendsSame, Sending
  <2>6. ASSUME NEW j \in full' \ disturbed', copies'[j] = 1
        PROVE  Agrees(j, heap[cache[j]])'
    <3>1. CASE j = i
      <4>1. copies[i] = 0 /\ i \notin disturbed /\ heap'[cache'[j]] = {m}
        BY <1>0, <2>1, <2>4, <2>6, <3>1 DEF Facts
      <4>2. m \in stored[i] /\ stored[i] \subseteq InFlight(i)
        BY <2>1, <4>1 DEF RowInv, HasRow, Creating
      <4>3. InFlight(j) \subseteq InFlight(j)' \cup {m}
        BY <2>2, <3>1, InFlightLess
      <4>4. QED
        BY <2>1, <3>1, <4>1, <4>2, <4>3 DEF Agrees
    <3>2. CASE j # i
      <4>1. /\ j \in full \ disturbed /\ copies[j] = 1 /\ cache'[j] = cache[j]
            /\ cache[j] \in 1..Len(heap)
        <5>1. j \in full \ disturbed /\ copies[j] = 1 /\ cache'[j] = cache[j] /\ j \in Id
          BY <1>0, <2>1, <2>6, <3>2 DEF Facts
        <5>2. cache[j] \in 1..Len(heap)
          BY <1>0, <5>1 DEF Facts, HandsInv, Null
        <5>3. QED
          BY <5>1, <5>2
      <4>2. Agrees(j, heap[cache[j]])
        BY <4>1 DEF AgreeInv, OneCopyAgrees, Agrees
      <4>3. heap'[cache'[j]] = heap[cache[j]]
        BY <2>4, <4>1
      <4>4. InFlight(j)' = InFlight(j)
        BY <2>5, <3>2
      <4>5. QED
        BY <2>1, <4>2, <4>3, <4>4 DEF Agrees
    <3>3. QED
      BY <3>1, <3>2
  <2>7. ASSUME NEW u \in Task PROVE Held(u)'
    <3>1. CASE u = t \/ pc[u] \notin {"save", "install"}
      BY <2>1, <3>1 DEF Held, Alone
    <3>2. CASE u # t /\ pc[u] \in {"save", "install"}
      <4>1. /\ pc'[u] = pc[u] /\ call'[u] = call[u] /\ ret'[u] = ret[u] /\ Held(u)
            /\ call[u].id \in Id
        BY <1>0, <2>1, <3>2 DEF Alone, AgreeInv, Facts
      <4>2. ret[u] \in 1..Len(heap)
        BY <1>0, <3>2 DEF Facts, HandsInv, HoldsCopy, Null
      <4>3. heap'[ret'[u]] = heap[ret[u]]
        BY <2>4, <4>1, <4>2
      <4>4. CASE call[u].id = i
        <5>1. copies'[i] # 0
          BY <1>0, <2>1 DEF Facts
        <5>2. QED
          BY <4>1, <4>3, <4>4, <5>1 DEF Held
      <4>5. CASE call[u].id # i
        <5>1. copies'[call[u].id] = copies[call[u].id]
          BY <1>0, <2>1, <4>1, <4>5 DEF Facts
        <5>2. InFlight(call[u].id)' = InFlight(call[u].id)
          BY <2>5, <4>1, <4>5
        <5>3. QED
          BY <2>1, <4>1, <4>3, <5>1, <5>2 DEF Held, Agrees
      <4>6. QED
        BY <4>4, <4>5
    <3>3. QED
      BY <3>1, <3>2
  <2>8. QED
    BY <2>6, <2>7 DEF AgreeInv, OneCopyAgrees, Agrees
<1>20. QED
  BY <1>4, <1>5, <1>6, <1>7, <1>8, <1>9, <1>10, <1>11, <1>12, <1>13, <1>14, <1>15, <1>16,
     <1>17, <1>18, <1>19 DEF Next, Step

(* As long as there has been one loaded copy of a session, and nothing went *)
(* wrong with it, the copy and the table differ by what is being written.   *)
THEOREM OneCopyStaysTrue == Spec => []OneCopyAgrees
<1>1. Init => HandsInv /\ RowInv /\ AgreeInv
  BY HandsInit, RowInit, AgreeInit
<1>2. TypeOK /\ FlightInv /\ HandsInv /\ [Next]_vars => HandsInv'
  BY HandsStep
<1>3. TypeOK /\ FlightInv /\ HandsInv /\ RowInv /\ [Next]_vars => RowInv'
  BY RowStep
<1>4. TypeOK /\ FlightInv /\ HandsInv /\ RowInv /\ AgreeInv /\ [Next]_vars => AgreeInv'
  BY AgreeStep
<1>5. AgreeInv => OneCopyAgrees
  BY DEF AgreeInv
<1>6. QED
  BY <1>1, <1>2, <1>3, <1>4, <1>5, Inductive, PTL DEF Spec
=============================================================================
