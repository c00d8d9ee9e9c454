------------------------ MODULE TurnLifecycleProofs ------------------------
(***************************************************************************)
(* Proofs about TurnLifecycle.  With one Session object between restarts    *)
(* (Spec): mutual exclusion, stops that never reach a turn that waits,      *)
(* whole turns in the table, and what the runtime is given.  With objects   *)
(* replaced under the turns as well (RacingSpec): types, the order of what  *)
(* is stored of a turn, and the tokens.                                    *)
(***************************************************************************)
EXTENDS TurnLifecycle, SequenceTheorems, TLAPS

Holder == Turn \cup {NoTurn}

(***************************************************************************)
(* The list of objects.                                                    *)
(***************************************************************************)
(* Changing one object leaves a list of as many, the others as they were.   *)
LEMMA PutObject ==
    ASSUME objects \in Seq(Object), NEW i \in 1 .. Len(objects), NEW e \in Object,
           objects' = [objects EXCEPT ![i] = e]
    PROVE  /\ objects' \in Seq(Object) /\ Len(objects') = Len(objects)
           /\ \A j \in 1 .. Len(objects) : j # i => objects'[j] = objects[j]
           /\ objects'[i] = e
BY ExceptSeq

(* Changing a field of an object leaves an object with the other fields.    *)
LEMMA PutField ==
    ASSUME NEW o \in Object, NEW x \in Holder, NEW h \in Seq(Message)
    PROVE  /\ [o EXCEPT !.lock = x] \in Object
           /\ [o EXCEPT !.lock = x].lock = x
           /\ [o EXCEPT !.lock = x].token = o.token
           /\ [o EXCEPT !.lock = x].history = o.history
           /\ [o EXCEPT !.token = x] \in Object
           /\ [o EXCEPT !.token = x].token = x
           /\ [o EXCEPT !.token = x].lock = o.lock
           /\ [o EXCEPT !.token = x].history = o.history
           /\ [o EXCEPT !.history = h] \in Object
           /\ [o EXCEPT !.history = h].history = h
           /\ [o EXCEPT !.history = h].lock = o.lock
           /\ [o EXCEPT !.history = h].token = o.token
BY DEF Object, Holder

LEMMA PutLock ==
    ASSUME objects \in Seq(Object), NEW i \in 1 .. Len(objects), NEW x \in Holder,
           objects' = [objects EXCEPT ![i].lock = x]
    PROVE  /\ objects' \in Seq(Object) /\ Len(objects') = Len(objects)
           /\ \A j \in 1 .. Len(objects) : /\ objects'[j].token = objects[j].token
                                         /\ objects'[j].history = objects[j].history
           /\ objects'[i].lock = x
           /\ \A j \in 1 .. Len(objects) : j # i => objects'[j] = objects[j]
<1> DEFINE e == [objects[i] EXCEPT !.lock = x]
<1>1. objects[i] \in Object
  BY ElementOfSeq
<1>2. /\ e \in Object /\ e.lock = x /\ e.token = objects[i].token
      /\ e.history = objects[i].history
  BY <1>1, PutField, EmptySeq
<1>3. objects' = [objects EXCEPT ![i] = e]
  OBVIOUS
<1> HIDE DEF e
<1>4. QED
  BY <1>2, <1>3, PutObject

LEMMA PutToken ==
    ASSUME objects \in Seq(Object), NEW i \in 1 .. Len(objects), NEW x \in Holder,
           objects' = [objects EXCEPT ![i].token = x]
    PROVE  /\ objects' \in Seq(Object) /\ Len(objects') = Len(objects)
           /\ \A j \in 1 .. Len(objects) : /\ objects'[j].lock = objects[j].lock
                                         /\ objects'[j].history = objects[j].history
           /\ objects'[i].token = x
           /\ \A j \in 1 .. Len(objects) : j # i => objects'[j] = objects[j]
<1> DEFINE e == [objects[i] EXCEPT !.token = x]
<1>1. objects[i] \in Object
  BY ElementOfSeq
<1>2. /\ e \in Object /\ e.token = x /\ e.lock = objects[i].lock
      /\ e.history = objects[i].history
  BY <1>1, PutField, EmptySeq
<1>3. objects' = [objects EXCEPT ![i] = e]
  OBVIOUS
<1> HIDE DEF e
<1>4. QED
  BY <1>2, <1>3, PutObject

LEMMA PutBoth ==
    ASSUME objects \in Seq(Object), NEW i \in 1 .. Len(objects),
           objects' = [objects EXCEPT ![i].lock = NoTurn, ![i].token = NoTurn]
    PROVE  /\ objects' \in Seq(Object) /\ Len(objects') = Len(objects)
           /\ objects'[i].token = NoTurn
           /\ \A j \in 1 .. Len(objects) :
                 /\ objects'[j].token \in {objects[j].token, NoTurn}
                 /\ objects'[j].history = objects[j].history
<1> DEFINE f == [objects[i] EXCEPT !.lock = NoTurn]
           e == [f EXCEPT !.token = NoTurn]
<1>1. objects[i] \in Object /\ NoTurn \in Holder
  BY ElementOfSeq DEF Holder
<1>2. f \in Object /\ f.history = objects[i].history
  BY <1>1, PutField, EmptySeq
<1>3. objects' = [objects EXCEPT ![i] = e]
  <2>1. objects \in [1 .. Len(objects) -> Object]
    BY LenProperties
  <2>2. QED
    BY <2>1, <1>1, <1>2
<1> HIDE DEF f
<1>4. e \in Object /\ e.token = NoTurn /\ e.history = objects[i].history
  BY <1>1, <1>2, PutField, EmptySeq
<1> HIDE DEF e
<1>5. QED
  BY <1>3, <1>4, PutObject

LEMMA PutMessage ==
    ASSUME objects \in Seq(Object), NEW m \in Message, Len(objects) > 0, PushMessage(m)
    PROVE  /\ objects' \in Seq(Object) /\ Len(objects') = Len(objects)
           /\ \A j \in 1 .. Len(objects) :
                 objects'[j].lock = objects[j].lock /\ objects'[j].token = objects[j].token
           /\ objects'[Len(objects)].history = Append(objects[Len(objects)].history, m)
<1> DEFINE i == Len(objects)
           h == Append(objects[i].history, m)
           e == [objects[i] EXCEPT !.history = h]
<1>1. i \in 1 .. Len(objects)
  BY LenProperties
<1>2. objects[i] \in Object
  BY <1>1, ElementOfSeq
<1>3. h \in Seq(Message)
  BY <1>2, AppendProperties DEF Object
<1>4. objects' = [objects EXCEPT ![i] = e]
  BY DEF PushMessage, Cached
<1> HIDE DEF h
<1>5. /\ e \in Object /\ e.lock = objects[i].lock
      /\ e.token = objects[i].token /\ e.history = h
  BY <1>2, <1>3, PutField DEF Holder
<1>6. h = Append(objects[i].history, m)
  BY DEF h
<1> HIDE DEF e
<1>7. QED
  BY <1>1, <1>4, <1>5, <1>6, PutObject

LEMMA NewObjectType == ASSUME NEW h \in Seq(Message) PROVE NewObject(h) \in Object
BY DEF NewObject, Object

LEMMA CancelType ==
    ASSUME objects \in Seq(Object), Len(objects) > 0, cancelled \subseteq Turn, CancelCached
    PROVE  /\ objects' \in Seq(Object) /\ Len(objects') = Len(objects)
           /\ cancelled' \subseteq Turn
           /\ \A j \in 1 .. Len(objects) : /\ objects'[j].lock = objects[j].lock
                                         /\ objects'[j].history = objects[j].history
           /\ \A j \in 1 .. Len(objects) : objects'[j].token \in {objects[j].token, NoTurn}
           /\ cancelled' \ cancelled \subseteq {objects[Len(objects)].token} \cap Turn
<1> DEFINE i == Len(objects)
<1>1. i \in 1 .. Len(objects) /\ NoTurn \in Holder
  BY LenProperties DEF Holder
<1>2. objects[i].token \in Holder
  <2>1. objects[i] \in Object
    BY <1>1, ElementOfSeq
  <2>2. QED
    BY <2>1 DEF Object, Holder
<1>3. objects' = [objects EXCEPT ![i].token = NoTurn]
  BY DEF CancelCached, Cached
<1>4. cancelled' = cancelled \cup ({objects[i].token} \ {NoTurn})
  BY DEF CancelCached, Cached
<1>5. /\ objects' \in Seq(Object) /\ Len(objects') = Len(objects)
      /\ \A j \in 1 .. Len(objects) : /\ objects'[j].lock = objects[j].lock
                                    /\ objects'[j].history = objects[j].history
      /\ objects'[i].token = NoTurn
      /\ \A j \in 1 .. Len(objects) : j # i => objects'[j] = objects[j]
  BY <1>1, <1>3, PutToken
<1>6. QED
  BY <1>2, <1>4, <1>5 DEF Holder
-----------------------------------------------------------------------------
(***************************************************************************)
(* Types.                                                                  *)
(***************************************************************************)
(* A turn that saves a reply has one to save, and one that works holds an   *)
(* object.                                                                 *)
LocalFits(t) == /\ pc[t] = "replyRow" => saved[t] < reply[t]
                /\ pc[t] \notin Outcome \cup {"idle"} => held[t] # 0
SavingFits == \A t \in Turn : LocalFits(t)

Typed == TypeOK /\ SavingFits

LEMMA TypeInit == Init => Typed
<1> SUFFICES ASSUME Init PROVE Typed
  OBVIOUS
<1>1. NewObject(<<>>) \in Object
  BY NewObjectType, EmptySeq
<1>2. objects \in Seq(Object) /\ Len(objects) = 1
  BY <1>1 DEF Init
<1>3. QED
  BY <1>2, TurnAssumption DEF Init, Typed, SavingFits, LocalFits, TypeOK, Status, Label

(* Also with objects replaced under the turns. *)
LEMMA TypeStep == Typed /\ [Next \/ Reload]_vars => TypeOK'
<1> SUFFICES ASSUME TypeOK, SavingFits, [Next \/ Reload]_vars PROVE TypeOK'
  BY DEF Typed
<1> USE DEF store, local, stops, counts
<1>0. /\ objects \in Seq(Object) /\ Len(objects) > 0 /\ Len(objects) \in Nat
      /\ rows \in Seq(Message) /\ MaxReplies \in Nat
      /\ NoTurn \in Holder /\ Turn \subseteq Holder
      /\ \A t \in Turn : held[t] \in Nat /\ held[t] \in 0 .. Len(objects)
      /\ \A t \in Turn : <<t, 0>> \in Message
      /\ \A t \in Turn : pc[t] \notin Outcome \cup {"idle"} => held[t] \in 1 .. Len(objects)
  <2>1. Len(objects) \in Nat
    BY LenProperties DEF TypeOK
  <2>2. QED
    BY <2>1, TurnAssumption DEF TypeOK, Holder, Message, SavingFits, LocalFits
<1>1. ASSUME NEW t \in Turn, Begin(t) PROVE TypeOK'
  BY <1>0, <1>1 DEF Begin, Goto, TypeOK, Label, Cached
<1>2. ASSUME NEW t \in Turn, CreateRun(t) PROVE TypeOK'
  BY <1>2 DEF CreateRun, Goto, TypeOK, Label, Status
<1>3. ASSUME NEW t \in Turn, Lock(t) PROVE TypeOK'
  <2>1. objects' \in Seq(Object) /\ Len(objects') = Len(objects)
    BY <1>0, <1>3, PutLock DEF Lock, Goto, Outcome
  <2>2. QED
    BY <1>3, <2>1 DEF Lock, Goto, TypeOK, Label, Critical
<1>4. ASSUME NEW t \in Turn, PushUser(t) PROVE TypeOK'
  <2>1. objects' \in Seq(Object) /\ Len(objects') = Len(objects)
    BY <1>0, <1>4, PutMessage DEF PushUser
  <2>2. QED
    BY <1>4, <2>1 DEF PushUser, Goto, TypeOK, Label, Critical
<1>5. ASSUME NEW t \in Turn, SaveUser(t) PROVE TypeOK'
  <2>1. rows' \in Seq(Message)
    BY <1>0, <1>5 DEF SaveUser, SaveMessage
  <2>2. QED
    BY <1>5, <2>1 DEF SaveUser, Goto, TypeOK, Label, Critical
<1>6. ASSUME NEW t \in Turn, SetToken(t) PROVE TypeOK'
  <2>1. objects' \in Seq(Object) /\ Len(objects') = Len(objects)
    BY <1>0, <1>6, PutToken DEF SetToken, Goto, Outcome
  <2>2. QED
    BY <1>6, <2>1 DEF SetToken, Goto, TypeOK, Label, Critical
<1>7. ASSUME NEW t \in Turn, Snapshot(t) PROVE TypeOK'
  <2> DEFINE h == objects[held[t]].history
  <2>1. CASE h = <<>>
    <3>1. /\ Goto(t, "snapshot", "panicked") /\ Unlock(t)
          /\ UNCHANGED <<base, rows, run, held, reply, saved, stops, counts>>
      BY <1>7, <2>1 DEF Snapshot
    <3>2. objects' \in Seq(Object) /\ Len(objects') = Len(objects)
      BY <1>0, <3>1, PutLock DEF Unlock, Goto, Outcome
    <3>3. QED
      BY <3>1, <3>2 DEF Goto, TypeOK, Label, Outcome
  <2>2. CASE h # <<>>
    <3>1. /\ Goto(t, "snapshot", "prepare") /\ base' = [base EXCEPT ![t] = Before(h)]
          /\ UNCHANGED <<objects, rows, run, held, reply, saved, stops, counts>>
      BY <1>7, <2>2 DEF Snapshot
    <3>2. pc[t] = "snapshot" /\ held[t] \in 0 .. Len(objects)
      BY <1>0, <3>1 DEF Goto
    <3>3. held[t] \in 1 .. Len(objects)
      BY <1>0, <3>2 DEF Outcome
    <3>4. objects[held[t]] \in Object
      BY <1>0, <3>3, ElementOfSeq
    <3>5. h \in Seq(Message) /\ Len(h) \in Nat
      BY <3>4, LenProperties DEF Object
    <3> HIDE DEF h
    <3>6. Before(h) \in Seq(Message)
      BY <3>5, SubSeqProperties, ElementOfSeq DEF Before
    <3>7. QED
      BY <3>1, <3>6 DEF Goto, TypeOK, Label, Critical
  <2>3. QED
    BY <2>1, <2>2
<1>8. ASSUME NEW t \in Turn, Prepare(t) PROVE TypeOK'
  BY <1>8 DEF Prepare, Goto, TypeOK, Label, Critical
<1>9. ASSUME NEW t \in Turn, RunTurn(t) PROVE TypeOK'
  BY <1>9 DEF RunTurn, Goto, TypeOK, Label, Critical
<1>10. ASSUME NEW t \in Turn, RunFails(t) PROVE TypeOK'
  BY <1>10 DEF RunFails, Goto, TypeOK, Label, Critical
<1>11. ASSUME NEW t \in Turn, FailRun(t) PROVE TypeOK'
  <2>1. objects' \in Seq(Object) /\ Len(objects') = Len(objects)
    BY <1>0, <1>11, PutLock DEF FailRun, Unlock, Goto, Outcome
  <2>2. QED
    BY <1>11, <2>1 DEF FailRun, Goto, TypeOK, Label, Outcome, Status
<1>12. ASSUME NEW t \in Turn, PushReply(t) PROVE TypeOK'
  <2>1. <<t, saved[t] + 1>> \in Message
    BY <1>0, <1>12 DEF PushReply, TypeOK, Message
  <2>2. objects' \in Seq(Object) /\ Len(objects') = Len(objects)
    BY <1>0, <1>12, <2>1, PutMessage DEF PushReply
  <2>3. QED
    BY <1>12, <2>2 DEF PushReply, Goto, TypeOK, Label, Critical
<1>13. ASSUME NEW t \in Turn, SaveReply(t) PROVE TypeOK'
  <2>1. /\ pc[t] = "replyRow" /\ rows' = Append(rows, <<t, saved[t] + 1>>)
        /\ saved' = [saved EXCEPT ![t] = @ + 1]
    BY <1>13 DEF SaveReply, SaveMessage, Goto
  <2>3. saved[t] < reply[t] /\ reply[t] \in 0 .. MaxReplies
    BY <2>1 DEF SavingFits, LocalFits, TypeOK
  <2>4. rows' \in Seq(Message) /\ saved' \in [Turn -> 0 .. MaxReplies]
    BY <1>0, <2>1, <2>3 DEF Message, TypeOK
  <2>5. QED
    BY <1>13, <2>4 DEF SaveReply, Goto, TypeOK, Label, Critical
<1>14. ASSUME NEW t \in Turn, RecordUsage(t) PROVE TypeOK'
  BY <1>14 DEF RecordUsage, Goto, TypeOK, Label, Critical
<1>15. ASSUME NEW t \in Turn, Finish(t) PROVE TypeOK'
  BY <1>15 DEF Finish, Goto, TypeOK, Label, Critical, Status
<1>16. ASSUME NEW t \in Turn, Clear(t) PROVE TypeOK'
  <2>1. objects' \in Seq(Object) /\ Len(objects') = Len(objects)
    BY <1>0, <1>16, PutBoth DEF Clear, Goto, Outcome
  <2>2. QED
    BY <1>16, <2>1 DEF Clear, Goto, TypeOK, Label, Outcome
<1>17. ASSUME NEW t \in Turn, EarlyReturn(t) PROVE TypeOK'
  <2>1. objects' \in Seq(Object) /\ Len(objects') = Len(objects)
    BY <1>0, <1>17, PutLock DEF EarlyReturn, Unlock, Critical, Outcome
  <2>2. QED
    BY <1>17, <2>1 DEF EarlyReturn, TypeOK, Label, Outcome
<1>18. ASSUME NEW t \in Turn, ControlStop(t) PROVE TypeOK'
  BY <1>18 DEF ControlStop, TypeOK, Status
<1>19. ASSUME StopTurn PROVE TypeOK'
  <2>1. /\ objects' \in Seq(Object) /\ Len(objects') = Len(objects)
        /\ cancelled' \subseteq Turn
    BY <1>0, <1>19, CancelType DEF StopTurn, TypeOK
  <2>2. QED
    BY <1>19, <2>1 DEF StopTurn, Running, TypeOK
<1>20. ASSUME ControlCancel PROVE TypeOK'
  <2>1. /\ objects' \in Seq(Object) /\ Len(objects') = Len(objects)
        /\ cancelled' \subseteq Turn
    BY <1>0, <1>20, CancelType DEF ControlCancel, TypeOK
  <2>2. QED
    BY <1>20, <2>1 DEF ControlCancel, TypeOK
<1>21. ASSUME Crash PROVE TypeOK'
  <2>1. objects' \in Seq(Object) /\ Len(objects') = 1
    BY <1>0, <1>21, NewObjectType DEF Crash
  <2>2. QED
    BY <1>21, <2>1 DEF Crash, TypeOK, Label, Outcome
<1>22. ASSUME Reload PROVE TypeOK'
  <2>1. objects' \in Seq(Object) /\ Len(objects') = Len(objects) + 1
    BY <1>0, <1>22, NewObjectType DEF Reload
  <2>2. held' \in [Turn -> 0 .. Len(objects')]
    BY <1>0, <1>22, <2>1 DEF Reload, TypeOK
  <2>3. QED
    BY <1>22, <2>1, <2>2 DEF Reload, TypeOK
<1>23. ASSUME UNCHANGED vars PROVE TypeOK'
  BY <1>23 DEF vars, TypeOK
<1>24. QED
  BY <1>1, <1>2, <1>3, <1>4, <1>5, <1>6, <1>7, <1>8, <1>9, <1>10, <1>11, <1>12,
     <1>13, <1>14, <1>15, <1>16, <1>17, <1>18, <1>19, <1>20, <1>21, <1>22, <1>23
     DEF Next, Step

LEMMA SavingStep == Typed /\ [Next \/ Reload]_vars => SavingFits'
<1> SUFFICES ASSUME TypeOK, SavingFits, [Next \/ Reload]_vars, NEW t \in Turn
             PROVE  LocalFits(t)'
  BY DEF Typed, SavingFits
<1>0. Len(objects) \in Nat /\ Len(objects) > 0
  BY LenProperties DEF TypeOK
<1> USE DEF store, local, stops, counts, Goto, SavingFits, LocalFits, Outcome
<1>1. ASSUME NEW u \in Turn, Begin(u) PROVE LocalFits(t)'
  BY <1>0, <1>1 DEF TypeOK, Begin, Cached
<1>2. ASSUME NEW u \in Turn, RunTurn(u) PROVE LocalFits(t)'
  BY <1>2 DEF TypeOK, RunTurn
<1>3. ASSUME NEW u \in Turn, SaveReply(u) PROVE LocalFits(t)'
  BY <1>3 DEF TypeOK, SaveReply
<1>4. ASSUME NEW u \in Turn, Step(u), ~Begin(u), ~RunTurn(u), ~SaveReply(u)
      PROVE  LocalFits(t)'
  BY <1>4 DEF TypeOK, Step, CreateRun, Lock, PushUser, SaveUser, SetToken, Snapshot,
              Prepare, RunFails, FailRun, PushReply, RecordUsage, Finish, Clear
<1>5. ASSUME ~\E u \in Turn : Step(u) PROVE LocalFits(t)'
  BY <1>5 DEF TypeOK, Next, EarlyReturn, ControlStop, StopTurn, ControlCancel, Crash,
              Reload, vars
<1>6. QED
  BY <1>1, <1>2, <1>3, <1>4, <1>5

(* Every variable keeps its type, also when objects are replaced under the  *)
(* turns.                                                                  *)
THEOREM TypeCorrect == RacingSpec => []TypeOK
<1>1. Init => Typed
  BY TypeInit
<1>2. Typed /\ [Next \/ Reload]_vars => Typed'
  BY TypeStep, SavingStep DEF Typed
<1>3. Typed => TypeOK
  BY DEF Typed
<1>4. QED
  BY <1>1, <1>2, <1>3, PTL DEF RacingSpec
-----------------------------------------------------------------------------
(***************************************************************************)
(* Mutual exclusion and stops, with one object between restarts.           *)
(***************************************************************************)
(* Whoever is under the lock is the one the object names; a token in it is  *)
(* that of a turn that has had the lock.                                   *)
OneObject == Len(objects) = 1
Locked(t) == pc[t] \in Critical => objects[1].lock = t
Stoppable(t) == objects[1].token = t => pc[t] \in Critical \cup Outcome
LockInv == OneObject /\ \A t \in Turn : Locked(t) /\ Stoppable(t)

LEMMA LockInit == Init => LockInv
BY TurnAssumption DEF Init, LockInv, OneObject, Locked, Stoppable, NewObject, Critical

LEMMA LockStep == Typed /\ LockInv /\ [Next]_vars => LockInv'
<1> SUFFICES ASSUME Typed, LockInv, [Next]_vars PROVE LockInv'
  OBVIOUS
<1> USE DEF store, local, stops, counts
<1>0. /\ objects \in Seq(Object) /\ Len(objects) = 1 /\ NoTurn \in Holder
      /\ Turn \subseteq Holder /\ NoTurn \notin Turn /\ 1 \in 1 .. Len(objects)
      /\ pc \in [Turn -> Label] /\ cancelled \subseteq Turn
      /\ \A t \in Turn : pc[t] \notin Outcome \cup {"idle"} => held[t] = 1
  BY TurnAssumption DEF Typed, TypeOK, SavingFits, LocalFits, LockInv, OneObject, Holder
<1>1. ASSUME NEW t \in Turn, Lock(t) PROVE LockInv'
  <2>1. /\ held[t] = 1 /\ pc' = [pc EXCEPT ![t] = "user"] /\ pc[t] = "lock"
        /\ objects' = [objects EXCEPT ![1].lock = t] /\ objects[1].lock = NoTurn
    BY <1>0, <1>1 DEF Lock, Goto, Outcome
  <2>2. /\ Len(objects') = 1 /\ objects'[1].lock = t
        /\ objects'[1].token = objects[1].token
    BY <1>0, <2>1, PutLock
  <2>3. ASSUME NEW u \in Turn PROVE Locked(u)' /\ Stoppable(u)'
    BY <1>0, <2>1, <2>2 DEF LockInv, Locked, Stoppable, Critical
  <2>4. QED
    BY <2>2, <2>3 DEF LockInv, OneObject
<1>2. ASSUME NEW t \in Turn, pc[t] \in Critical, Unlock(t), NEW l \in Outcome,
             pc' = [pc EXCEPT ![t] = l]
      PROVE  LockInv'
  <2>1. held[t] = 1 /\ objects' = [objects EXCEPT ![1].lock = NoTurn]
    BY <1>0, <1>2 DEF Unlock, Critical, Outcome
  <2>2. Len(objects') = 1 /\ objects'[1].token = objects[1].token
    BY <1>0, <2>1, PutLock
  <2>3. ASSUME NEW u \in Turn PROVE Locked(u)' /\ Stoppable(u)'
    <3>1. u # t => pc[u] \notin Critical
      BY <1>2 DEF LockInv, Locked
    <3>2. QED
      BY <1>0, <1>2, <2>2, <3>1 DEF LockInv, Locked, Stoppable, Critical, Outcome
  <2>4. QED
    BY <2>2, <2>3 DEF LockInv, OneObject
<1>3. ASSUME NEW t \in Turn, Clear(t) PROVE LockInv'
  <2>1. /\ held[t] = 1 /\ pc' = [pc EXCEPT ![t] = "ok"] /\ pc[t] = "clear"
        /\ objects' = [objects EXCEPT ![1].lock = NoTurn, ![1].token = NoTurn]
    BY <1>0, <1>3 DEF Clear, Goto, Outcome
  <2>2. Len(objects') = 1 /\ objects'[1].token \in {objects[1].token, NoTurn}
    BY <1>0, <2>1, PutBoth
  <2>3. ASSUME NEW u \in Turn PROVE Locked(u)' /\ Stoppable(u)'
    <3>1. u # t => pc[u] \notin Critical
      BY <2>1 DEF LockInv, Locked, Critical
    <3>2. QED
      BY <1>0, <2>1, <2>2, <3>1 DEF LockInv, Locked, Stoppable, Critical, Outcome
  <2>4. QED
    BY <2>2, <2>3 DEF LockInv, OneObject
<1>4. ASSUME NEW t \in Turn, SetToken(t) PROVE LockInv'
  <2>1. /\ held[t] = 1 /\ pc' = [pc EXCEPT ![t] = "snapshot"] /\ pc[t] = "userSaved"
        /\ objects' = [objects EXCEPT ![1].token = t]
    BY <1>0, <1>4 DEF SetToken, Goto, Outcome
  <2>2. /\ Len(objects') = 1 /\ objects'[1].token = t
        /\ objects'[1].lock = objects[1].lock
    BY <1>0, <2>1, PutToken
  <2>3. ASSUME NEW u \in Turn PROVE Locked(u)' /\ Stoppable(u)'
    BY <1>0, <2>1, <2>2 DEF LockInv, Locked, Stoppable, Critical
  <2>4. QED
    BY <2>2, <2>3 DEF LockInv, OneObject
<1>5. ASSUME NEW t \in Turn, NEW m \in Message, PushMessage(m), pc[t] \in Critical,
             NEW l \in Critical, pc' = [pc EXCEPT ![t] = l]
      PROVE  LockInv'
  <2>1. /\ Len(objects') = 1 /\ objects'[1].token = objects[1].token
        /\ objects'[1].lock = objects[1].lock
    BY <1>0, <1>5, PutMessage
  <2>2. QED
    BY <1>0, <1>5, <2>1 DEF LockInv, OneObject, Locked, Stoppable
<1>6. ASSUME CancelCached, UNCHANGED pc PROVE LockInv'
  <2>1. /\ Len(objects') = 1 /\ objects'[1].token \in {objects[1].token, NoTurn}
        /\ objects'[1].lock = objects[1].lock
    BY <1>0, <1>6, CancelType
  <2>2. QED
    BY <1>0, <1>6, <2>1 DEF LockInv, OneObject, Locked, Stoppable
<1>7. ASSUME Crash PROVE LockInv'
  <2>1. /\ Len(objects') = 1 /\ objects'[1].token = NoTurn
        /\ \A t \in Turn : pc'[t] \notin Critical
    BY <1>7 DEF Crash, NewObject, Outcome, Critical
  <2>2. QED
    BY <1>0, <2>1 DEF LockInv, OneObject, Locked, Stoppable
(* A turn that moves and leaves the object alone: within the critical       *)
(* labels, within the others, or out of the critical ones by a crash.       *)
<1>8. ASSUME NEW t \in Turn, UNCHANGED objects, NEW l \in Label,
             pc' = [pc EXCEPT ![t] = l],
             \/ pc[t] \in Critical /\ l \in Critical
             \/ pc[t] \notin Critical \cup Outcome /\ l \notin Critical
      PROVE  LockInv'
  BY <1>0, <1>8 DEF LockInv, OneObject, Locked, Stoppable
<1>9. ASSUME UNCHANGED <<objects, pc>> PROVE LockInv'
  BY <1>9 DEF LockInv, OneObject, Locked, Stoppable
<1>10. ASSUME NEW t \in Turn, Step(t) PROVE LockInv'
  <2>1. CASE PushUser(t)
    <3>1. <<t, 0>> \in Message
      BY TurnAssumption DEF Message
    <3>2. QED
      BY <1>5, <2>1, <3>1 DEF PushUser, Goto, Critical
  <2>2. CASE PushReply(t)
    <3>1. <<t, saved[t] + 1>> \in Message
      BY <2>2, TurnAssumption DEF PushReply, Typed, TypeOK, Message
    <3>2. QED
      BY <1>5, <2>2, <3>1 DEF PushReply, Goto, Critical
  <2>3. CASE Snapshot(t)
    <3>1. CASE Goto(t, "snapshot", "prepare") /\ UNCHANGED objects
      BY <1>8, <3>1 DEF Goto, Critical, Label
    <3>2. CASE Goto(t, "snapshot", "panicked") /\ Unlock(t)
      BY <1>2, <3>2 DEF Goto, Critical, Outcome
    <3>3. QED
      BY <2>3, <3>1, <3>2 DEF Snapshot
  <2>4. CASE FailRun(t)
    BY <1>2, <2>4 DEF FailRun, Goto, Critical, Outcome
  <2>5. CASE Begin(t) \/ CreateRun(t)
    BY <1>8, <2>5 DEF Begin, CreateRun, Goto, Critical, Outcome, Label
  <2>6. CASE SaveUser(t) \/ Prepare(t) \/ RunTurn(t) \/ RunFails(t) \/ SaveReply(t)
               \/ RecordUsage(t) \/ Finish(t)
    BY <1>8, <2>6 DEF SaveUser, Prepare, RunTurn, RunFails, SaveReply, RecordUsage,
                      Finish, Goto, Critical, Label
  <2>7. QED
    BY <1>1, <1>3, <1>4, <1>10, <2>1, <2>2, <2>3, <2>4, <2>5, <2>6 DEF Step
<1>11. ASSUME NEW t \in Turn, EarlyReturn(t) PROVE LockInv'
  <2>1. CASE pc[t] \in Critical
    BY <1>2, <1>11, <2>1 DEF EarlyReturn, Outcome
  <2>2. CASE pc[t] \notin Critical
    <3>1. "error" \in Label /\ "error" \notin Critical
      BY DEF Label, Outcome, Critical
    <3>2. UNCHANGED objects /\ pc' = [pc EXCEPT ![t] = "error"] /\ pc[t] \notin Outcome
      BY <1>11, <2>2 DEF EarlyReturn, MayReturn, Outcome
    <3>3. QED
      BY <1>8, <2>2, <3>1, <3>2
  <2>3. QED
    BY <2>1, <2>2
<1>12. QED
  BY <1>6, <1>7, <1>9, <1>10, <1>11
     DEF Next, ControlStop, StopTurn, ControlCancel, vars

LEMMA LockCorrect == Spec => [](Typed /\ LockInv)
<1>1. Init => Typed /\ LockInv
  BY TypeInit, LockInit
<1>2. Typed /\ LockInv /\ [Next]_vars => (Typed /\ LockInv)'
  BY TypeStep, SavingStep, LockStep DEF Typed
<1>3. QED
  BY <1>1, <1>2, PTL DEF Spec

(* As long as nothing replaces the object of the session while turns run,   *)
(* chat_lock makes them run one at a time.                                  *)
THEOREM RunsOneAtATime == Spec => []OneAtATime
<1>1. LockInv => OneAtATime
  BY DEF LockInv, Locked, OneAtATime, Running
<1>2. QED
  BY <1>1, LockCorrect, PTL

(* A stop never cancels a turn that still waits for the lock.               *)
THEOREM StopsCorrect == Spec => StopsNobodyWaiting
<1>1. Typed /\ LockInv /\ [Next]_vars =>
        [\A t \in cancelled' \ cancelled : pc[t] \in Critical \cup Outcome]_vars
  <2> SUFFICES ASSUME Typed, LockInv, [Next]_vars, NEW t \in cancelled' \ cancelled
               PROVE  pc[t] \in Critical \cup Outcome
    OBVIOUS
  <2>1. /\ objects \in Seq(Object) /\ Len(objects) = 1 /\ Len(objects) > 0
        /\ cancelled \subseteq Turn
    BY DEF Typed, TypeOK, LockInv, OneObject
  <2>2. CASE CancelCached
    <3>1. t \in Turn /\ objects[1].token = t
      BY <2>1, <2>2, CancelType
    <3>2. QED
      BY <3>1 DEF LockInv, Stoppable
  <2>3. CASE UNCHANGED cancelled
    BY <2>3
  <2>4. CancelCached \/ UNCHANGED cancelled
    BY DEF Next, Step, vars, store, local, stops, counts, Begin, CreateRun, Lock, PushUser,
           SaveUser, SetToken, Snapshot, Prepare, RunTurn, RunFails, FailRun, PushReply,
           SaveReply, RecordUsage, Finish, Clear, EarlyReturn, ControlStop, StopTurn,
           ControlCancel, Crash
  <2>5. QED
    BY <2>2, <2>3, <2>4
<1>2. QED
  BY <1>1, LockCorrect, PTL DEF Spec, StopsNobodyWaiting
-----------------------------------------------------------------------------
(***************************************************************************)
(* Whole turns in the table.                                               *)
(***************************************************************************)
(* A turn that has not saved its user's message has nothing in the table;   *)
(* one that has, and still has the lock, has the last row.                  *)
Unsaved == {"idle", "create", "lock", "user", "userRow"}
Saving  == Critical \ {"user", "userRow"}
Stored(t) ==
    /\ pc[t] \in Unsaved => \A i \in 1 .. Len(rows) : rows[i][1] # t
    /\ pc[t] \in Saving => Len(rows) > 0 /\ rows[Len(rows)][1] = t
RowsInv == /\ \A t \in Turn : Stored(t)
           /\ \A i, k \in 1 .. Len(rows) : rows[i][1] = rows[k][1] =>
                 \A j \in i .. k : rows[j][1] = rows[i][1]

LEMMA RowsInit == Init => RowsInv
BY DEF Init, RowsInv, Stored, Unsaved, Saving, Critical

(* One more row, by a turn that has none yet or has the last.               *)
LEMMA AppendRow ==
    ASSUME rows \in Seq(Message), RowsInv, LockInv, NEW t \in Turn, NEW m \in Message,
           m[1] = t, pc \in [Turn -> Label], NEW l \in Saving,
           pc[t] \in {"userRow", "replyRow"},
           pc' = [pc EXCEPT ![t] = l], rows' = Append(rows, m)
    PROVE  RowsInv'
<1> DEFINE n == Len(rows)
<1>1. /\ n \in Nat /\ Len(rows') = n + 1 /\ rows'[n + 1] = m
      /\ \A i \in 1 .. n : rows'[i] = rows[i]
  BY LenProperties, AppendProperties
<1>2. \/ \A i \in 1 .. n : rows[i][1] # t
      \/ n > 0 /\ rows[n][1] = t
  BY DEF RowsInv, Stored, Unsaved, Saving, Critical
<1> HIDE DEF n
<1>3. ASSUME NEW u \in Turn PROVE Stored(u)'
  <2>1. CASE u = t
    BY <1>1, <2>1 DEF Saving, Critical, Unsaved, Stored
  <2>2. CASE u # t
    <3>1. pc'[u] = pc[u] /\ pc[u] \notin Saving
      BY <2>2 DEF LockInv, Locked, Saving, Critical
    <3>2. pc[u] \in Unsaved => \A i \in 1 .. n : rows[i][1] # u
      BY DEF RowsInv, Stored, n
    <3>3. QED
      BY <1>1, <2>2, <3>1, <3>2 DEF Stored
  <2>3. QED
    BY <2>1, <2>2
<1>4. ASSUME NEW i \in 1 .. n + 1, NEW k \in 1 .. n + 1, rows'[i][1] = rows'[k][1],
             NEW j \in i .. k
      PROVE  rows'[j][1] = rows'[i][1]
  <2>1. \A a, b \in 1 .. n : rows[a][1] = rows[b][1] =>
           \A c \in a .. b : rows[c][1] = rows[a][1]
    BY DEF RowsInv, n
  <2>2. CASE k \in 1 .. n
    BY <1>1, <1>4, <2>1, <2>2
  <2>3. CASE k = n + 1 /\ i \in 1 .. n
    <3>1. rows[i][1] = t
      BY <1>1, <1>4, <2>3
    <3>2. n > 0 /\ n \in 1 .. n /\ rows[n][1] = t
      BY <1>1, <1>2, <2>3, <3>1
    <3>3. CASE j \in 1 .. n
      BY <1>1, <2>1, <2>3, <3>1, <3>2, <3>3
    <3>4. CASE j = n + 1
      BY <1>1, <1>4, <2>3, <3>4
    <3>5. j \in 1 .. n \/ j = n + 1
      BY <1>1, <2>3
    <3>6. QED
      BY <3>3, <3>4, <3>5
  <2>4. CASE k = n + 1 /\ i = n + 1
    BY <1>1, <2>4
  <2>5. QED
    BY <1>1, <2>2, <2>3, <2>4
<1>5. QED
  BY <1>1, <1>3, <1>4 DEF RowsInv

LEMMA RowsStep == Typed /\ LockInv /\ RowsInv /\ [Next]_vars => RowsInv'
<1> SUFFICES ASSUME Typed, LockInv, RowsInv, [Next]_vars PROVE RowsInv'
  OBVIOUS
<1> USE DEF store, local, stops, counts
<1>0. rows \in Seq(Message) /\ pc \in [Turn -> Label]
  BY DEF Typed, TypeOK
<1>1. ASSUME NEW t \in Turn, SaveUser(t) PROVE RowsInv'
  <2>1. <<t, 0>> \in Message
    BY TurnAssumption DEF Message
  <2>2. QED
    BY <1>0, <1>1, <2>1, AppendRow DEF SaveUser, SaveMessage, Goto, Saving, Critical
<1>2. ASSUME NEW t \in Turn, SaveReply(t) PROVE RowsInv'
  <2>1. <<t, saved[t] + 1>> \in Message
    BY <1>2, TurnAssumption DEF SaveReply, Goto, Typed, TypeOK, SavingFits, LocalFits, Message
  <2>2. QED
    BY <1>0, <1>2, <2>1, AppendRow DEF SaveReply, SaveMessage, Goto, Saving, Critical
(* A turn that moves and stores nothing.                                    *)
<1>3. ASSUME UNCHANGED rows, NEW t \in Turn, NEW l \in Label, pc' = [pc EXCEPT ![t] = l],
             \/ l \in Outcome
             \/ l \in Unsaved /\ pc[t] \in Unsaved
             \/ l \in Saving /\ pc[t] \in Saving
      PROVE  RowsInv'
  BY <1>0, <1>3 DEF RowsInv, Stored, Unsaved, Saving, Critical, Outcome
<1>4. ASSUME NEW t \in Turn, Step(t) PROVE RowsInv'
  <2>1. CASE Begin(t) \/ CreateRun(t) \/ Lock(t) \/ PushUser(t)
    BY <1>3, <2>1 DEF Begin, CreateRun, Lock, PushUser, Goto, Unsaved, Label, Critical
  <2>2. CASE SetToken(t) \/ Prepare(t) \/ RunTurn(t) \/ RunFails(t) \/ PushReply(t)
               \/ RecordUsage(t) \/ Finish(t)
    BY <1>3, <2>2 DEF SetToken, Prepare, RunTurn, RunFails, PushReply, RecordUsage, Finish,
                      Goto, Saving, Label, Critical
  <2>3. CASE FailRun(t) \/ Clear(t)
    BY <1>3, <2>3 DEF FailRun, Clear, Goto, Outcome, Label
  <2>4. CASE Snapshot(t)
    <3>1. UNCHANGED rows /\ (Goto(t, "snapshot", "prepare") \/ Goto(t, "snapshot", "panicked"))
      BY <2>4 DEF Snapshot
    <3>2. QED
      BY <1>3, <3>1 DEF Goto, Outcome, Label, Saving, Critical
  <2>5. QED
    BY <1>1, <1>2, <1>4, <2>1, <2>2, <2>3, <2>4 DEF Step
<1>5. ASSUME NEW t \in Turn, EarlyReturn(t) PROVE RowsInv'
  BY <1>3, <1>5 DEF EarlyReturn, Outcome, Label
<1>6. ASSUME Crash PROVE RowsInv'
  <2>1. UNCHANGED rows
    BY <1>6 DEF Crash
  <2>2. ASSUME NEW t \in Turn PROVE Stored(t)'
    <3>1. pc'[t] \in Outcome \/ (pc'[t] = pc[t] /\ pc[t] = "idle")
      BY <1>6 DEF Crash, Outcome
    <3>2. QED
      BY <2>1, <3>1 DEF RowsInv, Stored, Unsaved, Saving, Critical, Outcome
  <2>3. QED
    BY <2>1, <2>2 DEF RowsInv
<1>7. ASSUME UNCHANGED <<rows, pc>> PROVE RowsInv'
  BY <1>7 DEF RowsInv, Stored
<1>8. QED
  BY <1>4, <1>5, <1>6, <1>7 DEF Next, ControlStop, StopTurn, ControlCancel, vars

(* What a turn stores is never split by another turn, whatever fails and    *)
(* however often the process restarts.                                      *)
THEOREM TurnsStayWhole == Spec => []WholeTurns
<1>1. Init => RowsInv
  BY RowsInit
<1>2. Typed /\ LockInv /\ RowsInv /\ [Next]_vars => RowsInv'
  BY RowsStep
<1>3. Typed /\ RowsInv => WholeTurns
  BY LenProperties DEF Typed, TypeOK, RowsInv, WholeTurns
<1>4. QED
  BY <1>1, <1>2, <1>3, LockCorrect, PTL DEF Spec
-----------------------------------------------------------------------------
(***************************************************************************)
(* Tokens, also with objects replaced under the turns.                     *)
(***************************************************************************)
(* A token lies in the object its turn holds, and nowhere else: a turn that *)
(* clears its object leaves none, however many objects there are.           *)
Tokened == Critical \cup {"error", "panicked"}
TokenOf(t) == \A i \in 1 .. Len(objects) :
                 objects[i].token = t => held[t] = i /\ pc[t] \in Tokened
TokenInv == \A t \in Turn : TokenOf(t)

LEMMA TokenInit == Init => TokenInv
BY TurnAssumption DEF Init, TokenInv, TokenOf, NewObject

LEMMA TokenStep == Typed /\ TokenInv /\ [Next \/ Reload]_vars => TokenInv'
<1> SUFFICES ASSUME Typed, TokenInv, [Next \/ Reload]_vars PROVE TokenInv'
  OBVIOUS
<1> USE DEF store, local, stops, counts
<1>0. /\ objects \in Seq(Object) /\ Len(objects) \in Nat /\ Len(objects) > 0
      /\ NoTurn \in Holder /\ Turn \subseteq Holder /\ NoTurn \notin Turn
      /\ pc \in [Turn -> Label] /\ cancelled \subseteq Turn /\ rows \in Seq(Message)
      /\ held \in [Turn -> 0 .. Len(objects)]
      /\ \A t \in Turn : pc[t] \notin Outcome \cup {"idle"} => held[t] \in 1 .. Len(objects)
  BY TurnAssumption, LenProperties DEF Typed, TypeOK, SavingFits, LocalFits, Holder
(* Tokens are kept or taken, and no turn that may have one moves away.      *)
<1>1. ASSUME Len(objects') = Len(objects),
             \A i \in 1 .. Len(objects) : objects'[i].token \in {objects[i].token, NoTurn},
             \A t \in Turn : pc[t] \in Tokened => held'[t] = held[t] /\ pc'[t] \in Tokened
      PROVE  TokenInv'
  BY <1>0, <1>1 DEF TokenInv, TokenOf
<1>2. ASSUME NEW t \in Turn, pc[t] \notin Outcome \cup {"idle"}, Unlock(t),
             UNCHANGED held, pc' = [pc EXCEPT ![t] = "error"] \/ pc' = [pc EXCEPT ![t] = "panicked"]
      PROVE  TokenInv'
  <2>1. /\ Len(objects') = Len(objects)
        /\ \A i \in 1 .. Len(objects) : objects'[i].token = objects[i].token
    BY <1>0, <1>2, PutLock DEF Unlock
  <2>2. QED
    BY <1>0, <1>1, <1>2, <2>1 DEF Tokened
<1>3. ASSUME NEW t \in Turn, NEW m \in Message, PushMessage(m), UNCHANGED held,
             NEW l \in Critical, pc' = [pc EXCEPT ![t] = l]
      PROVE  TokenInv'
  <2>1. /\ Len(objects') = Len(objects)
        /\ \A i \in 1 .. Len(objects) : objects'[i].token = objects[i].token
    BY <1>0, <1>3, PutMessage
  <2>2. QED
    BY <1>0, <1>1, <1>3, <2>1 DEF Tokened
<1>4. ASSUME UNCHANGED <<objects, held>>, NEW t \in Turn, NEW l \in Label,
             pc' = [pc EXCEPT ![t] = l], l \in Tokened \/ pc[t] \notin Tokened
      PROVE  TokenInv'
  BY <1>0, <1>1, <1>4
<1>5. ASSUME NEW t \in Turn, Begin(t) PROVE TokenInv'
  BY <1>0, <1>1, <1>5 DEF Begin, Goto, Tokened, Critical
<1>6. ASSUME NEW t \in Turn, Lock(t) PROVE TokenInv'
  <2>1. /\ Len(objects') = Len(objects)
        /\ \A i \in 1 .. Len(objects) : objects'[i].token = objects[i].token
    BY <1>0, <1>6, PutLock DEF Lock, Goto, Outcome
  <2>2. QED
    BY <1>0, <1>1, <1>6, <2>1 DEF Lock, Goto, Tokened, Critical
<1>7. ASSUME NEW t \in Turn, SetToken(t) PROVE TokenInv'
  <2>1. /\ pc[t] = "userSaved" /\ pc' = [pc EXCEPT ![t] = "snapshot"] /\ held' = held
        /\ held[t] \in 1 .. Len(objects)
        /\ objects' = [objects EXCEPT ![held[t]].token = t]
    BY <1>0, <1>7 DEF SetToken, Goto, Outcome
  <2>2. /\ Len(objects') = Len(objects) /\ objects'[held[t]].token = t
        /\ \A i \in 1 .. Len(objects) : i # held[t] => objects'[i] = objects[i]
    BY <1>0, <2>1, PutToken
  <2>3. QED
    BY <1>0, <2>1, <2>2 DEF TokenInv, TokenOf, Tokened, Critical
<1>8. ASSUME NEW t \in Turn, Clear(t) PROVE TokenInv'
  <2>1. /\ pc[t] = "clear" /\ pc' = [pc EXCEPT ![t] = "ok"] /\ held' = held
        /\ held[t] \in 1 .. Len(objects)
        /\ objects' = [objects EXCEPT ![held[t]].lock = NoTurn, ![held[t]].token = NoTurn]
    BY <1>0, <1>8 DEF Clear, Goto, Outcome
  <2>2. /\ Len(objects') = Len(objects) /\ objects'[held[t]].token = NoTurn
        /\ \A i \in 1 .. Len(objects) : objects'[i].token \in {objects[i].token, NoTurn}
    BY <1>0, <2>1, PutBoth
  <2>3. ASSUME NEW u \in Turn, NEW i \in 1 .. Len(objects), objects'[i].token = u
        PROVE  held[u] = i /\ u # t /\ pc[u] \in Tokened
    BY <1>0, <2>2, <2>3 DEF TokenInv, TokenOf
  <2>4. QED
    BY <1>0, <2>1, <2>2, <2>3 DEF TokenInv, TokenOf
<1>9. ASSUME CancelCached, UNCHANGED <<pc, held>> PROVE TokenInv'
  <2>1. /\ Len(objects') = Len(objects)
        /\ \A i \in 1 .. Len(objects) : objects'[i].token \in {objects[i].token, NoTurn}
    BY <1>0, <1>9, CancelType
  <2>2. QED
    BY <1>1, <1>9, <2>1
<1>10. ASSUME Crash PROVE TokenInv'
  BY <1>0, <1>10 DEF Crash, NewObject, TokenInv, TokenOf
<1>11. ASSUME Reload PROVE TokenInv'
  <2>1. /\ objects' = Append(objects, NewObject(rows)) /\ UNCHANGED <<pc, held>>
        /\ NewObject(rows) \in Object /\ NewObject(rows).token = NoTurn
    BY <1>0, <1>11, NewObjectType DEF Reload, NewObject
  <2>2. /\ Len(objects') = Len(objects) + 1 /\ objects'[Len(objects) + 1].token = NoTurn
        /\ \A i \in 1 .. Len(objects) : objects'[i] = objects[i]
    BY <1>0, <2>1, AppendProperties
  <2>3. QED
    BY <1>0, <2>1, <2>2 DEF TokenInv, TokenOf
<1>12. ASSUME NEW t \in Turn, Step(t) PROVE TokenInv'
  <2>1. CASE PushUser(t)
    <3>1. <<t, 0>> \in Message
      BY TurnAssumption DEF Message
    <3>2. QED
      BY <1>3, <2>1, <3>1 DEF PushUser, Goto, Critical
  <2>2. CASE PushReply(t)
    <3>1. <<t, saved[t] + 1>> \in Message
      BY <2>2, TurnAssumption DEF PushReply, Typed, TypeOK, Message
    <3>2. QED
      BY <1>3, <2>2, <3>1 DEF PushReply, Goto, Critical
  <2>3. CASE Snapshot(t)
    <3>1. CASE Goto(t, "snapshot", "prepare") /\ UNCHANGED objects
      BY <1>4, <2>3, <3>1 DEF Snapshot, Goto, Critical, Tokened, Label
    <3>2. CASE Goto(t, "snapshot", "panicked") /\ Unlock(t)
      BY <1>2, <2>3, <3>2 DEF Snapshot, Goto, Outcome
    <3>3. QED
      BY <2>3, <3>1, <3>2 DEF Snapshot
  <2>4. CASE FailRun(t)
    BY <1>2, <2>4 DEF FailRun, Goto, Outcome
  <2>5. CASE CreateRun(t)
    BY <1>4, <2>5 DEF CreateRun, Goto, Tokened, Critical, Label
  <2>6. CASE SaveUser(t) \/ Prepare(t) \/ RunTurn(t) \/ RunFails(t) \/ SaveReply(t)
               \/ RecordUsage(t) \/ Finish(t)
    BY <1>4, <2>6 DEF SaveUser, Prepare, RunTurn, RunFails, SaveReply, RecordUsage,
                      Finish, Goto, Tokened, Critical, Label
  <2>7. QED
    BY <1>5, <1>6, <1>7, <1>8, <1>12, <2>1, <2>2, <2>3, <2>4, <2>5, <2>6 DEF Step
<1>13. ASSUME NEW t \in Turn, EarlyReturn(t) PROVE TokenInv'
  <2>1. CASE pc[t] \in Critical
    BY <1>2, <1>13, <2>1 DEF EarlyReturn, Critical, Outcome
  <2>2. CASE pc[t] \notin Critical
    BY <1>4, <1>13, <2>2 DEF EarlyReturn, Tokened, Label, Outcome
  <2>3. QED
    BY <2>1, <2>2
<1>14. ASSUME UNCHANGED <<objects, pc, held>> PROVE TokenInv'
  BY <1>14 DEF TokenInv, TokenOf
<1>15. QED
  BY <1>9, <1>10, <1>11, <1>12, <1>13, <1>14
     DEF Next, ControlStop, StopTurn, ControlCancel, vars

(* A turn that ended well, or with its process, leaves no token for a later *)
(* stop to find, even when the cache was given another object meanwhile.    *)
THEOREM TokensCleared == RacingSpec => []TokenLeft
<1>1. Init => Typed /\ TokenInv
  BY TypeInit, TokenInit
<1>2. Typed /\ TokenInv /\ [Next \/ Reload]_vars => (Typed /\ TokenInv)'
  BY TypeStep, SavingStep, TokenStep DEF Typed
<1>3. Typed /\ TokenInv => TokenLeft
  <2> SUFFICES ASSUME Typed, TokenInv, NEW i \in DOMAIN objects, objects[i].token # NoTurn
               PROVE  pc[objects[i].token] \in Tokened
    BY DEF TokenLeft, Tokened
  <2>1. i \in 1 .. Len(objects) /\ objects[i] \in Object
    BY LenProperties, ElementOfSeq DEF Typed, TypeOK
  <2>2. QED
    BY <2>1 DEF TokenInv, TokenOf, Object
<1>4. QED
  BY <1>1, <1>2, <1>3, PTL DEF RacingSpec
-----------------------------------------------------------------------------
(***************************************************************************)
(* The order of the table, also with objects replaced under the turns.      *)
(***************************************************************************)
(* What a turn has stored goes up to what it counted, and the last counted  *)
(* message is stored as long as the turn works.                            *)
Counted(t) ==
    /\ pc[t] \in Unsaved => saved[t] = 0
    /\ \A i \in 1 .. Len(rows) : rows[i][1] = t => pc[t] \notin Unsaved /\ rows[i][2] <= saved[t]
    /\ pc[t] \in Saving => \E i \in 1 .. Len(rows) : rows[i] = <<t, saved[t]>>
CountInv == InOrder /\ \A t \in Turn : Counted(t)

LEMMA CountInit == Init => CountInv
BY DEF Init, CountInv, InOrder, Counted, Unsaved, Saving, Critical

(* The next message of a turn.                                              *)
LEMMA CountRow ==
    ASSUME rows \in Seq(Message), saved \in [Turn -> Nat], saved' \in [Turn -> Nat],
           CountInv, NEW t \in Turn, NEW n \in Nat, rows' = Append(rows, <<t, n>>),
           <<t, n>> \in Message, pc \in [Turn -> Label], NEW l \in Saving,
           pc' = [pc EXCEPT ![t] = l], saved'[t] = n,
           \A u \in Turn : u # t => saved'[u] = saved[u],
           \/ pc[t] = "userRow" /\ n = 0
           \/ pc[t] = "replyRow" /\ n = saved[t] + 1
    PROVE  CountInv'
<1> DEFINE len == Len(rows)
<1>1. /\ len \in Nat /\ Len(rows') = len + 1 /\ rows'[len + 1] = <<t, n>>
      /\ \A i \in 1 .. len : rows'[i] = rows[i]
      /\ \A i \in 1 .. len : rows[i] \in Message
      /\ DOMAIN rows = 1 .. len /\ DOMAIN rows' = 1 .. len + 1
  BY LenProperties, AppendProperties, ElementOfSeq
<1>2. ASSUME NEW i \in 1 .. len, rows[i][1] = t PROVE rows[i][2] \in Nat /\ rows[i][2] < n
  <2>1. rows[i][2] \in Nat
    BY <1>1, TurnAssumption DEF Message
  <2>2. pc[t] \notin Unsaved /\ rows[i][2] <= saved[t] /\ saved[t] \in Nat
    BY <1>2 DEF CountInv, Counted
  <2>3. n = saved[t] + 1
    BY <2>2 DEF Unsaved
  <2>4. QED
    BY <2>1, <2>2, <2>3
<1>3. ASSUME n > 0 PROVE \E i \in 1 .. len : rows[i] = <<t, n - 1>>
  <2>1. n = saved[t] + 1 /\ saved[t] \in Nat /\ pc[t] = "replyRow"
    BY <1>3
  <2>2. n - 1 = saved[t]
    BY <2>1
  <2>3. PICK i \in 1 .. len : rows[i] = <<t, saved[t]>>
    BY <2>1 DEF CountInv, Counted, Saving, Critical
  <2>4. QED
    BY <2>2, <2>3
<1> HIDE DEF len
<1>4. ASSUME NEW i \in 1 .. len + 1, NEW j \in 1 .. len + 1, i < j, rows'[i][1] = rows'[j][1]
      PROVE  rows'[i][2] < rows'[j][2]
  <2>1. CASE j \in 1 .. len
    <3>1. i \in 1 .. len
      BY <1>1, <1>4, <2>1
    <3>2. QED
      BY <1>1, <1>4, <2>1, <3>1 DEF CountInv, InOrder
  <2>2. CASE j = len + 1
    <3>1. i \in 1 .. len /\ rows[i][1] = t
      BY <1>1, <1>4, <2>2
    <3>2. QED
      BY <1>1, <1>2, <2>2, <3>1
  <2>3. QED
    BY <1>1, <2>1, <2>2
<1>5. ASSUME NEW i \in 1 .. len + 1, rows'[i][2] > 0
      PROVE  \E j \in 1 .. i - 1 : rows'[j] = <<rows'[i][1], rows'[i][2] - 1>>
  <2>1. CASE i \in 1 .. len
    <3>1. PICK j \in 1 .. i - 1 : rows[j] = <<rows[i][1], rows[i][2] - 1>>
      BY <1>1, <1>5, <2>1 DEF CountInv, InOrder
    <3>2. j \in 1 .. len /\ j \in 1 .. i - 1
      BY <1>1, <2>1
    <3>3. QED
      BY <1>1, <2>1, <3>1, <3>2
  <2>2. CASE i = len + 1
    <3>1. rows'[i][1] = t /\ rows'[i][2] = n /\ i - 1 = len
      BY <1>1, <2>2
    <3>2. PICK j \in 1 .. len : rows[j] = <<t, n - 1>>
      BY <1>3, <1>5, <3>1
    <3>3. QED
      BY <1>1, <3>1, <3>2
  <2>3. i \in 1 .. len \/ i = len + 1
    BY <1>1
  <2>4. QED
    BY <2>1, <2>2, <2>3
<1>6. InOrder'
  BY <1>1, <1>4, <1>5 DEF InOrder
<1>7. ASSUME NEW u \in Turn PROVE Counted(u)'
  <2>1. CASE u = t
    <3>1. pc'[t] = l /\ l \notin Unsaved
      BY DEF Saving, Critical, Unsaved
    <3>2. \A i \in 1 .. len + 1 : rows'[i][1] = t => rows'[i][2] <= n
      BY <1>1, <1>2
    <3>3. len + 1 \in 1 .. len + 1 /\ rows'[len + 1] = <<t, saved'[t]>>
      BY <1>1
    <3>4. QED
      BY <1>1, <2>1, <3>1, <3>2, <3>3 DEF Counted
  <2>2. CASE u # t
    <3>1. pc'[u] = pc[u] /\ saved'[u] = saved[u] /\ Counted(u)
      BY <2>2 DEF CountInv
    <3>2. rows'[len + 1][1] # u
      BY <1>1, <2>2
    <3>3. pc[u] \in Saving => \E i \in 1 .. len : rows[i] = <<u, saved[u]>>
      BY <3>1 DEF Counted, len
    <3>4. \A i \in 1 .. len : rows[i][1] = u => pc[u] \notin Unsaved /\ rows[i][2] <= saved[u]
      BY <3>1 DEF Counted, len
    <3>5. \A i \in 1 .. len + 1 : i # len + 1 => i \in 1 .. len
      BY <1>1
    <3>6. ASSUME pc'[u] \in Saving PROVE \E i \in 1 .. len + 1 : rows'[i] = <<u, saved'[u]>>
      <4>1. PICK i \in 1 .. len : rows[i] = <<u, saved[u]>>
        BY <3>1, <3>3, <3>6
      <4>2. i \in 1 .. len + 1 /\ rows'[i] = <<u, saved'[u]>>
        BY <1>1, <3>1, <4>1
      <4>3. QED
        BY <4>2
    <3>7. \A i \in 1 .. len + 1 : rows'[i][1] = u => pc'[u] \notin Unsaved /\ rows'[i][2] <= saved'[u]
      BY <1>1, <3>1, <3>2, <3>4, <3>5
    <3>8. QED
      BY <1>1, <3>1, <3>6, <3>7 DEF Counted
  <2>3. QED
    BY <2>1, <2>2
<1>8. QED
  BY <1>6, <1>7 DEF CountInv

LEMMA CountStep == Typed /\ CountInv /\ [Next \/ Reload]_vars => CountInv'
<1> SUFFICES ASSUME Typed, CountInv, [Next \/ Reload]_vars PROVE CountInv'
  OBVIOUS
<1> USE DEF store, local, stops, counts
<1>0. /\ rows \in Seq(Message) /\ pc \in [Turn -> Label]
      /\ saved \in [Turn -> 0 .. MaxReplies] /\ MaxReplies \in Nat
      /\ saved \in [Turn -> Nat]
  <2>1. rows \in Seq(Message) /\ pc \in [Turn -> Label] /\ MaxReplies \in Nat
        /\ saved \in [Turn -> 0 .. MaxReplies]
    BY TurnAssumption DEF Typed, TypeOK
  <2>2. QED
    BY <2>1
<1>1. ASSUME NEW t \in Turn, SaveUser(t) PROVE CountInv'
  <2>1. <<t, 0>> \in Message
    BY <1>0 DEF Message
  <2>2. saved'[t] = 0
    BY <1>1 DEF SaveUser, Goto, CountInv, Counted, Unsaved
  <2>3. QED
    BY <1>0, <1>1, <2>1, <2>2, CountRow DEF SaveUser, SaveMessage, Goto, Saving, Critical
<1>2. ASSUME NEW t \in Turn, SaveReply(t) PROVE CountInv'
  <2>1. saved[t] < reply[t] /\ reply[t] \in 0 .. MaxReplies
    BY <1>2 DEF SaveReply, Goto, Typed, TypeOK, SavingFits, LocalFits
  <2>2. <<t, saved[t] + 1>> \in Message /\ saved[t] + 1 \in Nat
    BY <1>0, <2>1 DEF Message
  <2>3. /\ saved' \in [Turn -> Nat] /\ saved'[t] = saved[t] + 1
        /\ \A u \in Turn : u # t => saved'[u] = saved[u]
    BY <1>0, <1>2, <2>2 DEF SaveReply
  <2>4. pc[t] = "replyRow" /\ pc' = [pc EXCEPT ![t] = "reply"] /\ "reply" \in Saving
        /\ rows' = Append(rows, <<t, saved[t] + 1>>)
    BY <1>2 DEF SaveReply, SaveMessage, Goto, Saving, Critical
  <2>5. QED
    BY <1>0, <2>2, <2>3, <2>4, CountRow
(* A turn that moves and stores nothing.                                    *)
<1>3. ASSUME UNCHANGED <<rows, saved>>, NEW t \in Turn, NEW l \in Label,
             pc' = [pc EXCEPT ![t] = l],
             \/ l \in Outcome
             \/ l \in Unsaved /\ pc[t] \in Unsaved
             \/ l \in Saving /\ pc[t] \in Saving
      PROVE  CountInv'
  <2>1. ASSUME NEW u \in Turn PROVE Counted(u)'
    BY <1>0, <1>3 DEF CountInv, Counted, Unsaved, Saving, Critical, Outcome
  <2>2. QED
    BY <1>3, <2>1 DEF CountInv, InOrder
<1>4. ASSUME NEW t \in Turn, Step(t) PROVE CountInv'
  <2>1. CASE Begin(t) \/ CreateRun(t) \/ Lock(t) \/ PushUser(t)
    BY <1>3, <2>1 DEF Begin, CreateRun, Lock, PushUser, Goto, Unsaved, Label, Critical
  <2>2. CASE SetToken(t) \/ Prepare(t) \/ RunTurn(t) \/ RunFails(t) \/ PushReply(t)
               \/ RecordUsage(t) \/ Finish(t)
    BY <1>3, <2>2 DEF SetToken, Prepare, RunTurn, RunFails, PushReply, RecordUsage, Finish,
                      Goto, Saving, Label, Critical
  <2>3. CASE FailRun(t) \/ Clear(t)
    BY <1>3, <2>3 DEF FailRun, Clear, Goto, Outcome, Label
  <2>4. CASE Snapshot(t)
    <3>1. /\ UNCHANGED <<rows, saved>>
          /\ Goto(t, "snapshot", "prepare") \/ Goto(t, "snapshot", "panicked")
      BY <2>4 DEF Snapshot
    <3>2. QED
      BY <1>3, <3>1 DEF Goto, Outcome, Label, Saving, Critical
  <2>5. QED
    BY <1>1, <1>2, <1>4, <2>1, <2>2, <2>3, <2>4 DEF Step
<1>5. ASSUME NEW t \in Turn, EarlyReturn(t) PROVE CountInv'
  BY <1>3, <1>5 DEF EarlyReturn, Outcome, Label
<1>6. ASSUME Crash PROVE CountInv'
  <2>1. UNCHANGED <<rows, saved>>
    BY <1>6 DEF Crash
  <2>2. ASSUME NEW t \in Turn PROVE Counted(t)'
    <3>1. pc'[t] \in Outcome \/ (pc'[t] = pc[t] /\ pc[t] = "idle")
      BY <1>6 DEF Crash, Outcome
    <3>2. QED
      BY <2>1, <3>1 DEF CountInv, Counted, Unsaved, Saving, Critical, Outcome
  <2>3. QED
    BY <2>1, <2>2 DEF CountInv, InOrder
<1>7. ASSUME UNCHANGED <<rows, pc, saved>> PROVE CountInv'
  BY <1>7 DEF CountInv, InOrder, Counted
<1>8. QED
  BY <1>4, <1>5, <1>6, <1>7 DEF Next, ControlStop, StopTurn, ControlCancel, Reload, vars

(* What is stored of a turn is a prefix of it in order, even when its       *)
(* messages went through two objects of the session.                       *)
THEOREM TurnsStayInOrder == RacingSpec => []InOrder
<1>1. Init => Typed /\ CountInv
  BY TypeInit, CountInit
<1>2. Typed /\ CountInv /\ [Next \/ Reload]_vars => (Typed /\ CountInv)'
  BY TypeStep, SavingStep, CountStep DEF Typed
<1>3. CountInv => InOrder
  BY DEF CountInv
<1>4. QED
  BY <1>1, <1>2, <1>3, PTL DEF RacingSpec
-----------------------------------------------------------------------------
(***************************************************************************)
(* What the runtime is given.                                              *)
(***************************************************************************)
LEMMA BeforeSeq ==
    ASSUME NEW h \in Seq(Message), Len(h) > 0
    PROVE  /\ Before(h) \in Seq(Message) /\ DOMAIN Before(h) = 1 .. Len(h) - 1
           /\ \A i \in 1 .. Len(h) - 1 : Before(h)[i] = h[i]
<1>1. Len(h) \in Nat
  BY LenProperties
<1>2. Before(h) = [i \in 1 .. Len(h) - 1 |-> h[i]] /\ Before(h) \in Seq(Message)
  BY <1>1, SubSeqProperties, ElementOfSeq DEF Before
<1>3. QED
  BY <1>2

(* A history goes on recalling when a message comes that it does not have.  *)
LEMMA RecallsPush ==
    ASSUME NEW h \in Seq(Message), NEW s \in Seq(Message), NEW m \in Message,
           Recalls(h, s), \A k \in 1 .. Len(h) : h[k] # m
    PROVE  Recalls(Append(h, m), s)
<1> DEFINE n == Len(h)
           g == Append(h, m)
<1>1. /\ n \in Nat /\ DOMAIN h = 1 .. n /\ DOMAIN g = 1 .. n + 1
      /\ g[n + 1] = m /\ \A k \in 1 .. n : g[k] = h[k]
  BY LenProperties, AppendProperties
<1> HIDE DEF n, g
<1>2. \A k \in 1 .. n + 1 : k \in 1 .. n \/ k = n + 1
  BY <1>1
<1>3. \A i \in DOMAIN s : s[i] # m
  BY <1>1 DEF Recalls, n
<1>4. \A k, l \in DOMAIN g : g[k] = g[l] => k = l
  BY <1>1, <1>2 DEF Recalls, n
<1>5. \A i \in DOMAIN s : \E k \in DOMAIN g : g[k] = s[i]
  <2> TAKE i \in DOMAIN s
  <2>1. PICK k \in DOMAIN h : h[k] = s[i]
    BY DEF Recalls
  <2>2. k \in DOMAIN g /\ g[k] = s[i]
    BY <1>1, <2>1
  <2>3. QED
    BY <2>2
<1>6. ASSUME NEW i \in DOMAIN s, NEW j \in DOMAIN s, i < j,
             NEW k \in DOMAIN g, NEW l \in DOMAIN g, g[k] = s[i], g[l] = s[j]
      PROVE  k < l
  <2>1. k \in DOMAIN h /\ l \in DOMAIN h
    BY <1>1, <1>2, <1>3, <1>6
  <2>2. h[k] = s[i] /\ h[l] = s[j]
    BY <1>1, <1>6, <2>1
  <2>3. QED
    BY <1>6, <2>1, <2>2 DEF Recalls
<1>7. QED
  BY <1>4, <1>5, <1>6 DEF Recalls, g

(* It recalls its last message when that is saved.                          *)
LEMMA RecallsSave ==
    ASSUME NEW h \in Seq(Message), NEW s \in Seq(Message), NEW m \in Message,
           Recalls(h, s), Len(h) > 0, h[Len(h)] = m, \A i \in 1 .. Len(s) : s[i] # m
    PROVE  Recalls(h, Append(s, m))
<1> DEFINE n == Len(s)
           r == Append(s, m)
           last == Len(h)
<1>1. /\ n \in Nat /\ DOMAIN s = 1 .. n /\ DOMAIN r = 1 .. n + 1
      /\ r[n + 1] = m /\ \A i \in 1 .. n : r[i] = s[i]
      /\ last \in Nat /\ DOMAIN h = 1 .. last /\ last \in DOMAIN h /\ h[last] = m
      /\ \A i \in 1 .. n : s[i] # m
  BY LenProperties, AppendProperties
<1> HIDE DEF n, r, last
<1>2. \A i \in 1 .. n + 1 : i \in 1 .. n \/ i = n + 1
  BY <1>1
<1>3. \A k, l \in DOMAIN h : h[k] = h[l] => k = l
  BY DEF Recalls
<1>4. \A i \in DOMAIN r : \E k \in DOMAIN h : h[k] = r[i]
  <2> TAKE i \in DOMAIN r
  <2>1. CASE i = n + 1
    BY <1>1, <2>1
  <2>2. CASE i \in 1 .. n
    BY <1>1, <2>2 DEF Recalls
  <2>3. QED
    BY <1>1, <1>2, <2>1, <2>2
<1>5. ASSUME NEW i \in DOMAIN r, NEW j \in DOMAIN r, i < j,
             NEW k \in DOMAIN h, NEW l \in DOMAIN h, h[k] = r[i], h[l] = r[j]
      PROVE  k < l
  <2>1. i \in 1 .. n /\ h[k] = s[i]
    BY <1>1, <1>2, <1>5
  <2>2. CASE j \in 1 .. n
    BY <1>1, <1>5, <2>1, <2>2 DEF Recalls
  <2>3. CASE j = n + 1
    <3>1. l = last /\ k # last
      BY <1>1, <1>3, <1>5, <2>1, <2>3
    <3>2. QED
      BY <1>1, <3>1
  <2>4. QED
    BY <1>1, <1>2, <2>2, <2>3
<1>6. QED
  BY <1>3, <1>4, <1>5 DEF Recalls, r

(* What can be recalled recalls itself.                                     *)
LEMMA RecallsSelf ==
    ASSUME NEW h \in Seq(Message), NEW s \in Seq(Message), Recalls(h, s)
    PROVE  Recalls(s, s)
<1>1. DOMAIN s = 1 .. Len(s) /\ Len(s) \in Nat /\ DOMAIN h = 1 .. Len(h) /\ Len(h) \in Nat
  BY LenProperties
<1>2. ASSUME NEW i \in DOMAIN s, NEW j \in DOMAIN s, i < j PROVE s[i] # s[j]
  <2>1. PICK k \in DOMAIN h : h[k] = s[i]
    BY DEF Recalls
  <2>2. s[i] = s[j] => k < k
    BY <1>2, <2>1 DEF Recalls
  <2>3. QED
    BY <1>1, <2>1, <2>2
<1>3. \A i, j \in DOMAIN s : s[i] = s[j] => i = j
  <2> SUFFICES ASSUME NEW i \in DOMAIN s, NEW j \in DOMAIN s, s[i] = s[j], i # j
               PROVE  FALSE
    OBVIOUS
  <2>1. i < j \/ j < i
    BY <1>1
  <2>2. QED
    BY <1>2, <2>1
<1>4. QED
  BY <1>1, <1>3 DEF Recalls

(* What ends with the last message recalls, before it, all the others.      *)
LEMMA RecallsBefore ==
    ASSUME NEW h \in Seq(Message), NEW s \in Seq(Message), Recalls(h, s),
           Len(h) > 0, Len(s) > 0, h[Len(h)] = s[Len(s)]
    PROVE  Recalls(Before(h), Before(s))
<1> DEFINE n == Len(s)
           last == Len(h)
           b == Before(h)
           r == Before(s)
<1>1. /\ n \in Nat /\ n \in DOMAIN s /\ DOMAIN s = 1 .. n /\ DOMAIN r = 1 .. n - 1
      /\ \A i \in 1 .. n - 1 : r[i] = s[i]
      /\ last \in Nat /\ last \in DOMAIN h /\ DOMAIN h = 1 .. last /\ DOMAIN b = 1 .. last - 1
      /\ \A k \in 1 .. last - 1 : b[k] = h[k]
      /\ h[last] = s[n]
  BY LenProperties, BeforeSeq
<1> HIDE DEF n, last, b, r
<1>2. /\ \A i \in DOMAIN r : i \in DOMAIN s /\ r[i] = s[i] /\ i < n
      /\ \A k \in DOMAIN b : k \in DOMAIN h /\ b[k] = h[k]
  BY <1>1
<1>3. \A k, l \in DOMAIN b : b[k] = b[l] => k = l
  BY <1>2 DEF Recalls
<1>4. \A i \in DOMAIN r : \E k \in DOMAIN b : b[k] = r[i]
  <2> TAKE i \in DOMAIN r
  <2>1. PICK k \in DOMAIN h : h[k] = s[i]
    BY <1>2 DEF Recalls
  <2>2. k < last
    BY <1>1, <1>2, <2>1 DEF Recalls
  <2>3. k \in DOMAIN b
    BY <1>1, <2>2
  <2>4. QED
    BY <1>2, <2>1, <2>3
<1>5. \A i, j \in DOMAIN r : i < j =>
         \A k, l \in DOMAIN b : b[k] = r[i] /\ b[l] = r[j] => k < l
  BY <1>2 DEF Recalls
<1>6. QED
  BY <1>3, <1>4, <1>5 DEF Recalls, b, r

(* The history recalls the table; a turn that has appended nothing is not   *)
(* in it, and what a turn has appended and not saved yet comes last.        *)
History == objects[1].history
Early   == {"idle", "create", "lock", "user"}
Asked   == {"userRow", "userSaved", "snapshot"}
Heard(t) ==
    /\ pc[t] \in Early => \A k \in 1 .. Len(History) : History[k][1] # t
    /\ pc[t] \in Asked => /\ Len(History) > 0 /\ History[Len(History)] = <<t, 0>>
                         /\ \A k \in 1 .. Len(History) - 1 : History[k][1] # t
    /\ pc[t] \in {"userSaved", "snapshot"} => Len(rows) > 0 /\ rows[Len(rows)] = <<t, 0>>
    /\ pc[t] \in {"prepare", "run", "reply"} =>
          \A k \in 1 .. Len(History) : History[k][1] = t => History[k][2] <= saved[t]
    /\ pc[t] = "replyRow" =>
          /\ Len(History) > 0 /\ History[Len(History)] = <<t, saved[t] + 1>>
          /\ \A k \in 1 .. Len(History) : History[k][1] = t => History[k][2] <= saved[t] + 1
Given(t) == pc[t] \in {"prepare", "run"} =>
    /\ \A i \in DOMAIN base[t] : base[t][i][1] # t
    /\ Recalls(base[t], Before(rows))
HistoryInv == /\ Recalls(History, rows)
              /\ \A t \in Turn : Heard(t) /\ Given(t)

LEMMA HistoryInit == Init => HistoryInv
BY DEF Init, HistoryInv, History, Recalls, Heard, Given, NewObject, Asked

LEMMA HistoryType ==
    ASSUME Typed, LockInv
    PROVE  /\ objects \in Seq(Object) /\ Len(objects) = 1 /\ 1 \in 1 .. Len(objects)
           /\ History \in Seq(Message) /\ Len(History) \in Nat
           /\ DOMAIN History = 1 .. Len(History)
           /\ rows \in Seq(Message) /\ Len(rows) \in Nat /\ DOMAIN rows = 1 .. Len(rows)
           /\ pc \in [Turn -> Label] /\ saved \in [Turn -> Nat]
<1>1. /\ objects \in Seq(Object) /\ Len(objects) = 1 /\ 1 \in 1 .. Len(objects)
      /\ rows \in Seq(Message) /\ pc \in [Turn -> Label]
      /\ saved \in [Turn -> 0 .. MaxReplies] /\ MaxReplies \in Nat
  BY TurnAssumption DEF Typed, TypeOK, LockInv, OneObject
<1>2. History \in Seq(Message)
  <2>1. objects[1] \in Object
    BY <1>1, ElementOfSeq
  <2>2. QED
    BY <2>1 DEF History, Object
<1>3. saved \in [Turn -> Nat]
  BY <1>1
<1>4. /\ Len(History) \in Nat /\ DOMAIN History = 1 .. Len(History)
      /\ Len(rows) \in Nat /\ DOMAIN rows = 1 .. Len(rows)
  BY <1>1, <1>2, LenProperties
<1>5. QED
  BY <1>1, <1>2, <1>3, <1>4

(* A turn appends a message of its own that the history does not have.      *)
LEMMA HistoryPush ==
    ASSUME Typed, LockInv, HistoryInv, NEW t \in Turn, NEW n \in Nat, <<t, n>> \in Message,
           PushMessage(<<t, n>>), UNCHANGED <<rows, saved, base>>,
           \A k \in 1 .. Len(History) : History[k] # <<t, n>>,
           \/ /\ pc[t] = "user" /\ pc' = [pc EXCEPT ![t] = "userRow"] /\ n = 0
           \/ /\ pc[t] = "reply" /\ pc' = [pc EXCEPT ![t] = "replyRow"] /\ n = saved[t] + 1
    PROVE  HistoryInv'
<1> DEFINE len == Len(History)
<1>0. /\ objects \in Seq(Object) /\ Len(objects) = 1 /\ History \in Seq(Message)
      /\ rows \in Seq(Message) /\ pc \in [Turn -> Label] /\ saved \in [Turn -> Nat]
      /\ len \in Nat
  BY HistoryType
<1>1. History' = Append(History, <<t, n>>)
  BY <1>0, PutMessage DEF History
<1>2. /\ Len(History') = len + 1 /\ History'[len + 1] = <<t, n>>
      /\ \A k \in 1 .. len : History'[k] = History[k]
  BY <1>0, <1>1, AppendProperties
<1>3. Recalls(History', rows')
  BY <1>0, <1>1, RecallsPush DEF HistoryInv
<1> HIDE DEF len
<1>4. ASSUME NEW u \in Turn PROVE Heard(u)' /\ Given(u)'
  <2>1. CASE u # t
    <3>1. pc'[u] = pc[u] /\ pc[u] \notin Critical
      BY <1>0, <2>1 DEF LockInv, Locked, Critical
    <3>2. Given(u)'
      BY <3>1 DEF Given, Critical
    <3>3. ASSUME pc[u] \in Early, NEW k \in 1 .. len + 1 PROVE History'[k][1] # u
      <4>1. CASE k = len + 1
        BY <1>2, <2>1, <4>1
      <4>2. CASE k \in 1 .. len
        BY <1>2, <3>3, <4>2 DEF HistoryInv, Heard, len
      <4>3. QED
        BY <1>0, <4>1, <4>2
    <3>4. QED
      BY <1>2, <3>1, <3>2, <3>3 DEF Heard, Critical, Asked
  <2>2. CASE u = t /\ pc[t] = "user"
    <3>1. pc'[t] = "userRow" /\ n = 0
      BY <1>0, <2>2
    <3>2. \A k \in 1 .. len : History'[k][1] # t
      BY <1>2, <2>2 DEF HistoryInv, Heard, Early, len
    <3>3. (len + 1) - 1 = len /\ len + 1 > 0
      BY <1>0
    <3>4. QED
      BY <1>2, <2>2, <3>1, <3>2, <3>3 DEF Heard, Given, Asked, Early
  <2>3. CASE u = t /\ pc[t] = "reply"
    <3>1. pc'[t] = "replyRow" /\ n = saved[t] + 1 /\ saved'[t] = saved[t] /\ saved[t] \in Nat
      BY <1>0, <2>3
    <3>2. ASSUME NEW k \in 1 .. len + 1, History'[k][1] = t PROVE History'[k][2] <= saved[t] + 1
      <4>1. CASE k = len + 1
        BY <1>2, <3>1, <4>1
      <4>2. CASE k \in 1 .. len
        <5>1. History[k] \in Message /\ History'[k] = History[k]
          BY <1>0, <1>2, <4>2, ElementOfSeq DEF len
        <5>2. History[k][2] \in Nat /\ History[k][2] <= saved[t]
          BY <2>3, <3>2, <4>2, <5>1, TurnAssumption DEF HistoryInv, Heard, Message, len
        <5>3. QED
          BY <3>1, <5>1, <5>2
      <4>3. QED
        BY <1>0, <4>1, <4>2
    <3>3. len + 1 > 0 /\ History'[len + 1] = <<t, saved'[t] + 1>>
      BY <1>0, <1>2, <3>1
    <3>4. QED
      BY <1>2, <2>3, <3>1, <3>2, <3>3 DEF Heard, Given, Asked, Early
  <2>4. QED
    BY <2>1, <2>2, <2>3
<1>5. QED
  BY <1>3, <1>4 DEF HistoryInv

(* It saves the message it appended last.                                   *)
LEMMA HistorySave ==
    ASSUME Typed, LockInv, RowsInv, CountInv, HistoryInv, NEW t \in Turn, NEW n \in Nat,
           <<t, n>> \in Message, SaveMessage(<<t, n>>), UNCHANGED <<objects, base>>,
           saved' \in [Turn -> Nat],
           \/ /\ pc[t] = "userRow" /\ pc' = [pc EXCEPT ![t] = "userSaved"] /\ n = 0
           \/ /\ pc[t] = "replyRow" /\ pc' = [pc EXCEPT ![t] = "reply"]
              /\ n = saved[t] + 1 /\ saved'[t] = n
    PROVE  HistoryInv'
<1> DEFINE len == Len(rows)
<1>0. /\ History \in Seq(Message) /\ rows \in Seq(Message) /\ pc \in [Turn -> Label]
      /\ saved \in [Turn -> Nat] /\ len \in Nat /\ Len(History) \in Nat
  BY HistoryType
<1>1. /\ rows' = Append(rows, <<t, n>>) /\ UNCHANGED History
      /\ Len(rows') = len + 1 /\ rows'[len + 1] = <<t, n>>
  BY <1>0, AppendProperties DEF SaveMessage, History
<1>2. Len(History) > 0 /\ History[Len(History)] = <<t, n>>
  BY DEF HistoryInv, Heard, Asked
<1>3. ASSUME NEW i \in 1 .. len, rows[i] = <<t, n>> PROVE FALSE
  <2>1. rows[i][1] = t /\ rows[i][2] = n
    BY <1>3
  <2>2. pc[t] \notin Unsaved /\ n <= saved[t]
    BY <2>1 DEF CountInv, Counted
  <2>3. QED
    BY <1>0, <2>2 DEF Unsaved
<1>4. Recalls(History', rows')
  BY <1>0, <1>1, <1>2, <1>3, RecallsSave DEF HistoryInv
<1> HIDE DEF len
<1>5. ASSUME NEW u \in Turn PROVE Heard(u)' /\ Given(u)'
  <2>1. CASE u # t
    <3>1. pc'[u] = pc[u] /\ pc[u] \notin Critical
      BY <1>0, <2>1 DEF LockInv, Locked, Critical
    <3>2. QED
      BY <1>1, <3>1 DEF HistoryInv, Heard, Given, Critical, Asked, Early
  <2>2. CASE u = t /\ pc[t] = "userRow"
    <3>1. pc'[t] = "userSaved" /\ n = 0 /\ len + 1 > 0
      BY <1>0, <2>2
    <3>2. QED
      BY <1>1, <2>2, <3>1 DEF HistoryInv, Heard, Given, Asked, Early
  <2>3. CASE u = t /\ pc[t] = "replyRow"
    <3>1. pc'[t] = "reply" /\ saved'[t] = saved[t] + 1
      BY <1>0, <2>3
    <3>2. QED
      BY <1>1, <2>3, <3>1 DEF HistoryInv, Heard, Given, Asked, Early
  <2>4. QED
    BY <2>1, <2>2, <2>3
<1>6. QED
  BY <1>4, <1>5 DEF HistoryInv

LEMMA HistoryStep ==
    Typed /\ LockInv /\ RowsInv /\ CountInv /\ HistoryInv /\ [Next]_vars => HistoryInv'
<1> SUFFICES ASSUME Typed, LockInv, RowsInv, CountInv, HistoryInv, [Next]_vars
             PROVE  HistoryInv'
  OBVIOUS
<1> USE DEF store, local, stops, counts
<1>0. /\ objects \in Seq(Object) /\ Len(objects) = 1 /\ 1 \in 1 .. Len(objects)
      /\ Len(objects) > 0 /\ NoTurn \in Holder /\ Turn \subseteq Holder
      /\ History \in Seq(Message) /\ rows \in Seq(Message)
      /\ Len(History) \in Nat /\ DOMAIN History = 1 .. Len(History)
      /\ pc \in [Turn -> Label] /\ saved \in [Turn -> Nat] /\ cancelled \subseteq Turn
      /\ \A t \in Turn : pc[t] \notin Outcome \cup {"idle"} => held[t] = 1
  BY HistoryType
     DEF Typed, TypeOK, SavingFits, LocalFits, LockInv, OneObject, Holder
(* A turn that moves on, with no message.                                   *)
<1>1. ASSUME UNCHANGED <<History, rows, saved, base>>, NEW t \in Turn, NEW l \in Label,
             pc' = [pc EXCEPT ![t] = l],
             \/ l \in Outcome \cup {"failing", "finish", "clear"}
             \/ l \in Early /\ pc[t] \in Early
             \/ l = "snapshot" /\ pc[t] = "userSaved"
             \/ l \in {"run", "reply"} /\ pc[t] \in {"prepare", "run"}
      PROVE  HistoryInv'
  <2>1. ASSUME NEW u \in Turn PROVE Heard(u)' /\ Given(u)'
    <3>1. Heard(u) /\ Given(u) /\ (u # t => pc'[u] = pc[u]) /\ (u = t => pc'[u] = l)
      BY <1>0, <1>1 DEF HistoryInv
    <3>2. Heard(u)'
      BY <1>1, <3>1 DEF Heard, Early, Asked, Outcome
    <3>3. Given(u)'
      BY <1>1, <3>1 DEF Given, Early, Outcome
    <3>4. QED
      BY <3>2, <3>3
  <2>2. QED
    BY <1>1, <2>1 DEF HistoryInv
<1>2. ASSUME NEW t \in Turn, pc[t] \in Critical, Unlock(t), UNCHANGED <<rows, saved, base>>,
             NEW l \in Outcome, pc' = [pc EXCEPT ![t] = l]
      PROVE  HistoryInv'
  <2>1. held[t] = 1 /\ objects' = [objects EXCEPT ![1].lock = NoTurn] /\ l \in Label
    BY <1>0, <1>2 DEF Unlock, Critical, Outcome, Label
  <2>2. UNCHANGED History
    BY <1>0, <2>1, PutLock DEF History
  <2>3. QED
    BY <1>1, <1>2, <2>1, <2>2
<1>3. ASSUME CancelCached, UNCHANGED <<rows, saved, base, pc>> PROVE HistoryInv'
  <2>1. UNCHANGED History
    BY <1>0, <1>3, CancelType DEF History
  <2>2. QED
    BY <1>3, <2>1 DEF HistoryInv, Heard, Given
<1>4. ASSUME UNCHANGED <<objects, rows, saved, base, pc>> PROVE HistoryInv'
  BY <1>4 DEF HistoryInv, Heard, Given, History
<1>5. ASSUME NEW t \in Turn, Lock(t) PROVE HistoryInv'
  <2>1. held[t] = 1 /\ objects' = [objects EXCEPT ![1].lock = t]
    BY <1>0, <1>5 DEF Lock, Goto, Outcome
  <2>2. UNCHANGED History
    BY <1>0, <2>1, PutLock DEF History
  <2>3. QED
    BY <1>1, <1>5, <2>2 DEF Lock, Goto, Early, Label, Critical
<1>6. ASSUME NEW t \in Turn, SetToken(t) PROVE HistoryInv'
  <2>1. held[t] = 1 /\ objects' = [objects EXCEPT ![1].token = t]
    BY <1>0, <1>6 DEF SetToken, Goto, Outcome
  <2>2. UNCHANGED History
    BY <1>0, <2>1, PutToken DEF History
  <2>3. QED
    BY <1>1, <1>6, <2>2 DEF SetToken, Goto, Label, Critical
<1>7. ASSUME NEW t \in Turn, Clear(t) PROVE HistoryInv'
  <2>1. held[t] = 1 /\ objects' = [objects EXCEPT ![1].lock = NoTurn, ![1].token = NoTurn]
    BY <1>0, <1>7 DEF Clear, Goto, Outcome
  <2>2. UNCHANGED History
    BY <1>0, <2>1, PutBoth DEF History
  <2>3. QED
    BY <1>1, <1>7, <2>2 DEF Clear, Goto, Label, Outcome
<1>8. ASSUME NEW t \in Turn, PushUser(t) PROVE HistoryInv'
  <2>1. <<t, 0>> \in Message
    BY TurnAssumption DEF Message
  <2>2. \A k \in 1 .. Len(History) : History[k] # <<t, 0>>
    BY <1>8 DEF PushUser, Goto, HistoryInv, Heard, Early
  <2>3. QED
    BY <1>8, <2>1, <2>2, HistoryPush DEF PushUser, Goto
<1>9. ASSUME NEW t \in Turn, PushReply(t) PROVE HistoryInv'
  <2>1. <<t, saved[t] + 1>> \in Message /\ saved[t] \in Nat /\ saved[t] + 1 \in Nat
    BY <1>0, <1>9, TurnAssumption DEF PushReply, Typed, TypeOK, Message
  <2>2. ASSUME NEW k \in 1 .. Len(History), History[k] = <<t, saved[t] + 1>> PROVE FALSE
    <3>1. History[k][1] = t /\ History[k][2] = saved[t] + 1 /\ pc[t] = "reply"
      BY <1>9, <2>2 DEF PushReply, Goto
    <3>2. saved[t] + 1 <= saved[t]
      BY <3>1 DEF HistoryInv, Heard
    <3>3. QED
      BY <2>1, <3>2
  <2>3. QED
    BY <1>9, <2>1, <2>2, HistoryPush DEF PushReply, Goto
<1>10. ASSUME NEW t \in Turn, SaveUser(t) PROVE HistoryInv'
  <2>1. <<t, 0>> \in Message
    BY TurnAssumption DEF Message
  <2>2. QED
    BY <1>0, <1>10, <2>1, HistorySave DEF SaveUser, Goto
<1>11. ASSUME NEW t \in Turn, SaveReply(t) PROVE HistoryInv'
  <2>1. saved[t] < reply[t] /\ reply[t] \in 0 .. MaxReplies
    BY <1>11 DEF SaveReply, Goto, Typed, TypeOK, SavingFits, LocalFits
  <2>2. <<t, saved[t] + 1>> \in Message /\ saved[t] + 1 \in Nat
    BY <1>0, <2>1, TurnAssumption DEF Message
  <2>3. saved' \in [Turn -> Nat] /\ saved'[t] = saved[t] + 1
    BY <1>0, <1>11, <2>2 DEF SaveReply
  <2>4. /\ pc[t] = "replyRow" /\ pc' = [pc EXCEPT ![t] = "reply"]
        /\ SaveMessage(<<t, saved[t] + 1>>) /\ UNCHANGED <<objects, base>>
    BY <1>11 DEF SaveReply, Goto
  <2>5. QED
    BY <2>2, <2>3, <2>4, HistorySave
<1>12. ASSUME NEW t \in Turn, Snapshot(t) PROVE HistoryInv'
  <2>1. pc[t] = "snapshot" /\ held[t] = 1 /\ UNCHANGED <<rows, saved>>
    BY <1>0, <1>12 DEF Snapshot, Outcome
  <2>2. /\ Len(History) > 0 /\ History[Len(History)] = <<t, 0>>
        /\ \A k \in 1 .. Len(History) - 1 : History[k][1] # t
        /\ Len(rows) > 0 /\ rows[Len(rows)] = <<t, 0>>
    BY <2>1 DEF HistoryInv, Heard, Asked
  <2>3. History # <<>>
    BY <1>0, <2>2, EmptySeq
  <2>4. /\ base' = [base EXCEPT ![t] = Before(History)] /\ UNCHANGED objects
        /\ pc' = [pc EXCEPT ![t] = "prepare"] /\ UNCHANGED History
    BY <1>12, <2>1, <2>3 DEF Snapshot, Goto, History
  <2>5. Recalls(Before(History), Before(rows))
    BY <1>0, <2>2, RecallsBefore DEF HistoryInv
  <2>6. \A i \in DOMAIN Before(History) : Before(History)[i][1] # t
    BY <1>0, <2>2, BeforeSeq
  <2>7. base \in [Turn -> Seq(Message)]
    BY DEF Typed, TypeOK
  <2>8. Given(t)' /\ Heard(t)'
    <3>1. base'[t] = Before(History) /\ pc'[t] = "prepare"
      BY <1>0, <2>4, <2>7
    <3>2. Given(t)'
      BY <2>1, <2>5, <2>6, <3>1 DEF Given
    <3> DEFINE len == Len(History)
    <3>3. len \in Nat /\ saved[t] \in Nat
      BY <1>0
    <3> HIDE DEF len
    <3>4. ASSUME NEW k \in 1 .. len, History[k][1] = t PROVE History[k][2] <= saved[t]
      <4>1. k \in 1 .. len - 1 \/ k = len
        BY <3>3
      <4>2. k = len
        BY <2>2, <3>4, <4>1 DEF len
      <4>3. History[k] = <<t, 0>>
        BY <2>2, <4>2 DEF len
      <4>4. QED
        BY <3>3, <4>3
    <3>5. QED
      BY <2>1, <2>4, <3>1, <3>2, <3>4 DEF Heard, Early, Asked, len
  <2>9. ASSUME NEW u \in Turn, u # t PROVE Given(u)' /\ Heard(u)'
    <3>1. pc'[u] = pc[u] /\ base'[u] = base[u] /\ Given(u) /\ Heard(u)
      BY <1>0, <2>4, <2>7, <2>9 DEF HistoryInv
    <3>2. QED
      BY <2>1, <2>4, <3>1 DEF Given, Heard
  <2>10. QED
    BY <2>1, <2>4, <2>8, <2>9 DEF HistoryInv
<1>13. ASSUME Crash PROVE HistoryInv'
  <2>1. /\ History' = rows /\ UNCHANGED <<rows, saved, base>>
    BY <1>13 DEF Crash, NewObject, History
  <2>2. Recalls(History', rows')
    BY <1>0, <2>1, RecallsSelf DEF HistoryInv
  <2>3. ASSUME NEW t \in Turn PROVE Heard(t)' /\ Given(t)'
    <3>1. pc'[t] \in Outcome \/ (pc'[t] = pc[t] /\ pc[t] = "idle")
      BY <1>13 DEF Crash, Outcome
    <3>2. pc[t] = "idle" => \A i \in 1 .. Len(rows) : rows[i][1] # t
      BY DEF RowsInv, Stored, Unsaved
    <3>3. QED
      BY <2>1, <3>1, <3>2 DEF Heard, Given, Early, Asked, Outcome
  <2>4. QED
    BY <2>2, <2>3 DEF HistoryInv
<1>14. ASSUME NEW t \in Turn, Step(t) PROVE HistoryInv'
  <2>1. CASE Begin(t) \/ CreateRun(t)
    BY <1>1, <2>1 DEF Begin, CreateRun, Goto, Early, Label, History
  <2>2. CASE Prepare(t) \/ RunTurn(t) \/ RunFails(t) \/ RecordUsage(t) \/ Finish(t)
    BY <1>1, <2>2 DEF Prepare, RunTurn, RunFails, RecordUsage, Finish, Goto, Label,
                      Critical, History
  <2>3. CASE FailRun(t)
    BY <1>2, <2>3 DEF FailRun, Goto, Critical, Outcome
  <2>4. QED
    BY <1>5, <1>6, <1>7, <1>8, <1>9, <1>10, <1>11, <1>12, <1>14, <2>1, <2>2, <2>3 DEF Step
<1>15. ASSUME NEW t \in Turn, EarlyReturn(t) PROVE HistoryInv'
  <2>1. CASE pc[t] \in Critical
    BY <1>2, <1>15, <2>1 DEF EarlyReturn, Outcome
  <2>2. CASE pc[t] \notin Critical
    BY <1>1, <1>15, <2>2 DEF EarlyReturn, Outcome, Label, History
  <2>3. QED
    BY <2>1, <2>2
<1>16. QED
  BY <1>3, <1>4, <1>13, <1>14, <1>15
     DEF Next, ControlStop, StopTurn, ControlCancel, vars

(* The runtime is given all that was stored before its turn, once and in    *)
(* order, and nothing of the turn itself.                                   *)
THEOREM RuntimeSeesPast == Spec => []SeesPast
<1>1. Init => Typed /\ LockInv /\ RowsInv /\ CountInv /\ HistoryInv
  BY TypeInit, LockInit, RowsInit, CountInit, HistoryInit
<1>2. Typed /\ LockInv /\ RowsInv /\ CountInv /\ HistoryInv /\ [Next]_vars
        => (Typed /\ LockInv /\ RowsInv /\ CountInv /\ HistoryInv)'
  BY TypeStep, SavingStep, LockStep, RowsStep, CountStep, HistoryStep DEF Typed
<1>3. HistoryInv => SeesPast
  BY DEF HistoryInv, Given, SeesPast
<1>4. QED
  BY <1>1, <1>2, <1>3, PTL DEF Spec
=============================================================================
