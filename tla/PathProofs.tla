----------------------------- MODULE PathProofs -----------------------------
(***************************************************************************)
(* Proofs about the way of a chat message into MySQL: the upload consumers *)
(* (UploadConsumer), the identifiers (Snowflake), the gateways' handlers   *)
(* (Ingress) and the composition of both sides of the queue (ChatPath),    *)
(* for any number of instances, users, messages and faults.                *)
(***************************************************************************)
EXTENDS ChatPath, TLAPS

-----------------------------------------------------------------------------
(* Types, helper by helper: the parts of TypeOK that belong together.      *)

BrokerOK == /\ up \in [Msgs -> {"new", "ready", "unacked", "acked", "dead"}]
            /\ owner \in [Msgs -> Logics \cup {None}]
            /\ linked \subseteq Logics
LocalsOK == /\ stage \in [Logics -> [Msgs -> Stages]]
            /\ addr \in [Logics -> SUBSET Msgs]
            /\ todo \in [Logics -> [Msgs -> SUBSET Users]]
CountOK(f) == f \in [Msgs -> [Users -> Nat]]

\* TypeOK is the conjunction of its parts.
LEMMA TypeParts ==
  TypeOK <=> /\ BrokerOK /\ LocalsOK /\ CountOK(rows) /\ CountOK(bumps)
             /\ online \subseteq Users /\ down \subseteq Msgs \X Users
             /\ faults \in 0 .. MaxFaults
BY DEF TypeOK, BrokerOK, LocalsOK, CountOK

\* The same after a step.
LEMMA TypePartsNext ==
  TypeOK' <=> /\ BrokerOK' /\ LocalsOK' /\ CountOK(rows)' /\ CountOK(bumps)'
              /\ online' \subseteq Users /\ down' \subseteq Msgs \X Users
              /\ faults' \in 0 .. MaxFaults
BY DEF TypeOK, BrokerOK, LocalsOK, CountOK

\* Receivers are users, and the kinds are parts of Msgs.
LEMMA KindFacts == /\ \A m \in Single \cup AI : Receiver[m] \in Users
               /\ Single \subseteq Msgs /\ AI \subseteq Msgs /\ Group \subseteq Msgs
BY AddressesTyped DEF Msgs

\* Adding one to an entry of a table of counters leaves a table of counters.
LEMMA CountType ==
  ASSUME NEW S, NEW T, NEW f \in [S -> [T -> Nat]], NEW m \in S, NEW u \in T
  PROVE  [f EXCEPT ![m][u] = @ + 1] \in [S -> [T -> Nat]]
OBVIOUS

\* InsertRow keeps the table of rows a table of counters.
LEMMA InsertRowType ==
  ASSUME CountOK(rows), NEW m \in Msgs, NEW u \in Users, InsertRow(m, u)
  PROVE  CountOK(rows)'
BY CountType DEF InsertRow, CountOK

\* Bump keeps the table of unread counts a table of counters.
LEMMA BumpType ==
  ASSUME CountOK(bumps), NEW m \in Msgs, NEW u \in Users, Bump(m, u)
  PROVE  CountOK(bumps)'
BY CountType DEF Bump, CountOK

\* The number of faults stays within its bound.
LEMMA FaultType ==
  ASSUME faults \in 0 .. MaxFaults, Fault \/ NoFault
  PROVE  faults' \in 0 .. MaxFaults
BY BoundsTyped DEF Fault, NoFault

\* Ack and Nack keep the type of the broker's state.
LEMMA SettleType ==
  ASSUME BrokerOK, NEW l \in Logics, NEW m \in Msgs,
         NEW to \in {"ready", "acked", "dead"}, Settle(l, m, to)
  PROVE  BrokerOK'
BY DEF BrokerOK, Settle

\* So does the broker when it takes back what an instance held.
LEMMA RequeueType ==
  ASSUME BrokerOK, NEW l \in Logics, Requeue(l), linked' \subseteq Logics
  PROVE  BrokerOK'
BY DEF BrokerOK, Requeue

\* Moving a message to another stage keeps the type of an instance's locals.
LEMMA GotoType ==
  ASSUME LocalsOK, NEW l \in Logics, NEW m \in Msgs, NEW s \in Stages, Goto(l, m, s)
  PROVE  LocalsOK'
BY DEF LocalsOK, Goto

\* So does dropping the locals of a finished message.
LEMMA FinishType ==
  ASSUME LocalsOK, NEW l \in Logics, NEW m \in Msgs, Finish(l, m)
  PROVE  LocalsOK'
BY DEF LocalsOK, Finish, Stages

\* So does choosing the group members to serve next.
LEMMA ServeType ==
  ASSUME LocalsOK, NEW l \in Logics, NEW m \in Msgs, NEW T \in SUBSET Users, Serve(l, m, T)
  PROVE  LocalsOK'
BY DEF LocalsOK, Serve, Stages

\* So does moving a whole batch to another stage.
LEMMA AdvanceType ==
  ASSUME LocalsOK, NEW l \in Logics, NEW B, NEW s \in Stages, Advance(l, B, s)
  PROVE  stage' \in [Logics -> [Msgs -> Stages]]
BY DEF LocalsOK, Advance

\* A batch insert keeps the table of rows a table of counters.
LEMMA InsertAllType ==
  ASSUME CountOK(rows), NEW B \in SUBSET Single, InsertAll(B)
  PROVE  CountOK(rows)'
BY KindFacts DEF CountOK, InsertAll

-----------------------------------------------------------------------------
\* The type invariant is inductive: every action keeps each part.
LEMMA TypeStep == TypeOK /\ [Next]_vars => TypeOK'
<1> SUFFICES ASSUME TypeOK, [Next]_vars PROVE TypeOK'
  OBVIOUS
<1>0. /\ BrokerOK /\ LocalsOK /\ CountOK(rows) /\ CountOK(bumps)
      /\ online \subseteq Users /\ down \subseteq Msgs \X Users
      /\ faults \in 0 .. MaxFaults
  BY TypeParts
<1>same. /\ UNCHANGED <<up, owner, linked>> => BrokerOK'
         /\ UNCHANGED <<stage, addr, todo>> => LocalsOK'
         /\ UNCHANGED rows => CountOK(rows)'
         /\ UNCHANGED bumps => CountOK(bumps)'
  BY <1>0 DEF BrokerOK, LocalsOK, CountOK
<1>1. ASSUME NEW m \in Msgs, Arrive(m) PROVE TypeOK'
  BY <1>1 DEF Arrive, storeVars, TypeOK
<1>2. ASSUME NEW u \in Users, SetRoute(u) PROVE TypeOK'
  BY <1>2 DEF SetRoute, storeVars, brokerVars, TypeOK
<1>3. ASSUME NEW l \in Logics, NEW m \in Msgs, Deliver(l, m) PROVE TypeOK'
  BY <1>3 DEF Deliver, Goto, FirstStage, storeVars, TypeOK, Stages
<1>4. ASSUME NEW l \in Logics, NEW m \in Msgs, RejectCorrupt(l, m) PROVE TypeOK'
  BY <1>4 DEF RejectCorrupt, storeVars, TypeOK
<1>5. ASSUME NEW l \in Logics, NEW m \in Msgs, SingleInsert(l, m) PROVE TypeOK'
  <2>1. CountOK(rows)'
    BY <1>0, <1>5, <1>same, KindFacts, InsertRowType DEF SingleInsert
  <2>2. BrokerOK' /\ LocalsOK'
    BY <1>0, <1>5, <1>same, SettleType, GotoType, FinishType
    DEF SingleInsert, brokerVars, Stages
  <2> QED
    BY <1>0, <1>5, <1>same, <2>1, <2>2, FaultType, TypePartsNext DEF SingleInsert
<1>6. ASSUME NEW l \in Logics, NEW m \in Msgs, UpdateConversation(l, m) PROVE TypeOK'
  <2>1. CountOK(bumps)'
    BY <1>0, <1>6, <1>same, KindFacts, BumpType DEF UpdateConversation
  <2>2. BrokerOK' /\ LocalsOK'
    BY <1>0, <1>6, <1>same, GotoType DEF UpdateConversation, brokerVars, Stages
  <2> QED
    BY <1>0, <1>6, <1>same, <2>1, <2>2, FaultType, TypePartsNext DEF UpdateConversation
<1>7. ASSUME NEW l \in Logics, NEW m \in Msgs, PushDown(l, m) PROVE TypeOK'
  <2>1. down' \subseteq Msgs \X Users
    BY <1>0, <1>7, KindFacts DEF PushDown
  <2>2. BrokerOK' /\ LocalsOK'
    BY <1>0, <1>7, <1>same, SettleType, GotoType, FinishType DEF PushDown, brokerVars, Stages
  <2> QED
    BY <1>0, <1>7, <1>same, <2>1, <2>2, FaultType, TypePartsNext DEF PushDown
<1>8. ASSUME NEW l \in Logics, NEW m \in Msgs, Ack(l, m) PROVE TypeOK'
  BY <1>0, <1>8, <1>same, SettleType, FinishType, TypePartsNext DEF Ack
<1>9. ASSUME NEW l \in Logics, NEW m \in Msgs, GroupMembers(l, m) PROVE TypeOK'
  <2>1. BrokerOK' /\ LocalsOK'
    BY <1>0, <1>9, <1>same, SettleType, ServeType, FinishType, AddressesTyped
    DEF GroupMembers, brokerVars
  <2> QED
    BY <1>0, <1>9, <1>same, <2>1, FaultType, TypePartsNext DEF GroupMembers, storeVars
<1>10. ASSUME NEW l \in Logics, NEW m \in Msgs, NEW u \in Users, GroupMember(l, m, u)
       PROVE TypeOK'
  <2>1. CountOK(rows)' /\ CountOK(bumps)'
    BY <1>0, <1>10, <1>same, InsertRowType, BumpType DEF GroupMember, Notify, NotifyPartly
  <2>2. down' \subseteq Msgs \X Users
    BY <1>0, <1>10 DEF GroupMember, Notify, NotifyPartly, Published
  <2>3. LocalsOK'
    <3>1. todo[l][m] \ {u} \in SUBSET Users
      BY <1>0, <1>10 DEF LocalsOK
    <3> QED
      BY <1>0, <1>10, <3>1, ServeType DEF GroupMember
  <2> QED
    BY <1>0, <1>10, <1>same, <2>1, <2>2, <2>3, FaultType, TypePartsNext DEF GroupMember, brokerVars
<1>11. ASSUME NEW l \in Logics, NEW m \in Msgs, HandleAI(l, m) PROVE TypeOK'
  <2>1. CountOK(rows)'
    BY <1>0, <1>11, <1>same, KindFacts, InsertRowType DEF HandleAI
  <2>2. BrokerOK' /\ LocalsOK'
    BY <1>0, <1>11, <1>same, SettleType, GotoType, FinishType DEF HandleAI, brokerVars, Stages
  <2> QED
    BY <1>0, <1>11, <1>same, <2>1, <2>2, FaultType, TypePartsNext DEF HandleAI
<1>12. ASSUME NEW l \in Logics, NEW B \in SUBSET Single, LookupRoutes(l, B) PROVE TypeOK'
  <2>1. stage' \in [Logics -> [Msgs -> Stages]]
    BY <1>0, <1>12, AdvanceType DEF LookupRoutes, Stages
  <2>2. addr' \in [Logics -> SUBSET Msgs]
    BY <1>0, <1>12, KindFacts DEF LookupRoutes, LocalsOK
  <2> QED
    BY <1>0, <1>12, <1>same, <2>1, <2>2, FaultType, TypePartsNext
    DEF LookupRoutes, LocalsOK, brokerVars, storeVars
<1>13. ASSUME NEW l \in Logics, BatchInsert(l) PROVE TypeOK'
  <2>1. stage' \in [Logics -> [Msgs -> Stages]]
    BY <1>0, <1>13, AdvanceType DEF BatchInsert, Stages
  <2>2. CountOK(rows)'
    BY <1>0, <1>13, <1>same, InsertAllType DEF BatchInsert
  <2> QED
    BY <1>0, <1>13, <1>same, <2>1, <2>2, FaultType, TypePartsNext
    DEF BatchInsert, LocalsOK, brokerVars
<1>14. ASSUME NEW l \in Logics, Crash(l) PROVE TypeOK'
  <2>1. BrokerOK' /\ LocalsOK'
    BY <1>0, <1>14, RequeueType DEF Crash, LocalsOK, BrokerOK, Stages
  <2> QED
    BY <1>0, <1>14, <1>same, <2>1, FaultType, TypePartsNext DEF Crash, storeVars
<1>15. ASSUME NEW l \in Logics, LoseConnection(l) PROVE TypeOK'
  <2>1. BrokerOK'
    BY <1>0, <1>15, RequeueType DEF LoseConnection, BrokerOK
  <2> QED
    BY <1>0, <1>15, <1>same, <2>1, FaultType, TypePartsNext DEF LoseConnection, storeVars
<1>16. CASE UNCHANGED vars
  BY <1>16 DEF vars, TypeOK
<1> QED
  BY <1>1, <1>2, <1>3, <1>4, <1>5, <1>6, <1>7, <1>8, <1>9, <1>10, <1>11, <1>12, <1>13,
     <1>14, <1>15, <1>16 DEF Next, Instance, Work

\* TypeOK holds in every reachable state.
THEOREM TypeCorrect == Spec => []TypeOK
<1>1. Init => TypeOK
  BY BoundsTyped DEF Init, TypeOK, Stages
<1> QED
  BY <1>1, TypeStep, PTL DEF Spec

-----------------------------------------------------------------------------
(* Safety.                                                                 *)

\* Inserting adds a row and removes none.
LEMMA InsertRowGrows ==
  ASSUME CountOK(rows), NEW m \in Msgs, NEW u \in Users, InsertRow(m, u)
  PROVE  /\ rows'[m][u] > 0
         /\ \A n \in Msgs, v \in Users : rows[n][v] > 0 => rows'[n][v] > 0
         /\ \A n \in Msgs, v \in Users : rows'[n][v] > 0 /\ rows[n][v] = 0 => n = m /\ v = u
BY DEF InsertRow, CountOK

\* A batch insert removes no row and adds one for every message of the batch.
LEMMA InsertAllGrows ==
  ASSUME CountOK(rows), NEW B \in SUBSET Single, InsertAll(B)
  PROVE  /\ \A m \in B : rows'[m][Receiver[m]] > 0
         /\ \A n \in Msgs, v \in Users : rows[n][v] > 0 => rows'[n][v] > 0
         /\ \A n \in Msgs, v \in Users : rows'[n][v] > 0 /\ rows[n][v] = 0 => n \in B
BY KindFacts DEF InsertAll, CountOK

\* What one step does to the rows: none disappears.
LEMMA RowsGrow ==
  ASSUME TypeOK, [Next]_vars
  PROVE  \A n \in Msgs, v \in Users : rows[n][v] > 0 => rows'[n][v] > 0
<1>0. CountOK(rows)
  BY TypeParts
<1>1. ASSUME NEW l \in Logics, NEW m \in Msgs, SingleInsert(l, m)
      PROVE \A n \in Msgs, v \in Users : rows[n][v] > 0 => rows'[n][v] > 0
  BY <1>0, <1>1, KindFacts, InsertRowGrows DEF SingleInsert
<1>2. ASSUME NEW l \in Logics, NEW m \in Msgs, HandleAI(l, m)
      PROVE \A n \in Msgs, v \in Users : rows[n][v] > 0 => rows'[n][v] > 0
  BY <1>0, <1>2, KindFacts, InsertRowGrows DEF HandleAI
<1>3. ASSUME NEW l \in Logics, NEW m \in Msgs, NEW u \in Users, GroupMember(l, m, u)
      PROVE \A n \in Msgs, v \in Users : rows[n][v] > 0 => rows'[n][v] > 0
  BY <1>0, <1>3, InsertRowGrows DEF GroupMember
<1>4. ASSUME NEW l \in Logics, BatchInsert(l)
      PROVE \A n \in Msgs, v \in Users : rows[n][v] > 0 => rows'[n][v] > 0
  BY <1>0, <1>4, InsertAllGrows DEF BatchInsert
<1>5. ASSUME NEW l \in Logics, NEW m \in Msgs,
             \/ Deliver(l, m) \/ RejectCorrupt(l, m) \/ UpdateConversation(l, m)
             \/ PushDown(l, m) \/ Ack(l, m) \/ GroupMembers(l, m)
      PROVE UNCHANGED rows
  BY <1>5 DEF Deliver, RejectCorrupt, UpdateConversation, PushDown, Ack, GroupMembers, storeVars
<1>6. ASSUME \/ \E m \in Msgs : Arrive(m)
             \/ \E u \in Users : SetRoute(u)
             \/ \E l \in Logics : \/ \E B \in SUBSET Single : LookupRoutes(l, B)
                                  \/ Crash(l) \/ LoseConnection(l)
             \/ UNCHANGED vars
      PROVE UNCHANGED rows
  BY <1>6 DEF Arrive, SetRoute, LookupRoutes, Crash, LoseConnection, storeVars, vars
<1> QED
  BY <1>1, <1>2, <1>3, <1>4, <1>5, <1>6 DEF Next, Instance, Work

\* Settling changes only a message the instance holds, hence an unsettled one.
LEMMA SettleEffect ==
  ASSUME BrokerOK, OwnedUnacked, NEW l \in Logics, NEW m \in Msgs,
         NEW to \in {"ready", "acked", "dead"}, Settle(l, m, to)
  PROVE  /\ OwnedUnacked'
         /\ linked' = linked
         /\ \A n \in Msgs : up[n] \in {"acked", "dead"} => up'[n] = up[n]
         /\ \A n \in Msgs : up[n] # "new" => up'[n] # "new"
         /\ \A n \in Msgs : n # m \/ owner[n] # l => up'[n] = up[n] /\ owner'[n] = owner[n]
         /\ up'[m] = "acked" => to = "acked" \/ up[m] = "acked"
BY NoneIsNoLogic DEF Settle, OwnedUnacked, BrokerOK

\* Settling and leaving keeps what is known about all other work.
LEMMA SettleAndFinish ==
  ASSUME BrokerOK, LocalsOK, OwnedUnacked, StageSound, WorkOwned,
         NEW l \in Logics, NEW m \in Msgs, NEW to \in {"ready", "acked", "dead"},
         Settle(l, m, to), Finish(l, m),
         \A n \in Msgs, v \in Users : rows[n][v] > 0 => rows'[n][v] > 0
  PROVE  OwnedUnacked' /\ StageSound' /\ WorkOwned'
<1>1. \A k \in Logics, n \in Msgs : stage'[k][n] # "none" =>
         /\ stage'[k][n] = stage[k][n]
         /\ k # l \/ n # m
  BY DEF Finish, LocalsOK
<1>2. WorkOwned'
  BY <1>1, SettleEffect DEF WorkOwned, BrokerOK
<1>3. StageSound'
  BY <1>1, SettleEffect, KindFacts DEF StageSound
<1> QED
  BY <1>2, <1>3, SettleEffect

\* Requeueing does the same for everything the instance holds.
LEMMA RequeueEffect ==
  ASSUME BrokerOK, OwnedUnacked, NEW l \in Logics, Requeue(l)
  PROVE  /\ OwnedUnacked'
         /\ \A n \in Msgs : up[n] \in {"acked", "dead"} => up'[n] = up[n]
         /\ \A n \in Msgs : up[n] # "new" => up'[n] # "new"
         /\ \A n \in Msgs : owner[n] # l => owner'[n] = owner[n]
         /\ \A n \in Msgs : up'[n] = "acked" => up[n] = "acked"
BY NoneIsNoLogic DEF Requeue, OwnedUnacked, BrokerOK

\* The inductive invariant is preserved, one action after the other.
LEMMA InvStep == IInv /\ [Next]_vars => IInv'
<1> SUFFICES ASSUME IInv, [Next]_vars PROVE IInv'
  OBVIOUS
<1>t. TypeOK /\ TypeOK'
  BY TypeStep DEF IInv
<1>g. \A n \in Msgs, v \in Users : rows[n][v] > 0 => rows'[n][v] > 0
  BY <1>t, RowsGrow
<1>i. OwnedUnacked /\ StageSound /\ WorkOwned /\ AckedPersisted /\ PersistBeforePush
  BY DEF IInv
<1>b. BrokerOK /\ LocalsOK /\ CountOK(rows)
  BY <1>t, TypeParts
<1> DEFINE Rest == OwnedUnacked /\ StageSound /\ WorkOwned /\ AckedPersisted /\ PersistBeforePush
<1> SUFFICES Rest'
  BY <1>t DEF IInv
<1>1. ASSUME NEW m \in Msgs, Arrive(m) PROVE Rest'
  BY <1>1, <1>i, <1>b DEF Arrive, storeVars, OwnedUnacked, StageSound, WorkOwned,
     AckedPersisted, PersistBeforePush, Rows, BrokerOK
<1>2. ASSUME NEW u \in Users, SetRoute(u) PROVE Rest'
  BY <1>2, <1>i DEF SetRoute, storeVars, brokerVars, OwnedUnacked, StageSound, WorkOwned,
     AckedPersisted, PersistBeforePush, Rows
<1>3. ASSUME NEW l \in Logics, NEW m \in Msgs, Deliver(l, m) PROVE Rest'
  <2>1. OwnedUnacked'
    BY <1>3, <1>i, <1>b DEF Deliver, OwnedUnacked, BrokerOK
  <2>2. StageSound'
    BY <1>3, <1>i, <1>b, KindsDisjoint
    DEF Deliver, FirstStage, Goto, storeVars, StageSound, BrokerOK, LocalsOK
  <2>3. WorkOwned'
    BY <1>3, <1>i, <1>b, NoneIsNoLogic
    DEF Deliver, Goto, WorkOwned, OwnedUnacked, BrokerOK, LocalsOK
  <2>4. AckedPersisted' /\ PersistBeforePush'
    BY <1>3, <1>i, <1>b, KindFacts
    DEF Deliver, storeVars, AckedPersisted, PersistBeforePush, Rows, BrokerOK
  <2> QED
    BY <2>1, <2>2, <2>3, <2>4
<1>4. ASSUME NEW l \in Logics, NEW m \in Msgs, RejectCorrupt(l, m) PROVE Rest'
  BY <1>4, <1>i, <1>b DEF RejectCorrupt, storeVars, OwnedUnacked, StageSound, WorkOwned,
     AckedPersisted, PersistBeforePush, Rows, BrokerOK
<1>5. ASSUME NEW l \in Logics, NEW m \in Msgs, SingleInsert(l, m) PROVE Rest'
  <2>1. CASE Goto(l, m, "stored") /\ UNCHANGED brokerVars
    <3>1. rows'[m][Receiver[m]] > 0
      BY <1>5, <1>b, <2>1, <1>g, KindFacts, InsertRowGrows DEF SingleInsert, Present, Goto, Finish, LocalsOK
    <3> QED
      BY <1>5, <1>i, <1>b, <1>g, <2>1, <3>1, KindFacts
      DEF SingleInsert, Goto, brokerVars, OwnedUnacked, StageSound, WorkOwned,
          AckedPersisted, PersistBeforePush, Rows, LocalsOK
  <2>2. CASE Settle(l, m, "dead") /\ Finish(l, m)
    <3>1. OwnedUnacked' /\ WorkOwned' /\ StageSound'
      BY <1>i, <1>b, <1>g, <2>2, SettleAndFinish
    <3> QED
      BY <1>5, <1>i, <1>b, <1>g, <2>2, <3>1, SettleEffect, KindFacts
      DEF SingleInsert, AckedPersisted, PersistBeforePush, Rows
  <2> QED
    BY <1>5, <2>1, <2>2 DEF SingleInsert
<1>6. ASSUME NEW l \in Logics, NEW m \in Msgs, UpdateConversation(l, m) PROVE Rest'
  BY <1>6, <1>i, <1>b DEF UpdateConversation, Goto, brokerVars, OwnedUnacked, StageSound,
     WorkOwned, AckedPersisted, PersistBeforePush, Rows, LocalsOK
<1>7. ASSUME NEW l \in Logics, NEW m \in Msgs, PushDown(l, m) PROVE Rest'
  <2>0. rows'[m][Receiver[m]] > 0 /\ UNCHANGED rows
    BY <1>7, <1>i DEF PushDown, StageSound
  <2>1. PersistBeforePush'
    BY <1>7, <1>i, <2>0, KindFacts DEF PushDown, PersistBeforePush, Rows
  <2>2. CASE Goto(l, m, "ack") /\ UNCHANGED brokerVars
    <3>1. StageSound'
      BY <1>7, <1>i, <1>b, <2>0, <2>2 DEF PushDown, Goto, brokerVars, StageSound, LocalsOK
    <3>2. WorkOwned'
      BY <1>7, <1>i, <1>b, <2>2 DEF PushDown, Goto, brokerVars, WorkOwned, BrokerOK, LocalsOK
    <3> QED
      BY <1>i, <2>0, <2>1, <2>2, <3>1, <3>2 DEF brokerVars, OwnedUnacked, AckedPersisted, Rows
  <2>3. CASE Settle(l, m, "ready") /\ Finish(l, m)
    <3>1. OwnedUnacked' /\ WorkOwned' /\ StageSound'
      BY <1>i, <1>b, <1>g, <2>3, SettleAndFinish
    <3> QED
      BY <1>i, <1>b, <2>0, <2>1, <2>3, <3>1, SettleEffect, KindFacts DEF AckedPersisted, Rows
  <2> QED
    BY <1>7, <2>2, <2>3 DEF PushDown
<1>8. ASSUME NEW l \in Logics, NEW m \in Msgs, Ack(l, m) PROVE Rest'
  <2>1. OwnedUnacked' /\ WorkOwned' /\ StageSound'
    BY <1>8, <1>i, <1>b, <1>g, SettleAndFinish DEF Ack
  <2>2. AckedPersisted'
    <3>1. m \in Single \cup AI => rows[m][Receiver[m]] > 0
      BY <1>8, <1>i DEF Ack, StageSound
    <3> QED
      BY <1>8, <1>i, <1>b, <3>1, SettleEffect, KindFacts DEF Ack, AckedPersisted, Rows
  <2> QED
    BY <1>8, <1>i, <2>1, <2>2 DEF Ack, PersistBeforePush, Rows
<1>9. ASSUME NEW l \in Logics, NEW m \in Msgs, GroupMembers(l, m) PROVE Rest'
  <2>1. CASE Serve(l, m, Members) /\ UNCHANGED brokerVars
    BY <1>9, <1>i, <1>b, <2>1, KindsDisjoint
    DEF GroupMembers, Serve, storeVars, brokerVars, OwnedUnacked, StageSound, WorkOwned,
        AckedPersisted, PersistBeforePush, Rows, LocalsOK
  <2>2. CASE Settle(l, m, "ready") /\ Finish(l, m)
    <3>1. OwnedUnacked' /\ WorkOwned' /\ StageSound'
      BY <1>i, <1>b, <1>g, <2>2, SettleAndFinish
    <3> QED
      BY <1>9, <1>i, <1>b, <2>2, <3>1, SettleEffect, KindFacts
      DEF GroupMembers, storeVars, AckedPersisted, PersistBeforePush, Rows
  <2> QED
    BY <1>9, <2>1, <2>2 DEF GroupMembers
<1>10. ASSUME NEW l \in Logics, NEW m \in Msgs, NEW u \in Users, GroupMember(l, m, u)
       PROVE Rest'
  <2>1. PersistBeforePush'
    BY <1>10, <1>i, <1>b, <1>g, InsertRowGrows
    DEF GroupMember, Notify, NotifyPartly, Published, PersistBeforePush, Rows
  <2>2. StageSound'
    BY <1>10, <1>i, <1>b, <1>g, KindFacts, KindsDisjoint
    DEF GroupMember, Serve, brokerVars, StageSound, LocalsOK
  <2> QED
    BY <1>10, <1>i, <1>b, <1>g, <2>1, <2>2, KindFacts
    DEF GroupMember, Serve, brokerVars, OwnedUnacked, WorkOwned, AckedPersisted, Rows, LocalsOK
<1>11. ASSUME NEW l \in Logics, NEW m \in Msgs, HandleAI(l, m) PROVE Rest'
  <2>1. CASE InsertRow(m, Receiver[m]) /\ Goto(l, m, "ack") /\ UNCHANGED brokerVars
    <3>1. rows'[m][Receiver[m]] > 0
      BY <1>11, <1>b, <2>1, KindFacts, InsertRowGrows DEF HandleAI
    <3> QED
      BY <1>11, <1>i, <1>b, <1>g, <2>1, <3>1, KindFacts
      DEF HandleAI, Goto, brokerVars, OwnedUnacked, StageSound, WorkOwned,
          AckedPersisted, PersistBeforePush, Rows, LocalsOK
  <2>2. CASE Settle(l, m, "ready") /\ Finish(l, m)
    <3>1. OwnedUnacked' /\ WorkOwned' /\ StageSound'
      BY <1>i, <1>b, <1>g, <2>2, SettleAndFinish
    <3> QED
      BY <1>11, <1>i, <1>b, <1>g, <2>2, <3>1, SettleEffect, KindFacts
      DEF HandleAI, AckedPersisted, PersistBeforePush, Rows
  <2> QED
    BY <1>11, <2>1, <2>2 DEF HandleAI
<1>12. ASSUME NEW l \in Logics, NEW B \in SUBSET Single, LookupRoutes(l, B) PROVE Rest'
  BY <1>12, <1>i, <1>b DEF LookupRoutes, Advance, brokerVars, storeVars, OwnedUnacked,
     StageSound, WorkOwned, AckedPersisted, PersistBeforePush, Rows, LocalsOK
<1>13. ASSUME NEW l \in Logics, BatchInsert(l) PROVE Rest'
  <2> DEFINE B == {m \in Single : stage[l][m] = "routed"}
  <2>1. PICK s \in {"stored", "retry"} :
          Advance(l, B, s) /\ (s = "stored" => InsertAll(B))
    BY <1>13 DEF BatchInsert
  <2>2. s = "stored" => \A m \in B : rows'[m][Receiver[m]] > 0
    BY <1>b, <2>1, InsertAllGrows
  <2>3. StageSound'
    BY <1>13, <1>i, <1>b, <1>g, <2>1, <2>2, KindFacts
    DEF BatchInsert, Advance, brokerVars, StageSound, LocalsOK
  <2> QED
    BY <1>13, <1>i, <1>b, <1>g, <2>1, <2>3, KindFacts
    DEF BatchInsert, Advance, brokerVars, OwnedUnacked, WorkOwned, AckedPersisted,
        PersistBeforePush, Rows, LocalsOK
<1>14. ASSUME NEW l \in Logics, Crash(l) PROVE Rest'
  <2>1. OwnedUnacked' /\ StageSound' /\ WorkOwned'
    BY <1>14, <1>i, <1>b, RequeueEffect
    DEF Crash, storeVars, StageSound, WorkOwned, LocalsOK
  <2> QED
    BY <1>14, <1>i, <1>b, <2>1, RequeueEffect, KindFacts
    DEF Crash, storeVars, AckedPersisted, PersistBeforePush, Rows
<1>15. ASSUME NEW l \in Logics, LoseConnection(l) PROVE Rest'
  <2>1. OwnedUnacked' /\ StageSound' /\ WorkOwned'
    BY <1>15, <1>i, <1>b, RequeueEffect
    DEF LoseConnection, storeVars, StageSound, WorkOwned, BrokerOK
  <2> QED
    BY <1>15, <1>i, <1>b, <2>1, RequeueEffect, KindFacts
    DEF LoseConnection, storeVars, AckedPersisted, PersistBeforePush, Rows
<1>16. CASE UNCHANGED vars
  BY <1>16, <1>i DEF vars, OwnedUnacked, StageSound, WorkOwned, AckedPersisted,
     PersistBeforePush, Rows
<1> QED
  BY <1>1, <1>2, <1>3, <1>4, <1>5, <1>6, <1>7, <1>8, <1>9, <1>10, <1>11, <1>12, <1>13,
     <1>14, <1>15, <1>16 DEF Next, Instance, Work

\* The initial state satisfies the inductive invariant.
LEMMA InvInit == Init => IInv
BY BoundsTyped, NoneIsNoLogic, KindFacts DEF Init, IInv, TypeOK, Stages, OwnedUnacked,
   StageSound, WorkOwned, AckedPersisted, PersistBeforePush, Rows

\* IInv is an invariant of the consumer.
THEOREM Invariance == Spec => []IInv
BY InvInit, InvStep, PTL DEF Spec

\* An acknowledged single or AI message is in MySQL.
THEOREM AckedIsPersisted == Spec => []AckedPersisted
<1>1. IInv => AckedPersisted
  BY DEF IInv
<1> QED
  BY <1>1, Invariance, PTL

\* Nothing is pushed before it is stored.
THEOREM PushFollowsRow == Spec => []PersistBeforePush
<1>1. IInv => PersistBeforePush
  BY DEF IInv
<1> QED
  BY <1>1, Invariance, PTL

\* Connected instances only work on deliveries they hold.
THEOREM ConnectedWorkIsOwned == Spec => []WorkOwned
<1>1. IInv => WorkOwned
  BY DEF IInv
<1> QED
  BY <1>1, Invariance, PTL

\* A late settlement never brings back an acknowledged or dead message.
THEOREM SettlementIsFinal == Spec => SettledIsFinal
<1> DEFINE Final == \A m \in Msgs : up[m] \in {"acked", "dead"} => up'[m] = up[m]
<1>1. ASSUME IInv, [Next]_vars PROVE Final
  <2>b. BrokerOK /\ OwnedUnacked
    BY <1>1, TypeParts DEF IInv
  <2>1. ASSUME NEW l \in Logics, NEW m \in Msgs, Work(l, m) PROVE Final
    <3>1. CASE Deliver(l, m) \/ RejectCorrupt(l, m)
      BY <2>b, <3>1 DEF Deliver, RejectCorrupt, BrokerOK
    <3>2. CASE \E to \in {"ready", "acked", "dead"} : Settle(l, m, to)
      BY <2>b, <3>2, SettleEffect
    <3>3. CASE UNCHANGED brokerVars
      BY <3>3 DEF brokerVars
    <3> QED
      BY <2>1, <3>1, <3>2, <3>3 DEF Work, SingleInsert, UpdateConversation, PushDown, Ack,
         GroupMembers, HandleAI, GroupMember
  <2>2. ASSUME NEW l \in Logics, Crash(l) \/ LoseConnection(l) PROVE Final
    BY <2>b, <2>2, RequeueEffect DEF Crash, LoseConnection
  <2>3. ASSUME NEW m \in Msgs, Arrive(m) PROVE Final
    BY <2>b, <2>3 DEF Arrive, BrokerOK
  <2>4. ASSUME NEW l \in Logics,
               BatchInsert(l) \/ \E B \in SUBSET Single : LookupRoutes(l, B)
        PROVE Final
    BY <2>4 DEF BatchInsert, LookupRoutes, brokerVars
  <2>5. ASSUME NEW u \in Users, SetRoute(u) PROVE Final
    BY <2>5 DEF SetRoute, brokerVars
  <2>6. CASE UNCHANGED vars
    BY <2>6 DEF vars
  <2> QED
    BY <1>1, <2>1, <2>2, <2>3, <2>4, <2>5, <2>6 DEF Next, Instance
<1>2. IInv /\ [Next]_vars => [Final]_vars
  BY <1>1
<1> QED
  BY <1>2, Invariance, PTL DEF Spec, SettledIsFinal

-----------------------------------------------------------------------------
(* Refinement: UploadConsumer implements MessageLog.                       *)

\* A step that settles nothing and only touches published messages is a
\* Record step of the log (possibly an empty one).
LEMMA RecordStep ==
  ASSUME TypeOK, TypeOK', PersistBeforePush',
         \A n \in Msgs, v \in Users : rows[n][v] > 0 => rows'[n][v] > 0,
         down \subseteq down',
         \A n \in Msgs : \/ up'[n] = up[n]
                         \/ up[n] \in {"ready", "unacked"} /\ up'[n] \in {"ready", "unacked"},
         \A n \in Msgs, v \in Users :
            rows'[n][v] # rows[n][v] \/ (<<n, v>> \in down' /\ <<n, v>> \notin down)
               => up[n] # "new"
  PROVE  Log!Record
<1> DEFINE L == {x \in Msgs \X Users : rows[x[1]][x[2]] > 0}
           St == [m \in Msgs |-> IF up[m] \in {"ready", "unacked"} THEN "accepted" ELSE up[m]]
<1>1. L \subseteq L' /\ L' \subseteq Msgs \X Users
  OBVIOUS
<1>2. down' \ down \subseteq L'
  BY DEF TypeOK, PersistBeforePush, Rows
<1>3. UNCHANGED St
  OBVIOUS
<1>4. \A x \in (L' \ L) \cup (down' \ down) : St[x[1]] # "new"
  <2> SUFFICES ASSUME NEW x \in (L' \ L) \cup (down' \ down) PROVE St[x[1]] # "new"
    OBVIOUS
  <2>1. PICK n \in Msgs, v \in Users : x = <<n, v>>
    BY DEF TypeOK
  <2>2. up[n] # "new"
    BY <2>1
  <2> QED
    BY <2>1, <2>2
<1> QED
  BY <1>1, <1>2, <1>3, <1>4 DEF Log!Record

\* Inserting touches one message only.
LEMMA InsertRowLocal ==
  ASSUME CountOK(rows), NEW m \in Msgs, NEW u \in Users, InsertRow(m, u)
  PROVE  \A n \in Msgs, v \in Users : n # m => rows'[n][v] = rows[n][v]
BY DEF InsertRow, CountOK

\* A batch insert leaves the rows of messages outside the batch alone.
LEMMA InsertAllLocal ==
  ASSUME CountOK(rows), NEW B \in SUBSET Single, InsertAll(B)
  PROVE  \A n \in Msgs, v \in Users : n \notin B => rows'[n][v] = rows[n][v]
BY DEF InsertAll, CountOK

\* Every step of the consumer is a step of the log or leaves it unchanged.
LEMMA RefinementStep == IInv /\ [Next]_vars => [Log!Next]_(Log!logVars)
<1> SUFFICES ASSUME IInv, [Next]_vars PROVE Log!Next \/ UNCHANGED Log!logVars
  OBVIOUS
<1>t. TypeOK /\ TypeOK' /\ PersistBeforePush'
  BY InvStep DEF IInv
<1>i. OwnedUnacked /\ StageSound
  BY DEF IInv
<1>b. BrokerOK /\ LocalsOK /\ CountOK(rows)
  BY <1>t, TypeParts
<1>g. \A n \in Msgs, v \in Users : rows[n][v] > 0 => rows'[n][v] > 0
  BY <1>t, RowsGrow
<1> DEFINE Calm == \A n \in Msgs :
                     \/ up'[n] = up[n]
                     \/ up[n] \in {"ready", "unacked"} /\ up'[n] \in {"ready", "unacked"}
           Touched(n) == \E v \in Users : \/ rows'[n][v] # rows[n][v]
                                          \/ <<n, v>> \in down' /\ <<n, v>> \notin down
<1>r. ASSUME Calm, down \subseteq down', \A n \in Msgs : Touched(n) => up[n] # "new"
      PROVE Log!Next
  BY <1>t, <1>g, <1>r, RecordStep DEF Log!Next
<1>p. ASSUME NEW l \in Logics, NEW m \in Msgs, stage[l][m] # "none" PROVE up[m] # "new"
  BY <1>p, <1>i DEF StageSound
<1>s. ASSUME NEW l \in Logics, NEW m \in Msgs, Settle(l, m, "ready") PROVE Calm
  BY <1>s, <1>i, <1>b, NoneIsNoLogic DEF Settle, OwnedUnacked, BrokerOK
<1>1. ASSUME NEW m \in Msgs, Arrive(m) PROVE Log!Next
  <2>1. Log!Accept(m)
    BY <1>1, <1>b DEF Arrive, storeVars, Log!Accept, BrokerOK
  <2> QED
    BY <2>1 DEF Log!Next
<1>2. ASSUME NEW u \in Users, SetRoute(u) PROVE Log!Next
  BY <1>2, <1>r DEF SetRoute, storeVars, brokerVars
<1>3. ASSUME NEW l \in Logics, NEW m \in Msgs, Deliver(l, m) PROVE Log!Next
  BY <1>3, <1>b, <1>r DEF Deliver, storeVars, BrokerOK
<1>4. ASSUME NEW l \in Logics, NEW m \in Msgs, RejectCorrupt(l, m) PROVE Log!Next
  <2>1. Log!DeadLetter(m)
    BY <1>4, <1>b DEF RejectCorrupt, storeVars, Log!DeadLetter, BrokerOK
  <2> QED
    BY <2>1 DEF Log!Next
<1>5. ASSUME NEW l \in Logics, NEW m \in Msgs, SingleInsert(l, m) PROVE Log!Next
  <2>0. \A n \in Msgs, v \in Users : n # m => rows'[n][v] = rows[n][v]
    BY <1>5, <1>b, KindFacts, InsertRowLocal DEF SingleInsert
  <2>1. up[m] # "new" /\ UNCHANGED down
    BY <1>5, <1>p DEF SingleInsert
  <2>2. CASE UNCHANGED up
    BY <1>r, <2>0, <2>1, <2>2
  <2>3. CASE Settle(l, m, "dead") /\ owner[m] = l
    <3>1. up[m] = "unacked" /\ up' = [up EXCEPT ![m] = "dead"]
      BY <1>i, <2>3, NoneIsNoLogic DEF Settle, OwnedUnacked
    <3> DEFINE L == {x \in Msgs \X Users : rows[x[1]][x[2]] > 0}
               St == [n \in Msgs |-> IF up[n] \in {"ready", "unacked"} THEN "accepted" ELSE up[n]]
    <3>a. L \subseteq L'
      BY <1>g
    <3>b. L' \ L \subseteq {m} \X Users
      BY <2>0
    <3>c. St[m] = "accepted" /\ St' = [St EXCEPT ![m] = "dead"]
      BY <1>b, <3>1 DEF BrokerOK
    <3>2. Log!DeadLetter(m)
      BY <2>1, <3>a, <3>b, <3>c DEF Log!DeadLetter
    <3> QED
      BY <3>2 DEF Log!Next
  <2> QED
    BY <1>5, <2>2, <2>3 DEF SingleInsert, Settle, brokerVars
<1>6. ASSUME NEW l \in Logics, NEW m \in Msgs, UpdateConversation(l, m) PROVE Log!Next
  BY <1>6, <1>r DEF UpdateConversation, brokerVars
<1>7. ASSUME NEW l \in Logics, NEW m \in Msgs, PushDown(l, m) PROVE Log!Next
  <2>1. up[m] # "new" /\ UNCHANGED rows
    BY <1>7, <1>p DEF PushDown
  <2>2. down \subseteq down' /\ \A n \in Msgs, v \in Users : <<n, v>> \in down' /\ <<n, v>> \notin down => n = m
    BY <1>7 DEF PushDown
  <2>3. Calm
    BY <1>7, <1>s DEF PushDown, brokerVars
  <2> QED
    BY <1>r, <2>1, <2>2, <2>3
<1>8. ASSUME NEW l \in Logics, NEW m \in Msgs, Ack(l, m) PROVE Log!Next
  <2>1. CASE owner[m] # l
    BY <1>8, <1>r, <2>1 DEF Ack, Settle
  <2>2. CASE owner[m] = l
    <3>1. up[m] = "unacked" /\ up' = [up EXCEPT ![m] = "acked"]
      BY <1>8, <1>i, <2>2, NoneIsNoLogic DEF Ack, Settle, OwnedUnacked
    <3>2. m \in Single \cup AI => Receiver[m] \in Users /\ rows[m][Receiver[m]] > 0
      BY <1>8, <1>i, KindFacts DEF Ack, StageSound
    <3>3. Log!Acknowledge(m)
      BY <1>8, <1>b, <3>1, <3>2 DEF Ack, Log!Acknowledge, BrokerOK
    <3> QED
      BY <3>3 DEF Log!Next
  <2> QED
    BY <2>1, <2>2
<1>9. ASSUME NEW l \in Logics, NEW m \in Msgs, GroupMembers(l, m) PROVE Log!Next
  BY <1>9, <1>r, <1>s DEF GroupMembers, brokerVars, storeVars
<1>10. ASSUME NEW l \in Logics, NEW m \in Msgs, NEW u \in Users, GroupMember(l, m, u)
       PROVE Log!Next
  <2>1. up[m] # "new" /\ UNCHANGED up
    BY <1>10, <1>p DEF GroupMember, brokerVars
  <2>2. down \subseteq down' /\ \A n \in Msgs, v \in Users : <<n, v>> \in down' /\ <<n, v>> \notin down => n = m
    BY <1>10 DEF GroupMember, Notify, NotifyPartly, Published
  <2>3. \A n \in Msgs, v \in Users : n # m => rows'[n][v] = rows[n][v]
    BY <1>10, <1>b, InsertRowLocal DEF GroupMember
  <2> QED
    BY <1>r, <2>1, <2>2, <2>3
<1>11. ASSUME NEW l \in Logics, NEW m \in Msgs, HandleAI(l, m) PROVE Log!Next
  <2>1. up[m] # "new" /\ UNCHANGED down
    BY <1>11, <1>p DEF HandleAI
  <2>2. \A n \in Msgs, v \in Users : n # m => rows'[n][v] = rows[n][v]
    BY <1>11, <1>b, KindFacts, InsertRowLocal DEF HandleAI
  <2>3. Calm
    BY <1>11, <1>s DEF HandleAI, brokerVars
  <2> QED
    BY <1>r, <2>1, <2>2, <2>3
<1>12. ASSUME NEW l \in Logics, NEW B \in SUBSET Single, LookupRoutes(l, B) PROVE Log!Next
  BY <1>12, <1>r DEF LookupRoutes, brokerVars, storeVars
<1>13. ASSUME NEW l \in Logics, BatchInsert(l) PROVE Log!Next
  <2> DEFINE B == {m \in Single : stage[l][m] = "routed"}
  <2>1. \A n \in Msgs, v \in Users : n \notin B => rows'[n][v] = rows[n][v]
    BY <1>13, <1>b, InsertAllLocal DEF BatchInsert
  <2>2. \A n \in B : up[n] # "new"
    BY <1>p, KindFacts
  <2> QED
    BY <1>13, <1>r, <2>1, <2>2 DEF BatchInsert, brokerVars
<1>14. ASSUME NEW l \in Logics, Crash(l) \/ LoseConnection(l) PROVE Log!Next
  <2>1. Calm
    BY <1>14, <1>i, <1>b, NoneIsNoLogic DEF Crash, LoseConnection, Requeue, OwnedUnacked, BrokerOK
  <2> QED
    BY <1>14, <1>r, <2>1 DEF Crash, LoseConnection, storeVars
<1>16. CASE UNCHANGED vars
  BY <1>16, <1>r DEF vars
<1> QED
  BY <1>1, <1>2, <1>3, <1>4, <1>5, <1>6, <1>7, <1>8, <1>9, <1>10, <1>11, <1>12, <1>13,
     <1>14, <1>16 DEF Next, Instance, Work

\* The upload consumer implements the message log.
THEOREM Refinement == Spec => ImplementsLog
<1>1. Init => Log!Init
  BY DEF Init, Log!Init
<1> QED
  BY <1>1, RefinementStep, Invariance, PTL DEF Spec, ImplementsLog, Log!Spec

-----------------------------------------------------------------------------
(* Snowflake: the generator never goes back.                               *)

(* The last identifier is not above the one the generator's fields stand   *)
(* for; the fields stay within their sizes (snowflake.go: s.sequence &     *)
(* maxSequence).                                                           *)
SnowInv ==
  /\ lastTimestamp \in [Nodes -> Nat]
  /\ sequence \in [Nodes -> 0 .. SeqSize - 1]
  /\ lastId \in [Nodes -> Nat]
  /\ \A n \in Nodes : lastId[n] <= Compose(lastTimestamp[n], n, sequence[n])

(* An identifier is a natural number.                                      *)
LEMMA ComposeNat ==
  ASSUME NEW t \in Nat, NEW n \in Nodes, NEW s \in 0 .. SeqSize - 1
  PROVE  Compose(t, n, s) \in Nat
<1>1. n \in Nat /\ NodeSize \in Nat /\ SeqSize \in Nat /\ s \in Nat
  BY SnowflakeSizes
<1>2. t * NodeSize \in Nat
  BY <1>1
<1>3. (t * NodeSize + n) * SeqSize \in Nat
  BY <1>1, <1>2
<1> QED BY <1>1, <1>3 DEF Compose

(* Within a millisecond identifiers follow the sequence.                   *)
LEMMA SameTimeOrder ==
  ASSUME NEW t \in Nat, NEW n \in Nodes,
         NEW s \in 0 .. SeqSize - 1, NEW r \in 0 .. SeqSize - 1, s < r
  PROVE  Compose(t, n, s) < Compose(t, n, r)
<1>1. n \in Nat /\ NodeSize \in Nat /\ SeqSize \in Nat
  BY SnowflakeSizes
<1>2. (t * NodeSize + n) * SeqSize \in Nat
  BY <1>1
<1> QED BY <1>1, <1>2 DEF Compose

(* A larger block number outweighs every offset inside the blocks.         *)
LEMMA BlockOrder ==
  ASSUME NEW a \in Nat, NEW b \in Nat, NEW k \in Nat \ {0}, a < b
  PROVE  a * k + k <= b * k
<1>1. PICK d \in Nat : b = a + 1 + d
  <2>1. b - a - 1 \in Nat /\ b = a + 1 + (b - a - 1)
    OBVIOUS
  <2> QED BY <2>1
<1>2. b * k = a * k + k + d * k
  BY <1>1
<1>3. d * k \in Nat /\ a * k \in Nat
  OBVIOUS
<1> QED BY <1>2, <1>3

(* A later millisecond outweighs the node and the sequence.                *)
LEMMA LaterTimeOrder ==
  ASSUME NEW t \in Nat, NEW u \in Nat, t < u, NEW n \in Nodes,
         NEW s \in 0 .. SeqSize - 1, NEW r \in 0 .. SeqSize - 1
  PROVE  Compose(t, n, s) < Compose(u, n, r)
<1>1. n \in Nat /\ n < NodeSize /\ NodeSize \in Nat \ {0} /\ SeqSize \in Nat \ {0}
  BY SnowflakeSizes
<1>2. t * NodeSize + NodeSize <= u * NodeSize
  BY <1>1, BlockOrder
<1>3. t * NodeSize \in Nat /\ u * NodeSize \in Nat
  BY <1>1
<1> DEFINE a == t * NodeSize + n
           b == u * NodeSize + n
<1>4. a \in Nat /\ b \in Nat /\ a < b
  BY <1>1, <1>2, <1>3
<1> HIDE DEF a, b
<1>5. a * SeqSize + SeqSize <= b * SeqSize
  BY <1>1, <1>4, BlockOrder
<1>6. a * SeqSize \in Nat /\ b * SeqSize \in Nat
  BY <1>1, <1>4
<1>7. a * SeqSize + s < b * SeqSize + r
  BY <1>1, <1>5, <1>6
<1> QED BY <1>7 DEF Compose, a, b

(* Taking a number apart in blocks of k gives back its parts.              *)
LEMMA BlockParts ==
  ASSUME NEW a \in Nat, NEW k \in Nat \ {0}, NEW r \in 0 .. k - 1
  PROVE  (a * k + r) \div k = a /\ (a * k + r) % k = r
OBVIOUS

(* ParseSnowflakeID finds the node Generate put in.                        *)
LEMMA ParseNode ==
  ASSUME NEW t \in Nat, NEW n \in Nodes, NEW s \in 0 .. SeqSize - 1
  PROVE  Parse(Compose(t, n, s)).node = n
<1>1. n \in 0 .. NodeSize - 1 /\ NodeSize \in Nat \ {0} /\ SeqSize \in Nat \ {0}
  BY SnowflakeSizes
<1> DEFINE a == t * NodeSize + n
<1>2. a \in Nat
  BY <1>1
<1>3. a % NodeSize = n
  BY <1>1, BlockParts
<1> HIDE DEF a
<1>4. (a * SeqSize + s) \div SeqSize = a
  BY <1>1, <1>2, BlockParts
<1>5. Compose(t, n, s) = a * SeqSize + s
  BY DEF Compose, a
<1> QED BY <1>3, <1>4, <1>5 DEF Parse

(* A step of one generator, seen from its own fields (Generate): a later   *)
(* millisecond, or the same one with a larger sequence.                    *)
LEMMA GenerateStep ==
  ASSUME SnowInv, NEW n \in Nodes, Generate(n)
  PROVE  \E t \in Nat, s \in 0 .. SeqSize - 1 :
           /\ lastTimestamp' = [lastTimestamp EXCEPT ![n] = t]
           /\ sequence' = [sequence EXCEPT ![n] = s]
           /\ lastId' = [lastId EXCEPT ![n] = Compose(t, n, s)]
           /\ \/ lastTimestamp[n] < t
              \/ lastTimestamp[n] = t /\ sequence[n] < s
<1> DEFINE last == lastTimestamp[n]
           S(first) == IF first = last THEN (sequence[n] + 1) % SeqSize ELSE 0
           Waits(first) == first < last \/ (first = last /\ S(first) = 0)
           T(first, later) == IF Waits(first) THEN later ELSE first
<1>1. PICK first \in 1 .. MaxTime, later \in 1 .. MaxTime :
        /\ Waits(first) => later > last
        /\ lastTimestamp' = [lastTimestamp EXCEPT ![n] = T(first, later)]
        /\ sequence' = [sequence EXCEPT ![n] = S(first)]
        /\ lastId' = [lastId EXCEPT ![n] = Compose(T(first, later), n, S(first))]
  BY DEF Generate
<1>2. last \in Nat /\ sequence[n] \in 0 .. SeqSize - 1 /\ SeqSize \in Nat \ {0} /\ MaxTime \in Nat
  BY SnowflakeSizes DEF SnowInv
<1>3. S(first) \in 0 .. SeqSize - 1 /\ T(first, later) \in Nat
  BY <1>2
<1>4. first = last /\ S(first) # 0 => sequence[n] < S(first)
  <2>1. CASE sequence[n] + 1 = SeqSize
    BY <1>2, <2>1
  <2>2. CASE sequence[n] + 1 < SeqSize
    BY <1>2, <2>2
  <2> QED BY <1>2, <2>1, <2>2
<1>5. last < T(first, later) \/ (last = T(first, later) /\ sequence[n] < S(first))
  BY <1>1, <1>2, <1>4
<1> HIDE DEF S, T, Waits
<1> QED BY <1>1, <1>3, <1>5

(* Every identifier Generate returns is larger than the one before.        *)
LEMMA StepIncreases ==
  ASSUME SnowInv, NEW n \in Nodes, Generate(n)
  PROVE  /\ SnowInv'
         /\ lastId'[n] > lastId[n] /\ Parse(lastId'[n]).node = n
         /\ \A m \in Nodes \ {n} : lastId'[m] = lastId[m]
<1>1. PICK t \in Nat, s \in 0 .. SeqSize - 1 :
        /\ lastTimestamp' = [lastTimestamp EXCEPT ![n] = t]
        /\ sequence' = [sequence EXCEPT ![n] = s]
        /\ lastId' = [lastId EXCEPT ![n] = Compose(t, n, s)]
        /\ \/ lastTimestamp[n] < t
           \/ lastTimestamp[n] = t /\ sequence[n] < s
  BY GenerateStep
<1>2. Compose(t, n, s) \in Nat /\ Parse(Compose(t, n, s)).node = n
  BY ComposeNat, ParseNode
<1>3. lastTimestamp[n] \in Nat /\ sequence[n] \in 0 .. SeqSize - 1
  BY DEF SnowInv
<1>4. Compose(lastTimestamp[n], n, sequence[n]) < Compose(t, n, s)
  <2>1. CASE lastTimestamp[n] < t
    BY <1>3, <2>1, LaterTimeOrder
  <2>2. CASE lastTimestamp[n] = t /\ sequence[n] < s
    BY <1>3, <2>2, SameTimeOrder
  <2> QED BY <1>1, <2>1, <2>2
<1>5. Compose(lastTimestamp[n], n, sequence[n]) \in Nat
  BY <1>3, ComposeNat
<1>6. lastId[n] < Compose(t, n, s)
  BY <1>2, <1>4, <1>5 DEF SnowInv
<1>7. SnowInv'
  <2>1. /\ lastTimestamp' \in [Nodes -> Nat]
        /\ sequence' \in [Nodes -> 0 .. SeqSize - 1]
        /\ lastId' \in [Nodes -> Nat]
    BY <1>1, <1>2 DEF SnowInv
  <2>2. ASSUME NEW m \in Nodes
        PROVE  lastId'[m] <= Compose(lastTimestamp'[m], m, sequence'[m])
    <3>1. CASE m = n
      BY <1>1, <1>2, <3>1 DEF SnowInv
    <3>2. CASE m # n
      BY <1>1, <3>2 DEF SnowInv
    <3> QED BY <3>1, <3>2
  <2> QED BY <2>1, <2>2 DEF SnowInv
<1>8. lastId'[n] = Compose(t, n, s) /\ \A m \in Nodes \ {n} : lastId'[m] = lastId[m]
  BY <1>1 DEF SnowInv
<1> QED BY <1>2, <1>6, <1>7, <1>8

(* The invariant holds at the start (NewSnowflake).                        *)
LEMMA SnowStart == SnowInit => SnowInv
<1> SUFFICES ASSUME SnowInit PROVE SnowInv
  OBVIOUS
<1>1. /\ lastTimestamp \in [Nodes -> Nat] /\ sequence \in [Nodes -> 0 .. SeqSize - 1]
      /\ lastId \in [Nodes -> Nat]
  BY SnowflakeSizes DEF SnowInit
<1>2. ASSUME NEW n \in Nodes
      PROVE  lastId[n] <= Compose(lastTimestamp[n], n, sequence[n])
  <2>1. Compose(lastTimestamp[n], n, sequence[n]) \in Nat
    BY <1>1, ComposeNat
  <2>2. lastId[n] = 0
    BY DEF SnowInit
  <2> QED BY <2>1, <2>2
<1> QED BY <1>1, <1>2 DEF SnowInv

(* The generators' fields stay within their sizes, and every identifier    *)
(* given out is covered by them: the inductive invariant of Generate.      *)
THEOREM SnowInvariance == SnowSpec => []SnowInv
<1>1. SnowInv /\ [SnowNext]_snowVars => SnowInv'
  <2> SUFFICES ASSUME SnowInv, [SnowNext]_snowVars PROVE SnowInv'
    OBVIOUS
  <2>1. CASE SnowNext
    BY <2>1, StepIncreases DEF SnowNext
  <2>2. CASE UNCHANGED snowVars
    BY <2>2 DEF SnowInv, snowVars, Compose
  <2> QED BY <2>1, <2>2
<1> QED BY <1>1, SnowStart, PTL DEF SnowSpec

(* For any node numbers and field sizes, an identifier Generate returns is *)
(* larger than the generator's earlier ones and ParseSnowflakeID finds its *)
(* node in it, whatever the clock shows.                                   *)
THEOREM GeneratorNeverGoesBack == SnowSpec => IdsIncrease
<1>1. SnowInv /\ [SnowNext]_snowVars =>
        [\A n \in Nodes : lastId'[n] # lastId[n] =>
           lastId'[n] > lastId[n] /\ Parse(lastId'[n]).node = n]_snowVars
  <2> SUFFICES ASSUME SnowInv, SnowNext, NEW n \in Nodes, lastId'[n] # lastId[n]
               PROVE  lastId'[n] > lastId[n] /\ Parse(lastId'[n]).node = n
    OBVIOUS
  <2>1. PICK k \in Nodes : Generate(k)
    BY DEF SnowNext
  <2>2. k = n
    BY <2>1, StepIncreases
  <2> QED BY <2>1, <2>2, StepIncreases
<1> QED BY <1>1, SnowInvariance, PTL DEF SnowSpec, IdsIncrease

-----------------------------------------------------------------------------
(* Ingress: what is acknowledged is published, under a name of its own.    *)

(* The variables the invariant is about.                                   *)
Undecided == {"unread", "sse", "seq", "id", "publish"}
Decided == {"ack", "dropped", "done"}

IngressTypes ==
  /\ fpc \in [Frames -> Undecided \cup Decided]
  /\ seq \in [Frames -> Nat] /\ msgID \in [Frames -> Nat]
  /\ counter \in [Convs \X Senders -> Nat]

(* A number is covered by its counter and used once.                       *)
SameStream(e, f) == ConvOf[e] = ConvOf[f] /\ From[e] = From[f]

NumbersOnce ==
  /\ \A f \in Frames : seq[f] <= counter[<<ConvOf[f], From[f]>>]
  /\ \A e, f \in Frames : e # f /\ SameStream(e, f) /\ seq[e] = seq[f] => seq[e] = 0

(* An identifier names its gateway, is covered by the generator and used   *)
(* once.                                                                   *)
IdsOnce ==
  /\ \A f \in Frames : msgID[f] # 0 =>
       Parse(msgID[f]).node = GatewayOf[From[f]] /\ msgID[f] <= lastId[GatewayOf[From[f]]]
  /\ \A e, f \in Frames : e # f /\ msgID[e] = msgID[f] => msgID[e] = 0

(* What the broker has is what a frame carries for good.                   *)
PayloadsSettled ==
  /\ \A p \in broker \cup unrouted :
       p.frame \in Frames /\ p = Payload(p.frame) /\ fpc[p.frame] \in Decided
  /\ \A f \in Frames : fpc[f] = "ack" => Payload(f) \in broker \cup unrouted
  /\ acks \subseteq broker \cup unrouted

IngressInv ==
  SnowInv /\ IngressTypes /\ NumbersOnce /\ IdsOnce /\ PayloadsSettled

(* The generators alone.                                                   *)
LEMMA SnowSame == SnowInv /\ UNCHANGED snowVars => SnowInv' /\ lastId' = lastId
BY DEF SnowInv, snowVars, Compose

(* Senders and gateways of frames.                                         *)
LEMMA FrameKeys ==
  \A f \in Frames : /\ <<ConvOf[f], From[f]>> \in Convs \X Senders
                    /\ GatewayOf[From[f]] \in Nodes
BY FramesAssumption DEF Convs, Senders

(* The start.                                                              *)
LEMMA IngressStart == IngressInit => IngressInv
<1> SUFFICES ASSUME IngressInit PROVE IngressInv
  OBVIOUS
<1>1. IngressTypes
  BY DEF IngressInit, IngressTypes, Undecided
<1>2. NumbersOnce
  BY FrameKeys DEF IngressInit, NumbersOnce
<1>3. IdsOnce
  BY DEF IngressInit, IdsOnce
<1>4. PayloadsSettled
  BY DEF IngressInit, InitRabbitMQ, PayloadsSettled
<1> QED BY <1>1, <1>2, <1>3, <1>4, SnowStart DEF IngressInv, IngressInit

(* Steps that leave the numbers and the broker alone and decide no frame.  *)
LEMMA QuietKeeps ==
  ASSUME IngressInv, UNCHANGED <<snowVars, counter, seq, msgID, broker, unrouted, acks>>,
         \/ UNCHANGED fpc
         \/ \E f \in Frames, p \in Undecided \cup {"dropped"} :
              fpc[f] \in Undecided /\ fpc' = [fpc EXCEPT ![f] = p]
  PROVE  IngressInv'
<1>1. SnowInv' /\ lastId' = lastId
  BY SnowSame DEF IngressInv
<1>2. /\ fpc' \in [Frames -> Undecided \cup Decided]
      /\ \A f \in Frames : \/ fpc'[f] = fpc[f]
                           \/ fpc[f] \in Undecided /\ fpc'[f] \in Undecided \cup {"dropped"}
  BY DEF IngressInv, IngressTypes, Undecided, Decided
<1>3. IngressTypes'
  BY <1>2 DEF IngressInv, IngressTypes
<1>4. NumbersOnce' /\ IdsOnce'
  BY <1>1 DEF IngressInv, NumbersOnce, IdsOnce
<1>5. \A f : Payload(f)' = Payload(f)
  BY DEF Payload
<1>6. PayloadsSettled'
  <2>1. ASSUME NEW p \in broker' \cup unrouted'
        PROVE  p.frame \in Frames /\ p = Payload(p.frame)' /\ fpc'[p.frame] \in Decided
    <3>1. p.frame \in Frames /\ p = Payload(p.frame) /\ fpc[p.frame] \in Decided
      BY DEF IngressInv, PayloadsSettled
    <3>2. fpc'[p.frame] = fpc[p.frame]
      BY <1>2, <3>1 DEF Undecided, Decided
    <3> QED BY <1>5, <3>1, <3>2
  <2>2. ASSUME NEW f \in Frames, fpc'[f] = "ack" PROVE Payload(f)' \in broker' \cup unrouted'
    <3>1. fpc[f] = "ack"
      BY <1>2, <2>2 DEF Undecided
    <3> QED BY <1>5, <3>1 DEF IngressInv, PayloadsSettled
  <2> QED BY <2>1, <2>2 DEF IngressInv, PayloadsSettled
<1> QED BY <1>1, <1>3, <1>4, <1>6 DEF IngressInv

(* What a frame carries may change as long as it is undecided.             *)
LEMMA NumbersKeepBroker ==
  ASSUME IngressInv, NEW f \in Frames, fpc[f] \in Undecided,
         NEW p \in Undecided, fpc' = [fpc EXCEPT ![f] = p],
         UNCHANGED <<broker, unrouted, acks>>,
         \A e \in Frames \ {f} : seq'[e] = seq[e] /\ msgID'[e] = msgID[e]
  PROVE  PayloadsSettled' /\ fpc' \in [Frames -> Undecided \cup Decided]
<1>1. fpc \in [Frames -> Undecided \cup Decided]
  BY DEF IngressInv, IngressTypes
<1>2. fpc' \in [Frames -> Undecided \cup Decided] /\ fpc'[f] = p
      /\ \A e \in Frames \ {f} : fpc'[e] = fpc[e]
  BY <1>1
<1>3. \A e \in Frames \ {f} : Payload(e)' = Payload(e)
  BY DEF Payload
<1>4. ASSUME NEW q \in broker' \cup unrouted'
      PROVE  q.frame \in Frames /\ q = Payload(q.frame)' /\ fpc'[q.frame] \in Decided
  <2>1. q.frame \in Frames /\ q = Payload(q.frame) /\ fpc[q.frame] \in Decided
    BY DEF IngressInv, PayloadsSettled
  <2>2. q.frame # f
    BY <2>1 DEF Undecided, Decided
  <2> QED BY <1>2, <1>3, <2>1, <2>2
<1>5. ASSUME NEW e \in Frames, fpc'[e] = "ack" PROVE Payload(e)' \in broker' \cup unrouted'
  <2>1. e # f /\ fpc[e] = "ack"
    BY <1>2, <1>5 DEF Undecided
  <2> QED BY <1>3, <2>1 DEF IngressInv, PayloadsSettled
<1> QED BY <1>2, <1>4, <1>5 DEF IngressInv, PayloadsSettled

(* GetNextSeqID: the raised counter is larger than every number before.    *)
LEMMA GetNextSeqIDKeeps ==
  ASSUME IngressInv, NEW f \in Frames, GetNextSeqID(f)
  PROVE  IngressInv'
<1> DEFINE k == <<ConvOf[f], From[f]>>
<1>1. /\ fpc[f] = "seq" /\ UNCHANGED <<snowVars, msgID, broker, unrouted, acks>>
  BY DEF GetNextSeqID, mqVars
<1>2. CASE UNCHANGED <<counter, seq>> /\ (FrameGoto(f, "dropped") \/ FrameGoto(f, "publish"))
  <2>1. fpc[f] \in Undecided /\ {"dropped", "publish"} \subseteq Undecided \cup {"dropped"}
    BY <1>1 DEF Undecided
  <2> QED BY <1>1, <1>2, <2>1, QuietKeeps DEF FrameGoto
<1>3. CASE /\ counter' = [counter EXCEPT ![k] = @ + 1]
           /\ seq' = [seq EXCEPT ![f] = counter'[k]] /\ FrameGoto(f, "id")
  <2>1. k \in Convs \X Senders
    BY FrameKeys
  <2> HIDE DEF k
  <2>2. /\ counter[k] \in Nat /\ counter'[k] = counter[k] + 1
        /\ \A j \in Convs \X Senders : j # k => counter'[j] = counter[j]
        /\ counter' \in [Convs \X Senders -> Nat]
    BY <1>3, <2>1 DEF IngressInv, IngressTypes
  <2>3. seq'[f] = counter[k] + 1 /\ (\A e \in Frames \ {f} : seq'[e] = seq[e])
        /\ seq' \in [Frames -> Nat]
    BY <1>3, <2>2 DEF IngressInv, IngressTypes
  <2>4. PayloadsSettled' /\ fpc' \in [Frames -> Undecided \cup Decided]
    <3>1. fpc[f] \in Undecided /\ "id" \in Undecided
      BY <1>1 DEF Undecided
    <3> QED BY <1>1, <1>3, <2>3, <3>1, NumbersKeepBroker DEF FrameGoto
  <2>5. IngressTypes'
    <3>1. msgID' \in [Frames -> Nat]
      BY <1>1 DEF IngressInv, IngressTypes
    <3> QED BY <2>2, <2>3, <2>4, <3>1 DEF IngressTypes
  <2>6. \A e \in Frames : seq[e] \in Nat /\ seq[e] <= counter[<<ConvOf[e], From[e]>>]
                          /\ <<ConvOf[e], From[e]>> \in Convs \X Senders
                          /\ counter[<<ConvOf[e], From[e]>>] \in Nat
    BY FrameKeys DEF IngressInv, IngressTypes, NumbersOnce
  <2>7. ASSUME NEW e \in Frames PROVE seq'[e] <= counter'[<<ConvOf[e], From[e]>>]
    <3>1. CASE e = f
      BY <2>2, <2>3, <3>1 DEF k
    <3>2. CASE e # f
      <4>1. counter[<<ConvOf[e], From[e]>>] <= counter'[<<ConvOf[e], From[e]>>]
        BY <2>2, <2>6
      <4>2. counter'[<<ConvOf[e], From[e]>>] \in Nat
        BY <2>2, <2>6
      <4> QED BY <2>3, <2>6, <3>2, <4>1, <4>2
    <3> QED BY <3>1, <3>2
  <2>8. ASSUME NEW e \in Frames, e # f, SameStream(e, f) PROVE seq'[e] < seq'[f] /\ seq'[e] # seq'[f]
    <3>1. <<ConvOf[e], From[e]>> = k
      BY <2>8 DEF SameStream, k
    <3>2. seq[e] \in Nat /\ seq[e] <= counter[k]
      BY <2>6, <3>1
    <3> QED BY <2>2, <2>3, <2>8, <3>2
  <2>9. ASSUME NEW e \in Frames, NEW g \in Frames, e # g, SameStream(e, g), seq'[e] = seq'[g]
        PROVE  seq'[e] = 0
    <3>1. SameStream(g, e)
      BY <2>9 DEF SameStream
    <3>2. e # f /\ g # f
      BY <2>8, <2>9, <3>1
    <3> QED BY <2>3, <2>9, <3>2 DEF IngressInv, NumbersOnce
  <2>10. NumbersOnce'
    BY <2>7, <2>9 DEF NumbersOnce
  <2>11. SnowInv' /\ lastId' = lastId
    BY <1>1, SnowSame DEF IngressInv
  <2>12. IdsOnce'
    BY <1>1, <2>11 DEF IngressInv, IdsOnce
  <2> QED BY <2>4, <2>5, <2>10, <2>11, <2>12 DEF IngressInv
<1> QED BY <1>2, <1>3 DEF GetNextSeqID

(* GenerateMsgID: the identifier is new among those of its gateway, and    *)
(* the others name other gateways.                                         *)
LEMMA GenerateMsgIDKeeps ==
  ASSUME IngressInv, NEW f \in Frames, GenerateMsgID(f)
  PROVE  IngressInv'
<1> DEFINE n == GatewayOf[From[f]]
<1>1. /\ fpc[f] = "id" /\ Generate(n) /\ msgID' = [msgID EXCEPT ![f] = lastId'[n]]
      /\ fpc' = [fpc EXCEPT ![f] = "publish"]
      /\ UNCHANGED <<counter, seq, broker, unrouted, acks>>
  BY DEF GenerateMsgID, FrameGoto, mqVars
<1>2. n \in Nodes
  BY FrameKeys
<1> HIDE DEF n
<1>3. /\ SnowInv' /\ lastId'[n] > lastId[n] /\ Parse(lastId'[n]).node = n
      /\ \A m \in Nodes \ {n} : lastId'[m] = lastId[m]
  BY <1>1, <1>2, StepIncreases DEF IngressInv
<1>4. /\ \A m \in Nodes : lastId[m] \in Nat /\ lastId'[m] \in Nat /\ lastId[m] <= lastId'[m]
  BY <1>2, <1>3 DEF IngressInv, SnowInv
<1>5. /\ msgID' \in [Frames -> Nat] /\ msgID'[f] = lastId'[n]
      /\ \A e \in Frames \ {f} : msgID'[e] = msgID[e]
  BY <1>1, <1>2, <1>4 DEF IngressInv, IngressTypes
<1>6. PayloadsSettled' /\ fpc' \in [Frames -> Undecided \cup Decided]
  <2>1. fpc[f] \in Undecided /\ "publish" \in Undecided
    BY <1>1 DEF Undecided
  <2> QED BY <1>1, <1>5, <2>1, NumbersKeepBroker
<1>7. IngressTypes' /\ NumbersOnce'
  BY <1>1, <1>5, <1>6 DEF IngressInv, IngressTypes, NumbersOnce
<1>8. ASSUME NEW e \in Frames, msgID'[e] # 0
      PROVE  Parse(msgID'[e]).node = GatewayOf[From[e]] /\ msgID'[e] <= lastId'[GatewayOf[From[e]]]
  <2>1. CASE e = f
    BY <1>2, <1>3, <1>4, <1>5, <2>1 DEF n
  <2>2. CASE e # f
    <3>1. msgID[e] # 0 /\ msgID'[e] = msgID[e] /\ msgID[e] \in Nat /\ GatewayOf[From[e]] \in Nodes
      BY <1>5, <1>8, <2>2, FrameKeys DEF IngressInv, IngressTypes
    <3>2. Parse(msgID[e]).node = GatewayOf[From[e]] /\ msgID[e] <= lastId[GatewayOf[From[e]]]
      BY <3>1 DEF IngressInv, IdsOnce
    <3> QED BY <1>4, <3>1, <3>2
  <2> QED BY <2>1, <2>2
<1>9. ASSUME NEW e \in Frames, e # f PROVE msgID'[e] # msgID'[f]
  <2>1. msgID'[e] = msgID[e] /\ msgID[e] \in Nat
    BY <1>5, <1>9 DEF IngressInv, IngressTypes
  <2>2. CASE msgID[e] = 0
    BY <1>2, <1>3, <1>4, <1>5, <2>1, <2>2
  <2>3. CASE msgID[e] # 0 /\ GatewayOf[From[e]] # n
    <3>1. Parse(msgID[e]).node # Parse(lastId'[n]).node
      BY <1>3, <2>3 DEF IngressInv, IdsOnce
    <3> QED BY <1>5, <2>1, <3>1
  <2>4. CASE msgID[e] # 0 /\ GatewayOf[From[e]] = n
    <3>1. msgID[e] <= lastId[n]
      BY <2>4 DEF IngressInv, IdsOnce
    <3> QED BY <1>2, <1>3, <1>4, <1>5, <2>1, <3>1
  <2> QED BY <2>2, <2>3, <2>4
<1>10. ASSUME NEW e \in Frames, NEW g \in Frames, e # g, msgID'[e] = msgID'[g] PROVE msgID'[e] = 0
  <2>1. e # f /\ g # f
    BY <1>9, <1>10
  <2> QED BY <1>5, <1>10, <2>1 DEF IngressInv, IdsOnce
<1>11. IdsOnce'
  BY <1>8, <1>10 DEF IdsOnce
<1> QED BY <1>3, <1>6, <1>7, <1>11 DEF IngressInv

(* PublishUpload and ServerAck: the payload is the frame's, for good.      *)
LEMMA PublishKeeps ==
  ASSUME IngressInv, NEW f \in Frames, PublishUpload(f) \/ ServerAck(f)
  PROVE  IngressInv'
<1>1. UNCHANGED <<snowVars, counter, seq, msgID>>
  BY DEF PublishUpload, ServerAck
<1>2. /\ fpc[f] \in {"publish", "ack"}
      /\ \E p \in Decided : fpc' = [fpc EXCEPT ![f] = p]
  BY DEF PublishUpload, ServerAck, FrameGoto, Decided
<1>3. /\ broker \cup unrouted \subseteq broker' \cup unrouted'
      /\ broker' \cup unrouted' \subseteq broker \cup unrouted \cup {Payload(f)}
      /\ fpc' = [fpc EXCEPT ![f] = "ack"] => Payload(f) \in broker' \cup unrouted'
      /\ acks' \subseteq acks \cup {Payload(f)}
      /\ acks' # acks => fpc[f] = "ack"
  <2>1. CASE PublishUpload(f)
    <3>1. Routed(f) => /\ broker \cup unrouted \subseteq broker' \cup unrouted'
                       /\ broker' \cup unrouted' \subseteq broker \cup unrouted \cup {Payload(f)}
                       /\ Payload(f) \in broker' \cup unrouted'
      BY DEF Routed
    <3>2. acks' = acks /\ fpc[f] = "publish"
      BY <2>1 DEF PublishUpload
    <3>3. \/ Routed(f)
          \/ UNCHANGED <<broker, unrouted>> /\ fpc' = [fpc EXCEPT ![f] = "dropped"]
      BY <2>1 DEF PublishUpload, FrameGoto
    <3>4. [fpc EXCEPT ![f] = "dropped"] # [fpc EXCEPT ![f] = "ack"]
      BY DEF IngressInv, IngressTypes
    <3> QED BY <3>1, <3>2, <3>3, <3>4
  <2>2. CASE ServerAck(f)
    <3>1. /\ UNCHANGED <<broker, unrouted>> /\ fpc' = [fpc EXCEPT ![f] = "done"] /\ fpc[f] = "ack"
          /\ acks' \in {acks, acks \cup {Payload(f)}}
      BY <2>2 DEF ServerAck, FrameGoto, mqVars
    <3>2. [fpc EXCEPT ![f] = "done"] # [fpc EXCEPT ![f] = "ack"]
      BY DEF IngressInv, IngressTypes
    <3> QED BY <3>1, <3>2
  <2> QED BY <2>1, <2>2
<1>4. \A e : Payload(e)' = Payload(e)
  BY <1>1 DEF Payload
<1>5. Payload(f).frame = f
  BY DEF Payload
<1>6. /\ fpc' \in [Frames -> Undecided \cup Decided] /\ fpc'[f] \in Decided
      /\ \A e \in Frames \ {f} : fpc'[e] = fpc[e]
      /\ fpc'[f] = "ack" => fpc' = [fpc EXCEPT ![f] = "ack"]
  BY <1>2 DEF IngressInv, IngressTypes
<1>7. PayloadsSettled'
  <2>1. ASSUME NEW p \in broker' \cup unrouted'
        PROVE  p.frame \in Frames /\ p = Payload(p.frame)' /\ fpc'[p.frame] \in Decided
    <3>1. CASE p = Payload(f)
      BY <1>4, <1>5, <1>6, <3>1
    <3>2. CASE p \in broker \cup unrouted
      BY <1>4, <1>6, <3>2 DEF IngressInv, PayloadsSettled
    <3> QED BY <1>3, <3>1, <3>2
  <2>2. ASSUME NEW e \in Frames, fpc'[e] = "ack" PROVE Payload(e)' \in broker' \cup unrouted'
    <3>1. CASE e = f
      BY <1>3, <1>4, <1>6, <2>2, <3>1
    <3>2. CASE e # f
      BY <1>3, <1>4, <1>6, <2>2, <3>2 DEF IngressInv, PayloadsSettled
    <3> QED BY <3>1, <3>2
  <2>3. acks' \subseteq broker' \cup unrouted'
    BY <1>3 DEF IngressInv, PayloadsSettled
  <2> QED BY <2>1, <2>2, <2>3 DEF PayloadsSettled
<1>8. SnowInv' /\ lastId' = lastId
  BY <1>1, SnowSame DEF IngressInv
<1>9. IngressTypes' /\ NumbersOnce' /\ IdsOnce'
  BY <1>1, <1>6, <1>8 DEF IngressInv, IngressTypes, NumbersOnce, IdsOnce
<1> QED BY <1>7, <1>8, <1>9 DEF IngressInv

(* Every step keeps the invariant.                                         *)
LEMMA IngressStep == IngressInv /\ [IngressNext]_ingressAll => IngressInv'
<1> SUFFICES ASSUME IngressInv, [IngressNext]_ingressAll PROVE IngressInv'
  OBVIOUS
<1>1. ASSUME NEW f \in Frames, ReadFrame(f) \/ OpenStream(f) PROVE IngressInv'
  <2>1. /\ UNCHANGED <<snowVars, counter, seq, msgID, broker, unrouted, acks>>
        /\ fpc[f] \in Undecided
    BY <1>1 DEF ReadFrame, OpenStream, mqVars, Undecided
  <2>2. \E p \in Undecided \cup {"dropped"} : fpc' = [fpc EXCEPT ![f] = p]
    BY <1>1 DEF ReadFrame, OpenStream, FrameGoto, Undecided
  <2> QED BY <2>1, <2>2, QuietKeeps
<1>2. ASSUME NEW f \in Frames, RelayLine(f) \/ RelayEOF(f) PROVE IngressInv'
  <2>1. UNCHANGED <<snowVars, counter, seq, msgID, broker, unrouted, acks, fpc>>
    BY <1>2 DEF RelayLine, RelayEOF, mqVars
  <2> QED BY <2>1, QuietKeeps
<1>3. ASSUME NEW u \in Senders, Login(u) \/ Logout(u) PROVE IngressInv'
  <2>1. UNCHANGED <<snowVars, counter, seq, msgID, broker, unrouted, acks, fpc>>
    BY <1>3 DEF Login, Logout, mqVars
  <2> QED BY <2>1, QuietKeeps
<1>4. CASE ConsumeUploadQueue
  <2>1. UNCHANGED <<snowVars, counter, seq, msgID, broker, unrouted, acks, fpc>>
    BY <1>4 DEF ConsumeUploadQueue
  <2> QED BY <2>1, QuietKeeps
<1>5. CASE UNCHANGED ingressAll
  <2>1. UNCHANGED <<snowVars, counter, seq, msgID, broker, unrouted, acks, fpc>>
    BY <1>5 DEF ingressAll, ingressVars
  <2> QED BY <2>1, QuietKeeps
<1>6. ASSUME NEW f \in Frames, ChatStep(f) PROVE IngressInv'
  BY <1>6, GetNextSeqIDKeeps, GenerateMsgIDKeeps, PublishKeeps DEF ChatStep
<1> QED BY <1>1, <1>2, <1>3, <1>4, <1>5, <1>6
        DEF IngressNext, handleSingleChat, handleGroupChat, handlerAIChat

(* The inductive invariant of the gateway's chat handlers.                 *)
THEOREM IngressInvariance == IngressSpec => []IngressInv
BY IngressStart, IngressStep, PTL DEF IngressSpec

(* What is acknowledged is in the broker's hands, with the identifiers     *)
(* that were acknowledged, for any frames, senders and gateways.           *)
THEOREM AcknowledgedIsPublished == IngressSpec => []AckedIsPublished
<1>1. IngressInv => AckedIsPublished
  BY DEF IngressInv, PayloadsSettled, AckedIsPublished
<1> QED BY <1>1, IngressInvariance, PTL

(* No two payloads share an identifier or a number of a conversation.      *)
THEOREM PayloadsStayDistinct == IngressSpec => []PayloadsDistinct
<1>1. ASSUME IngressInv PROVE PayloadsDistinct
  <2> SUFFICES ASSUME NEW p \in broker, NEW q \in broker, p # q
               PROVE  /\ p.msg = q.msg => p.msg = 0
                      /\ SameStream(p.frame, q.frame) /\ p.seq = q.seq => p.seq = 0
    BY DEF PayloadsDistinct, SameStream
  <2>1. /\ p.frame \in Frames /\ q.frame \in Frames
        /\ p = Payload(p.frame) /\ q = Payload(q.frame)
    BY <1>1 DEF IngressInv, PayloadsSettled
  <2>2. p.frame # q.frame
    BY <2>1
  <2>3. \A f : Payload(f).msg = msgID[f] /\ Payload(f).seq = seq[f]
    BY DEF Payload
  <2>4. p.msg = msgID[p.frame] /\ q.msg = msgID[q.frame] /\ p.seq = seq[p.frame] /\ q.seq = seq[q.frame]
    BY <2>1, <2>3
  <2> QED BY <1>1, <2>1, <2>2, <2>4 DEF IngressInv, NumbersOnce, IdsOnce
<1> QED BY <1>1, IngressInvariance, PTL

-----------------------------------------------------------------------------
(* ChatPath: what both sides of the queue promise together.                *)

\* A step of the composition, seen from the gateways.
LEMMA PathIsIngressStep ==
  ASSUME kind \in Kinds, [PathNext]_pathVars
  PROVE  [IngressNext]_ingressAll
<1>1. ASSUME NEW f \in Frames, Upload(f) PROVE IngressNext
  <2>1. PublishUpload(f) /\ UNCHANGED kind
    BY <1>1 DEF Upload
  <2>2. kind[f] = ChatType(f)
    BY FramesAreMessages
  <2>3. kind[f] \in {"single_chat", "group_chat", "ai_chat"}
    BY <2>2 DEF ChatType
  <2>4. handleSingleChat(f) \/ handleGroupChat(f) \/ handlerAIChat(f)
    BY <2>1, <2>3 DEF handleSingleChat, handleGroupChat, handlerAIChat, ChatStep
  <2> QED  BY <2>1, <2>4 DEF IngressNext
<1>2. CASE Gateway
  BY <1>2 DEF Gateway
<1>3. CASE Consumers \/ \E m \in Msgs \ Frames : Others(m)
  BY <1>3 DEF Consumers, Others
<1>4. CASE UNCHANGED pathVars
  BY <1>4 DEF pathVars
<1> QED  BY <1>1, <1>2, <1>3, <1>4 DEF PathNext

\* The same step, seen from the consumers.
LEMMA PathIsUploadStep == [PathNext]_pathVars => [Next]_vars
<1>1. ASSUME NEW f \in Frames, Upload(f) PROVE Next
  <2>1. f \in Msgs /\ Arrive(f)
    BY <1>1, FramesAreMessages DEF Upload, Msgs
  <2> QED  BY <2>1 DEF Next
<1>2. Gateway => UNCHANGED vars
  BY DEF Gateway
<1>3. Consumers => Next
  BY DEF Consumers, Next
<1>4. ASSUME NEW m \in Msgs \ Frames, Others(m) PROVE Next
  BY <1>4 DEF Others, Next
<1>5. UNCHANGED pathVars => UNCHANGED vars
  BY DEF pathVars
<1> QED  BY <1>1, <1>2, <1>3, <1>4, <1>5 DEF PathNext

\* The chat types of the frames are chosen once.
LEMMA KindsKept == PathSpec => [](kind \in Kinds)
<1>1. PathInit => kind \in Kinds
  BY DEF PathInit, IngressInit
<1>2. kind \in Kinds /\ [PathNext]_pathVars => (kind \in Kinds)'
  BY DEF PathNext, Gateway, Upload, Consumers, Others, IngressNext, pathVars, ingressAll,
     ingressVars
<1> QED  BY <1>1, <1>2, PTL DEF PathSpec

\* Composed over the queue, gateways and consumers each behave as they do
\* alone, so that what is proved of either holds of the whole path.
THEOREM PathKeepsComponents == PathSpec => IngressSpec /\ Spec
<1>1. PathInit => IngressInit /\ Init
  BY DEF PathInit
<1>2. kind \in Kinds /\ [PathNext]_pathVars => [IngressNext]_ingressAll
  BY PathIsIngressStep
<1> QED  BY <1>1, <1>2, PathIsUploadStep, KindsKept, PTL DEF PathSpec, IngressSpec, Spec

\* A gateway's step either leaves queue and acknowledgements alone, or is the
\* publish or the server_ack of one frame.
LEMMA GatewayEffect ==
  ASSUME IngressNext
  PROVE  \/ UNCHANGED <<broker, unrouted, acks>>
         \/ \E f \in Frames : PublishUpload(f) \/ ServerAck(f)
<1>1. ASSUME NEW f \in Frames, ReadFrame(f) \/ OpenStream(f) \/ RelayLine(f) \/ RelayEOF(f)
      PROVE  UNCHANGED <<broker, unrouted, acks>>
  BY <1>1 DEF ReadFrame, OpenStream, RelayLine, RelayEOF, mqVars
<1>2. ASSUME NEW f \in Frames, GetNextSeqID(f) \/ GenerateMsgID(f)
      PROVE  UNCHANGED <<broker, unrouted, acks>>
  BY <1>2 DEF GetNextSeqID, GenerateMsgID, mqVars
<1>3. ASSUME NEW u \in Senders, Login(u) \/ Logout(u) PROVE UNCHANGED <<broker, unrouted, acks>>
  BY <1>3 DEF Login, Logout, mqVars
<1>4. ConsumeUploadQueue => UNCHANGED <<broker, unrouted, acks>>
  BY DEF ConsumeUploadQueue
<1> QED  BY <1>1, <1>2, <1>3, <1>4
         DEF IngressNext, handleSingleChat, handleGroupChat, handlerAIChat, ChatStep

\* A frame that is about to be published is neither in the queue nor discarded.
LEMMA PublishingIsNew ==
  ASSUME IngressInv, NEW f \in Frames, fpc[f] = "publish"
  PROVE  f \notin Taken /\ f \notin Discarded
BY DEF IngressInv, PayloadsSettled, Taken, Discarded, Decided

\* Where a publish puts its frame.
LEMMA PublishEffect ==
  ASSUME NEW f \in Frames, PublishUpload(f)
  PROVE  /\ fpc[f] = "publish" /\ UNCHANGED acks
         /\ \/ UNCHANGED <<broker, unrouted>>
            \/ UNCHANGED unrouted /\ Taken' = Taken \cup {f}
            \/ UNCHANGED broker /\ Discarded' = Discarded \cup {f}
<1>1. Payload(f).frame = f
  BY DEF Payload
<1>2. \/ UNCHANGED <<broker, unrouted>>
      \/ broker' = broker \cup {Payload(f)} /\ UNCHANGED unrouted
      \/ unrouted' = unrouted \cup {Payload(f)} /\ UNCHANGED broker
  BY DEF PublishUpload, Routed
<1>3. ASSUME broker' = broker \cup {Payload(f)} PROVE Taken' = Taken \cup {f}
  BY <1>1, <1>3 DEF Taken
<1>4. ASSUME unrouted' = unrouted \cup {Payload(f)} PROVE Discarded' = Discarded \cup {f}
  BY <1>1, <1>4 DEF Discarded
<1> QED  BY <1>2, <1>3, <1>4 DEF PublishUpload

\* The consumers leave a message alone that has not arrived.
LEMMA NewStays ==
  ASSUME IInv, \/ \E u \in Users : SetRoute(u)
               \/ \E l \in Logics : Instance(l)
  PROVE  \A m \in Msgs : up'[m] = "new" <=> up[m] = "new"
<1>0. BrokerOK /\ OwnedUnacked
  BY TypeParts DEF IInv
<1> DEFINE Kept == \A m \in Msgs : up'[m] = "new" <=> up[m] = "new"
<1>1. ASSUME UNCHANGED up PROVE Kept
  BY <1>1
<1>2. ASSUME NEW l \in Logics, NEW m \in Msgs, NEW to \in {"ready", "acked", "dead"},
             Settle(l, m, to)
      PROVE  Kept
  BY <1>0, <1>2, NoneIsNoLogic DEF Settle, OwnedUnacked, BrokerOK
<1>3. ASSUME NEW l \in Logics, Requeue(l) PROVE Kept
  BY <1>0, <1>3, NoneIsNoLogic DEF Requeue, OwnedUnacked, BrokerOK
<1>4. ASSUME NEW l \in Logics, NEW m \in Msgs, Deliver(l, m) \/ RejectCorrupt(l, m) PROVE Kept
  BY <1>0, <1>4 DEF Deliver, RejectCorrupt, BrokerOK
<1>5. ASSUME NEW l \in Logics, NEW m \in Msgs, Work(l, m) PROVE Kept
  <2>1. \/ UNCHANGED up \/ Deliver(l, m) \/ RejectCorrupt(l, m)
        \/ \E to \in {"ready", "acked", "dead"} : Settle(l, m, to)
    BY <1>5 DEF Work, SingleInsert, UpdateConversation, PushDown, Ack, GroupMembers, HandleAI,
       GroupMember, brokerVars
  <2> QED  BY <1>1, <1>2, <1>4, <2>1
<1>6. ASSUME NEW l \in Logics,
             BatchInsert(l) \/ \E B \in SUBSET Single : LookupRoutes(l, B)
      PROVE  Kept
  BY <1>1, <1>6 DEF BatchInsert, LookupRoutes, brokerVars
<1>7. ASSUME NEW l \in Logics, Crash(l) \/ LoseConnection(l) PROVE Kept
  BY <1>3, <1>7 DEF Crash, LoseConnection
<1>8. ASSUME NEW u \in Users, SetRoute(u) PROVE Kept
  BY <1>1, <1>8 DEF SetRoute, brokerVars
<1> QED  BY <1>5, <1>6, <1>7, <1>8 DEF Instance

\* An arrival changes one message.
LEMMA ArriveEffect ==
  ASSUME IInv, NEW m \in Msgs, Arrive(m)
  PROVE  up[m] = "new" /\ up'[m] = "ready" /\ \A n \in Msgs \ {m} : up'[n] = up[n]
BY TypeParts DEF IInv, Arrive, BrokerOK

\* Both sides of the queue keep the same account of it.
LEMMA QueuesAgreeStep ==
  ASSUME IngressInv, IInv, QueuesAgree, [PathNext]_pathVars
  PROVE  QueuesAgree'
<1>f. Frames \subseteq Msgs
  BY FramesAreMessages DEF Msgs
<1>1. CASE Gateway
  <2>1. IngressNext /\ UNCHANGED broker /\ UNCHANGED up
    BY <1>1 DEF Gateway, vars
  <2>2. Taken' = Taken
    BY <2>1 DEF Taken
  <2>3. UNCHANGED unrouted => Discarded' = Discarded
    BY DEF Discarded
  <2>4. \/ UNCHANGED unrouted
        \/ \E f \in Frames : PublishUpload(f)
    BY <2>1, GatewayEffect DEF ServerAck, mqVars
  <2>5. ASSUME NEW f \in Frames, PublishUpload(f) PROVE QueuesAgree'
    <3>1. f \notin Taken
      BY <2>5, PublishEffect, PublishingIsNew
    <3>2. Discarded' = Discarded \/ Discarded' = Discarded \cup {f}
      BY <2>3, <2>5, PublishEffect
    <3> QED  BY <2>1, <2>2, <3>1, <3>2 DEF QueuesAgree
  <2> QED  BY <2>1, <2>2, <2>3, <2>4, <2>5 DEF QueuesAgree
<1>2. ASSUME NEW f \in Frames, Upload(f) PROVE QueuesAgree'
  <2>1. PublishUpload(f) /\ broker' # broker /\ Arrive(f)
    BY <1>2 DEF Upload
  <2>2. fpc[f] = "publish" /\ UNCHANGED unrouted /\ Taken' = Taken \cup {f}
    BY <2>1, PublishEffect
  <2>3. f \notin Discarded /\ Discarded' = Discarded
    BY <2>2, PublishingIsNew DEF Discarded
  <2>4. up'[f] = "ready" /\ \A n \in Msgs \ {f} : up'[n] = up[n]
    BY <1>f, <2>1, ArriveEffect
  <2> QED  BY <1>f, <2>2, <2>3, <2>4 DEF QueuesAgree
<1>3. ASSUME NEW m \in Msgs \ Frames, Others(m) PROVE QueuesAgree'
  <2>1. UNCHANGED <<broker, unrouted>>
    BY <1>3 DEF Others, ingressAll, ingressVars
  <2>2. Taken' = Taken /\ Discarded' = Discarded
    BY <2>1 DEF Taken, Discarded
  <2>3. \A n \in Msgs \ {m} : up'[n] = up[n]
    BY <1>3, ArriveEffect DEF Others
  <2> QED  BY <1>f, <2>2, <2>3 DEF QueuesAgree
<1>4. CASE Consumers
  <2>1. UNCHANGED <<broker, unrouted>>
    BY <1>4 DEF Consumers, ingressAll, ingressVars
  <2>2. Taken' = Taken /\ Discarded' = Discarded
    BY <2>1 DEF Taken, Discarded
  <2>3. \A n \in Msgs : up'[n] = "new" <=> up[n] = "new"
    BY <1>4, NewStays DEF Consumers
  <2> QED  BY <1>f, <2>2, <2>3 DEF QueuesAgree
<1>5. CASE UNCHANGED pathVars
  BY <1>5 DEF pathVars, ingressAll, ingressVars, vars, QueuesAgree, Taken, Discarded
<1> QED  BY <1>1, <1>2, <1>3, <1>4, <1>5 DEF PathNext

\* The invariants of both components hold of the path, and with them their
\* agreement about the queue.
THEOREM PathInvariance == PathSpec => [](IngressInv /\ IInv /\ QueuesAgree)
<1>1. PathInit => QueuesAgree
  BY FramesAreMessages
  DEF PathInit, Init, IngressInit, InitRabbitMQ, QueuesAgree, Taken, Discarded, Msgs
<1>2. IngressInv /\ IInv /\ QueuesAgree /\ [PathNext]_pathVars => QueuesAgree'
  BY QueuesAgreeStep
<1> QED  BY <1>1, <1>2, PathKeepsComponents, IngressInvariance, Invariance, PTL DEF PathSpec

\* What a sender was told of is queued, stored or dead-lettered, for any
\* number of gateways, instances, messages, crashes and failed calls.
THEOREM AcknowledgedIsKept == PathSpec => []ToldIsKept
<1>1. ASSUME IngressInv, IInv, QueuesAgree PROVE ToldIsKept
  <2> SUFFICES ASSUME NEW f \in Told \ Discarded
               PROVE  \/ up[f] \in {"ready", "unacked", "dead"}
                      \/ up[f] = "acked" /\ (f \in Single \cup AI => Receiver[f] \in Rows(f))
    BY DEF ToldIsKept
  <2>1. PICK a \in acks : f = a.frame
    BY DEF Told
  <2>2. a \in broker \cup unrouted /\ f \in Frames
    BY <1>1, <2>1 DEF IngressInv, PayloadsSettled
  <2>3. f \in Taken
    BY <2>1, <2>2 DEF Taken, Discarded
  <2>4. f \in Msgs /\ up[f] # "new"
    BY <1>1, <2>2, <2>3, FramesAreMessages DEF QueuesAgree, Msgs
  <2>5. up[f] \in {"new", "ready", "unacked", "acked", "dead"}
    BY <1>1, <2>4, TypeParts DEF IInv, BrokerOK
  <2>6. f \in Single \cup AI /\ up[f] = "acked" => Receiver[f] \in Rows(f)
    BY <1>1 DEF IInv, AckedPersisted
  <2> QED  BY <2>4, <2>5, <2>6
<1> QED  BY <1>1, PathInvariance, PTL

\* The message log of the consumers is the one the promise is about.
LEMMA SameLog ==
  ASSUME Log!Next \/ UNCHANGED Log!logVars
  PROVE  Promise!Next \/ UNCHANGED Promise!logVars
<1>1. \A m \in Msgs : Log!Accept(m) => Promise!Accept(m)
  BY DEF Log!Accept, Promise!Accept
<1>2. \A m \in Msgs : Log!Acknowledge(m) => Promise!Acknowledge(m)
  BY DEF Log!Acknowledge, Promise!Acknowledge
<1>3. \A m \in Msgs : Log!DeadLetter(m) => Promise!DeadLetter(m)
  BY DEF Log!DeadLetter, Promise!DeadLetter
<1>4. Log!Record => Promise!Record
  BY DEF Log!Record, Promise!Record
<1>5. UNCHANGED Log!logVars => UNCHANGED Promise!logVars
  BY DEF Log!logVars, Promise!logVars
<1> QED  BY <1>1, <1>2, <1>3, <1>4, <1>5 DEF Log!Next, Promise!Next

\* A step of the consumers that leaves the discarded messages alone, the
\* gateways' account unchanged, is a step of the promise.
LEMMA ServeStep ==
  ASSUME IInv, QueuesAgree, [Next]_vars, Told' = Told, Discarded' = Discarded,
         \A f \in Discarded : f \in Msgs /\ up'[f] = up[f]
  PROVE  Promise!PromiseNext \/ UNCHANGED Promise!promiseVars
<1>1. Log!Next \/ UNCHANGED Log!logVars
  BY RefinementStep
<1>2. Promise!Next \/ UNCHANGED Promise!logVars
  BY <1>1, SameLog
<1>3. \A f \in Discarded :
        [m \in Msgs |-> IF up'[m] \in {"ready", "unacked"} THEN "accepted" ELSE up'[m]][f]
        = [m \in Msgs |-> IF up[m] \in {"ready", "unacked"} THEN "accepted" ELSE up[m]][f]
  OBVIOUS
<1>4. Promise!Next => Promise!Serve
  BY <1>3 DEF Promise!Serve
<1> QED  BY <1>2, <1>4 DEF Promise!PromiseNext, Promise!promiseVars

\* A discarded frame has not arrived and, published once, never will.
LEMMA DiscardedIsNew ==
  ASSUME IngressInv, IInv, QueuesAgree, NEW f \in Discarded
  PROVE  f \in Frames /\ f \in Msgs /\ f \notin Taken /\ up[f] = "new"
<1>1. f \in Frames
  BY DEF IngressInv, PayloadsSettled, Discarded
<1> QED  BY <1>1, FramesAreMessages DEF QueuesAgree, Msgs

\* Nothing the log consists of changes with a gateway's step.
LEMMA LogUntouched ==
  ASSUME UNCHANGED <<up, rows, down>>
  PROVE  UNCHANGED Promise!logVars
BY DEF Promise!logVars

\* A gateway discards a frame, tells its sender, or does nothing the promise
\* is about.
LEMMA GatewayPromise ==
  ASSUME IngressInv, IInv, QueuesAgree, Gateway
  PROVE  Promise!PromiseNext \/ UNCHANGED Promise!promiseVars
<1>0. UNCHANGED Promise!logVars /\ UNCHANGED broker /\ IngressNext
  BY LogUntouched DEF Gateway, vars
<1>f. Frames \subseteq Msgs
  BY FramesAreMessages DEF Msgs
<1>1. CASE UNCHANGED <<unrouted, acks>>
  BY <1>0, <1>1 DEF Promise!promiseVars, Told, Discarded
<1>2. ASSUME NEW f \in Frames, PublishUpload(f)
      PROVE  Promise!PromiseNext \/ UNCHANGED Promise!promiseVars
  <2>1. fpc[f] = "publish" /\ UNCHANGED acks
    BY <1>2, PublishEffect
  <2>2. f \notin Taken /\ f \in Msgs
    BY <1>f, <2>1, PublishingIsNew
  <2>3. up[f] = "new"
    BY <2>2 DEF QueuesAgree
  <2>4. CASE UNCHANGED unrouted
    BY <1>1, <2>1, <2>4
  <2>5. CASE Discarded' = Discarded \cup {f}
    <3>1. [m \in Msgs |-> IF up[m] \in {"ready", "unacked"} THEN "accepted" ELSE up[m]][f] = "new"
      BY <2>2, <2>3
    <3>2. Told' = Told
      BY <2>1 DEF Told
    <3>3. Promise!Discard(f)
      BY <1>0, <2>5, <3>1, <3>2 DEF Promise!Discard
    <3> QED  BY <2>2, <3>3 DEF Promise!PromiseNext
  <2> QED  BY <1>0, <1>2, <2>4, <2>5, PublishEffect
<1>3. ASSUME NEW f \in Frames, ServerAck(f)
      PROVE  Promise!PromiseNext \/ UNCHANGED Promise!promiseVars
  <2>1. UNCHANGED unrouted /\ acks' \in {acks, acks \cup {Payload(f)}} /\ fpc[f] = "ack"
    BY <1>3 DEF ServerAck, mqVars
  <2>2. Payload(f).frame = f
    BY DEF Payload
  <2>3. f \in Taken \/ f \in Discarded
    BY <2>1, <2>2 DEF IngressInv, PayloadsSettled, Taken, Discarded
  <2>4. CASE acks' = acks
    BY <1>1, <2>1, <2>4
  <2>5. CASE acks' = acks \cup {Payload(f)}
    <3>1. Told' = Told \cup {f}
      BY <2>2, <2>5 DEF Told
    <3>2. Discarded' = Discarded
      BY <2>1 DEF Discarded
    <3>3. [m \in Msgs |-> IF up[m] \in {"ready", "unacked"} THEN "accepted" ELSE up[m]][f] # "new"
          \/ f \in Discarded
      BY <1>f, <2>3 DEF QueuesAgree
    <3>4. Promise!Tell(f)
      BY <1>0, <3>1, <3>2, <3>3 DEF Promise!Tell
    <3> QED  BY <1>f, <3>4 DEF Promise!PromiseNext
  <2> QED  BY <2>1, <2>4, <2>5
<1> QED  BY <1>0, <1>1, <1>2, <1>3, GatewayEffect

\* The composition implements ChatPromise: a server_ack is a promise the
\* consumers keep.
THEOREM PathKeepsPromise == PathSpec => KeepsPromise
<1>1. PathInit => Promise!PromiseInit
  <2>1. ASSUME PathInit PROVE Promise!Init
    BY <2>1 DEF PathInit, Init, Promise!Init
  <2>2. ASSUME PathInit PROVE Told = {} /\ Discarded = {}
    BY <2>2 DEF PathInit, IngressInit, InitRabbitMQ, Told, Discarded
  <2> QED  BY <2>1, <2>2 DEF Promise!PromiseInit
<1>2. IngressInv /\ IInv /\ QueuesAgree /\ [PathNext]_pathVars
        => [Promise!PromiseNext]_(Promise!promiseVars)
  <2> SUFFICES ASSUME IngressInv, IInv, QueuesAgree, [PathNext]_pathVars
               PROVE  Promise!PromiseNext \/ UNCHANGED Promise!promiseVars
    OBVIOUS
  <2>n. [Next]_vars
    BY PathIsUploadStep
  <2>1. CASE Gateway
    BY <2>1, GatewayPromise
  <2>2. ASSUME NEW f \in Frames, Upload(f)
        PROVE  Promise!PromiseNext \/ UNCHANGED Promise!promiseVars
    <3>1. PublishUpload(f) /\ broker' # broker /\ Arrive(f) /\ f \in Msgs
      BY <2>2, FramesAreMessages DEF Upload, Msgs
    <3>2. fpc[f] = "publish" /\ UNCHANGED <<unrouted, acks>>
      BY <3>1, PublishEffect
    <3>3. Told' = Told /\ Discarded' = Discarded /\ f \notin Discarded
      BY <3>2, PublishingIsNew DEF Told, Discarded
    <3>4. \A g \in Discarded : g \in Msgs /\ up'[g] = up[g]
      BY <3>1, <3>3, DiscardedIsNew, ArriveEffect
    <3> QED  BY <2>n, <3>3, <3>4, ServeStep
  <2>3. CASE Consumers
    <3>1. UNCHANGED <<unrouted, acks>>
      BY <2>3 DEF Consumers, ingressAll, ingressVars
    <3>2. Told' = Told /\ Discarded' = Discarded
      BY <3>1 DEF Told, Discarded
    <3>3. \A g \in Msgs : up'[g] = "new" <=> up[g] = "new"
      BY <2>3, NewStays DEF Consumers
    <3>4. \A g \in Discarded : g \in Msgs /\ up'[g] = up[g]
      BY <3>3, DiscardedIsNew
    <3> QED  BY <2>n, <3>2, <3>4, ServeStep
  <2>4. ASSUME NEW m \in Msgs \ Frames, Others(m)
        PROVE  Promise!PromiseNext \/ UNCHANGED Promise!promiseVars
    <3>1. UNCHANGED <<unrouted, acks>> /\ Arrive(m)
      BY <2>4 DEF Others, ingressAll, ingressVars
    <3>2. Told' = Told /\ Discarded' = Discarded
      BY <3>1 DEF Told, Discarded
    <3>3. \A g \in Discarded : g \in Msgs /\ up'[g] = up[g]
      BY <3>1, DiscardedIsNew, ArriveEffect
    <3> QED  BY <2>n, <3>2, <3>3, ServeStep
  <2>5. CASE UNCHANGED pathVars
    <3>1. UNCHANGED <<up, rows, down, unrouted, acks>>
      BY <2>5 DEF pathVars, vars, ingressAll, ingressVars
    <3> QED  BY <3>1, LogUntouched DEF Promise!promiseVars, Told, Discarded
  <2> QED  BY <2>1, <2>2, <2>3, <2>4, <2>5 DEF PathNext
<1> QED  BY <1>1, <1>2, PathInvariance, PTL DEF PathSpec, KeepsPromise, Promise!PromiseSpec

=============================================================================
