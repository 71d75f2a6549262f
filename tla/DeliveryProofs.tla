--------------------------- MODULE DeliveryProofs ---------------------------
(***************************************************************************)
(* Theorems about Delivery, for any sets of gateways, connections and      *)
(* messages and any capacity: one open connection per gateway, the route   *)
(* of a user of one gateway, and the columns of a message's row.           *)
(***************************************************************************)
EXTENDS Delivery, TLAPS

\* Closing connections keeps queues and the closed set in their types.
LEMMA ShutTyped ==
  ASSUME TypeOK, NEW C \in SUBSET Conns, Shut(C)
  PROVE  /\ queue' \in [Conns -> Seq(Msgs \cup {Frame})]
         /\ \A c \in Conns : Len(queue'[c]) <= Cap
         /\ closed \subseteq closed' /\ closed' \subseteq Conns
BY DeliveryBounds DEF TypeOK, Shut

\* SendMessage never exceeds the capacity and never reopens a connection.
LEMMA SendTyped ==
  ASSUME TypeOK, NEW c \in Conns, NEW f \in Msgs \cup {Frame}, SendMessage(c, f)
  PROVE  /\ queue' \in [Conns -> Seq(Msgs \cup {Frame})]
         /\ \A d \in Conns : Len(queue'[d]) <= Cap
         /\ closed \subseteq closed' /\ closed' \subseteq Conns
<1>1. CASE c \in closed
  BY <1>1 DEF SendMessage, TypeOK
<1>2. CASE c \notin closed /\ Len(queue[c]) < Cap
  <2>1. queue[c] \in Seq(Msgs \cup {Frame})
    BY DEF TypeOK
  <2>2. /\ Append(queue[c], f) \in Seq(Msgs \cup {Frame})
        /\ Len(Append(queue[c], f)) = Len(queue[c]) + 1
        /\ Len(queue[c]) \in Nat
    BY <2>1
  <2>3. queue' = [queue EXCEPT ![c] = Append(queue[c], f)] /\ closed' = closed
    BY <1>2 DEF SendMessage
  <2>4. Len(Append(queue[c], f)) <= Cap
    BY <1>2, <2>2, DeliveryBounds
  <2>5. queue' \in [Conns -> Seq(Msgs \cup {Frame})]
    BY <2>2, <2>3 DEF TypeOK
  <2>6. \A d \in Conns : Len(queue'[d]) <= Cap
    BY <2>3, <2>4 DEF TypeOK
  <2> QED  BY <2>3, <2>5, <2>6 DEF TypeOK
<1>3. CASE c \notin closed /\ ~(Len(queue[c]) < Cap)
  BY <1>3, ShutTyped DEF SendMessage
<1> QED  BY <1>1, <1>2, <1>3

\* Faults stay within their budget.
LEMMA FaultTyped ==
  ASSUME TypeOK, Fault \/ UNCHANGED faults
  PROVE  faults' \in 0 .. MaxFaults
BY DeliveryBounds DEF TypeOK, Fault

\* Nothing is stored, registered or queued at first.
LEMMA InitDelivery == Init => DeliveryInv
<1> SUFFICES ASSUME Init PROVE DeliveryInv  OBVIOUS
<1>1. TypeOK
  BY DeliveryBounds DEF Init, TypeOK, Stages, LoggedIn
<1>2. ConfirmedIsRead /\ MapSound /\ OpenIsMapped /\ RouteFollowsMap
  BY DEF Init, ConfirmedIsRead, MapSound, OpenIsMapped, RouteFollowsMap, LoggedIn
<1> QED  BY <1>1, <1>2 DEF DeliveryInv

\* Stuttering changes nothing the invariant speaks of.
LEMMA StutterDelivery == DeliveryInv /\ UNCHANGED vars => DeliveryInv'
BY DEF vars, connVars, presVars, logicVars, mqVars, dbVars, DeliveryInv, TypeOK,
   ConfirmedIsRead, MapSound, OpenIsMapped, RouteFollowsMap

\* A frame leaves the queue, or the failed write closes the connection.
LEMMA WriteFrameDelivery ==
  ASSUME DeliveryInv, NEW c \in Conns, WriteFrame(c)
  PROVE  DeliveryInv'
<1> USE HomeTyped, NoneApart DEF DeliveryInv, TypeOK, LoggedIn
<1>1. /\ queue' \in [Conns -> Seq(Msgs \cup {Frame})]
      /\ \A d \in Conns : Len(queue'[d]) <= Cap
      /\ closed \subseteq closed' /\ closed' \subseteq Conns
  <2>1. CASE Shut({c})
    BY <2>1, ShutTyped
  <2>2. CASE queue' = [queue EXCEPT ![c] = Tail(@)] /\ closed' = closed
    <3>1. queue[c] \in Seq(Msgs \cup {Frame}) /\ queue[c] # <<>>
      BY DEF WriteFrame
    <3>2. /\ Tail(queue[c]) \in Seq(Msgs \cup {Frame})
          /\ Len(Tail(queue[c])) = Len(queue[c]) - 1
          /\ Len(queue[c]) \in Nat
      BY <3>1
    <3> QED  BY <2>2, <3>2, DeliveryBounds
  <2> QED  BY <2>1, <2>2 DEF WriteFrame
<1>2. TypeOK'
  <2>1. faults' \in 0 .. MaxFaults
    BY FaultTyped DEF WriteFrame
  <2>2. written' \in [Conns -> SUBSET Msgs]
    <3>1. \/ written' = written
          \/ written' = [written EXCEPT ![c] = written[c] \cup ({Head(queue[c])} \cap Msgs)]
      BY DEF WriteFrame
    <3>2. {Head(queue[c])} \cap Msgs \subseteq Msgs
      OBVIOUS
    <3>3. written \in [Conns -> SUBSET Msgs]
      OBVIOUS
    <3> HIDE DEF DeliveryInv, TypeOK
    <3> QED  BY <3>1, <3>2, <3>3
  <2> QED  BY <1>1, <2>1, <2>2 DEF WriteFrame, presVars, logicVars, mqVars, dbVars
<1>3. ConfirmedIsRead'
  BY DEF WriteFrame, Fault, presVars, logicVars, mqVars, dbVars, ConfirmedIsRead
<1>4. MapSound'
  BY DEF WriteFrame, Fault, presVars, logicVars, mqVars, dbVars, MapSound
<1>5. OpenIsMapped'
  BY <1>1 DEF WriteFrame, Fault, presVars, logicVars, mqVars, dbVars, OpenIsMapped
<1>6. RouteFollowsMap'
  BY DEF WriteFrame, Fault, presVars, logicVars, mqVars, dbVars, RouteFollowsMap
<1> QED  BY <1>2, <1>3, <1>4, <1>5, <1>6

\* The replaced connection is closed in the step that replaces it.
LEMMA RegisterDelivery ==
  ASSUME DeliveryInv, NEW c \in Conns, Register(c)
  PROVE  DeliveryInv'
<1> USE HomeTyped, NoneApart DEF DeliveryInv, TypeOK, LoggedIn
<1>1. /\ queue' \in [Conns -> Seq(Msgs \cup {Frame})]
      /\ \A d \in Conns : Len(queue'[d]) <= Cap
      /\ closed \subseteq closed' /\ closed' \subseteq Conns
  <2>1. {client[Home[c]]} \ {None} \in SUBSET Conns
    OBVIOUS
  <2> QED  BY <2>1, ShutTyped DEF Register
<1>2. TypeOK'
  BY <1>1 DEF Register, Goto, logicVars, mqVars, dbVars, Stages
<1>3. ConfirmedIsRead'
  BY DEF Register, Goto, logicVars, mqVars, dbVars, ConfirmedIsRead
<1>4. MapSound'
  BY DEF Register, Goto, logicVars, mqVars, dbVars, MapSound
<1>5. OpenIsMapped'
  BY <1>1 DEF Register, Shut, Goto, logicVars, mqVars, dbVars, OpenIsMapped
<1>6. RouteFollowsMap'
  BY DEF Register, Goto, logicVars, mqVars, dbVars, RouteFollowsMap
<1> QED  BY <1>2, <1>3, <1>4, <1>5, <1>6

\* The route is that of the connection's gateway.
LEMMA SetRouteDelivery ==
  ASSUME DeliveryInv, NEW c \in Conns, SetRoute(c)
  PROVE  DeliveryInv'
<1> USE HomeTyped, NoneApart DEF DeliveryInv, TypeOK, LoggedIn
<1>1. TypeOK'
  <2>1. faults' \in 0 .. MaxFaults /\ route' \in Gateways \cup {None}
    BY FaultTyped DEF SetRoute
  <2>2. stage' \in [Conns -> Stages]
    BY DEF SetRoute, Goto, Stages
  <2> QED  BY <2>1, <2>2 DEF SetRoute, logicVars, mqVars, dbVars
<1>2. ConfirmedIsRead'
  BY DEF SetRoute, Fault, Goto, logicVars, mqVars, dbVars, ConfirmedIsRead
<1>3. MapSound'
  BY DEF SetRoute, Fault, Goto, logicVars, mqVars, dbVars, MapSound
<1>4. OpenIsMapped'
  BY DEF SetRoute, Fault, Goto, logicVars, mqVars, dbVars, OpenIsMapped
<1>5. RouteFollowsMap'
  BY DEF SetRoute, Fault, Goto, logicVars, mqVars, dbVars, RouteFollowsMap
<1> QED  BY <1>1, <1>2, <1>3, <1>4, <1>5

\* The snapshot holds stored messages.
LEMMA SyncUnreadDelivery ==
  ASSUME DeliveryInv, NEW c \in Conns, SyncUnread(c)
  PROVE  DeliveryInv'
<1> USE HomeTyped, NoneApart DEF DeliveryInv, TypeOK, LoggedIn
<1>1. TypeOK'
  <2>1. faults' \in 0 .. MaxFaults
    BY FaultTyped DEF SyncUnread
  <2>2. stage' \in [Conns -> Stages]
    <3>1. \E t \in Stages : stage' = [stage EXCEPT ![c] = t]
      BY DEF SyncUnread, Goto, Stages
    <3> QED  BY <3>1
  <2>3. snap' \in [Conns -> SUBSET Msgs]
    <3>1. stored \ read \in SUBSET Msgs
      OBVIOUS
    <3>2. snap' = snap \/ snap' = [snap EXCEPT ![c] = stored \ read]
      BY DEF SyncUnread
    <3> QED  BY <3>1, <3>2
  <2> QED  BY <2>1, <2>2, <2>3 DEF SyncUnread, presVars, logicVars, mqVars, dbVars
<1>2. ConfirmedIsRead'
  BY DEF SyncUnread, Fault, Goto, presVars, logicVars, mqVars, dbVars,
     ConfirmedIsRead
<1>3. MapSound'
  <2>1. \E s \in LoggedIn : stage' = [stage EXCEPT ![c] = s]
    BY DEF SyncUnread, Goto
  <2>2. client' = client
    BY DEF SyncUnread, presVars
  <2> QED  BY <2>1, <2>2 DEF MapSound
<1>4. OpenIsMapped'
  BY DEF SyncUnread, Fault, Goto, presVars, logicVars, mqVars, dbVars,
     OpenIsMapped
<1>5. RouteFollowsMap'
  BY DEF SyncUnread, Fault, Goto, presVars, logicVars, mqVars, dbVars,
     RouteFollowsMap, ConfirmedIsRead
<1> QED  BY <1>1, <1>2, <1>3, <1>4, <1>5

\* Synchronisation sends into the queue of its own connection.
LEMMA SyncSendDelivery ==
  ASSUME DeliveryInv, NEW c \in Conns, NEW m \in Msgs, SyncSend(c, m)
  PROVE  DeliveryInv'
<1> USE HomeTyped, NoneApart DEF DeliveryInv, TypeOK, LoggedIn
<1>1. /\ queue' \in [Conns -> Seq(Msgs \cup {Frame})]
      /\ \A d \in Conns : Len(queue'[d]) <= Cap
      /\ closed \subseteq closed' /\ closed' \subseteq Conns
  BY SendTyped DEF SyncSend
<1>2. TypeOK'
  BY <1>1 DEF SyncSend, Goto, presVars, logicVars, mqVars, dbVars, Stages
<1>3. ConfirmedIsRead'
  BY DEF SyncSend, Goto, presVars, logicVars, mqVars, dbVars, ConfirmedIsRead
<1>4. MapSound'
  BY DEF SyncSend, Goto, presVars, logicVars, mqVars, dbVars, MapSound
<1>5. OpenIsMapped'
  BY <1>1 DEF SyncSend, Goto, presVars, logicVars, mqVars, dbVars, OpenIsMapped
<1>6. RouteFollowsMap'
  BY DEF SyncSend, Goto, presVars, logicVars, mqVars, dbVars, RouteFollowsMap
<1> QED  BY <1>2, <1>3, <1>4, <1>5, <1>6

\* Marking everything read sets both columns of every unread row.
LEMMA ReadMessagesDelivery ==
  ASSUME DeliveryInv, NEW c \in Conns, ReadMessages(c)
  PROVE  DeliveryInv'
<1> USE HomeTyped, NoneApart DEF DeliveryInv, TypeOK, LoggedIn
<1>1. TypeOK'
  BY DeliveryBounds DEF ReadMessages, Fault, Goto, MarkAll, presVars, logicVars, mqVars, Stages
<1>2. ConfirmedIsRead'
  BY DEF ReadMessages, Fault, Goto, MarkAll, presVars, logicVars, mqVars,
     ConfirmedIsRead
<1>3. MapSound'
  BY DEF ReadMessages, Fault, Goto, MarkAll, presVars, logicVars, mqVars,
     MapSound
<1>4. OpenIsMapped'
  BY DEF ReadMessages, Fault, Goto, MarkAll, presVars, logicVars, mqVars,
     OpenIsMapped
<1>5. RouteFollowsMap'
  BY DEF ReadMessages, Fault, Goto, MarkAll, presVars, logicVars, mqVars,
     RouteFollowsMap
<1> QED  BY <1>1, <1>2, <1>3, <1>4, <1>5

\* A pong is a frame like any other.
LEMMA PingDelivery ==
  ASSUME DeliveryInv, NEW c \in Conns, Ping(c)
  PROVE  DeliveryInv'
<1> USE HomeTyped, NoneApart DEF DeliveryInv, TypeOK, LoggedIn
<1>1. /\ queue' \in [Conns -> Seq(Msgs \cup {Frame})]
      /\ \A d \in Conns : Len(queue'[d]) <= Cap
      /\ closed \subseteq closed' /\ closed' \subseteq Conns
  BY SendTyped DEF Ping
<1>2. TypeOK'
  BY <1>1 DEF Ping, presVars, logicVars, mqVars, dbVars, Stages
<1>3. ConfirmedIsRead'
  BY DEF Ping, presVars, logicVars, mqVars, dbVars, ConfirmedIsRead
<1>4. MapSound'
  BY DEF Ping, presVars, logicVars, mqVars, dbVars, MapSound
<1>5. OpenIsMapped'
  BY <1>1 DEF Ping, presVars, logicVars, mqVars, dbVars, OpenIsMapped
<1>6. RouteFollowsMap'
  BY DEF Ping, presVars, logicVars, mqVars, dbVars, RouteFollowsMap
<1> QED  BY <1>2, <1>3, <1>4, <1>5, <1>6

\* A receipt goes to the connection in the map.
LEMMA ReceiptDelivery ==
  ASSUME DeliveryInv, NEW g \in Gateways, Receipt(g)
  PROVE  DeliveryInv'
<1> USE HomeTyped, NoneApart DEF DeliveryInv, TypeOK, LoggedIn
<1>1. /\ queue' \in [Conns -> Seq(Msgs \cup {Frame})]
      /\ \A d \in Conns : Len(queue'[d]) <= Cap
      /\ closed \subseteq closed' /\ closed' \subseteq Conns
  BY SendTyped DEF Receipt
<1>2. TypeOK'
  BY <1>1 DEF Receipt, presVars, logicVars, mqVars, dbVars, Stages
<1>3. ConfirmedIsRead'
  BY DEF Receipt, presVars, logicVars, mqVars, dbVars, ConfirmedIsRead
<1>4. MapSound'
  BY DEF Receipt, presVars, logicVars, mqVars, dbVars, MapSound
<1>5. OpenIsMapped'
  BY <1>1 DEF Receipt, presVars, logicVars, mqVars, dbVars, OpenIsMapped
<1>6. RouteFollowsMap'
  BY DEF Receipt, presVars, logicVars, mqVars, dbVars, RouteFollowsMap
<1> QED  BY <1>2, <1>3, <1>4, <1>5, <1>6

\* A confirmation sets both columns of its row.
LEMMA AckDelivery ==
  ASSUME DeliveryInv, NEW c \in Conns, NEW m \in Msgs, Ack(c, m)
  PROVE  DeliveryInv'
<1> USE HomeTyped, NoneApart DEF DeliveryInv, TypeOK, LoggedIn
<1>1. TypeOK'
  BY DEF Ack, connVars, presVars, logicVars, mqVars, Stages
<1>2. ConfirmedIsRead'
  BY DEF Ack, connVars, presVars, logicVars, mqVars, ConfirmedIsRead
<1>3. MapSound'
  BY DEF Ack, connVars, presVars, logicVars, mqVars, MapSound
<1>4. OpenIsMapped'
  BY DEF Ack, connVars, presVars, logicVars, mqVars, OpenIsMapped
<1>5. RouteFollowsMap'
  BY DEF Ack, connVars, presVars, logicVars, mqVars, RouteFollowsMap
<1> QED  BY <1>1, <1>2, <1>3, <1>4, <1>5

\* Only the connection in the map takes the entry and the route away.
LEMMA RemoveDelivery ==
  ASSUME DeliveryInv, NEW c \in Conns, Remove(c)
  PROVE  DeliveryInv'
<1> USE HomeTyped, NoneApart DEF DeliveryInv, TypeOK, LoggedIn
<1>1. TypeOK'
  BY DeliveryBounds DEF Remove, Fault, Goto, logicVars, mqVars, dbVars, Stages
<1>2. ConfirmedIsRead'
  BY DEF Remove, Fault, Goto, logicVars, mqVars, dbVars, ConfirmedIsRead
<1>3. /\ stage' = [stage EXCEPT ![c] = "removed"] /\ closed' = closed
      /\ \/ client' = client
         \/ client[Home[c]] = c /\ client' = [client EXCEPT ![Home[c]] = None]
  BY DEF Remove, Goto
<1>4. MapSound'
  BY <1>3 DEF Remove, MapSound
<1>5. OpenIsMapped'
  BY <1>3 DEF OpenIsMapped
<1>6. RouteFollowsMap'
  BY DEF Remove, Fault, Goto, logicVars, mqVars, dbVars, RouteFollowsMap
<1> QED  BY <1>1, <1>2, <1>4, <1>5, <1>6

\* A connection that closes has left the map before.
LEMMA CloseDelivery ==
  ASSUME DeliveryInv, NEW c \in Conns, Close(c)
  PROVE  DeliveryInv'
<1> USE HomeTyped, NoneApart DEF DeliveryInv, TypeOK, LoggedIn
<1>1. /\ queue' \in [Conns -> Seq(Msgs \cup {Frame})]
      /\ \A d \in Conns : Len(queue'[d]) <= Cap
      /\ closed \subseteq closed' /\ closed' \subseteq Conns
  BY ShutTyped DEF Close
<1>2. TypeOK'
  BY <1>1 DEF Close, Goto, presVars, logicVars, mqVars, dbVars, Stages
<1>3. ConfirmedIsRead'
  BY DEF Close, Goto, presVars, logicVars, mqVars, dbVars, ConfirmedIsRead
<1>4. MapSound'
  BY DEF Close, Goto, presVars, logicVars, mqVars, dbVars, MapSound
<1>5. OpenIsMapped'
  BY <1>1 DEF Close, Goto, presVars, logicVars, mqVars, dbVars, OpenIsMapped
<1>6. RouteFollowsMap'
  BY DEF Close, Goto, presVars, logicVars, mqVars, dbVars, RouteFollowsMap
<1> QED  BY <1>2, <1>3, <1>4, <1>5, <1>6

\* An expiry counts as a fault.
LEMMA ExpireRouteDelivery ==
  ASSUME DeliveryInv, ExpireRoute
  PROVE  DeliveryInv'
<1> USE HomeTyped, NoneApart DEF DeliveryInv, TypeOK, LoggedIn
<1>1. TypeOK'
  BY DeliveryBounds DEF ExpireRoute, Fault, connVars, logicVars, mqVars, dbVars, Stages
<1>2. ConfirmedIsRead'
  BY DEF ExpireRoute, Fault, connVars, logicVars, mqVars, dbVars, ConfirmedIsRead
<1>3. MapSound'
  BY DEF ExpireRoute, Fault, connVars, logicVars, mqVars, dbVars, MapSound
<1>4. OpenIsMapped'
  BY DEF ExpireRoute, Fault, connVars, logicVars, mqVars, dbVars, OpenIsMapped
<1>5. RouteFollowsMap'
  BY DEF ExpireRoute, Fault, connVars, logicVars, mqVars, dbVars, RouteFollowsMap
<1> QED  BY <1>1, <1>2, <1>3, <1>4, <1>5

\* Logic reads the route.
LEMMA LookupDelivery ==
  ASSUME DeliveryInv, NEW m \in Msgs, Lookup(m)
  PROVE  DeliveryInv'
<1> USE HomeTyped, NoneApart DEF DeliveryInv, TypeOK, LoggedIn
<1>1. TypeOK'
  BY DeliveryBounds DEF Lookup, Fault, connVars, presVars, mqVars, dbVars, Stages
<1>2. ConfirmedIsRead'
  BY DEF Lookup, Fault, connVars, presVars, mqVars, dbVars, ConfirmedIsRead
<1>3. MapSound'
  BY DEF Lookup, Fault, connVars, presVars, mqVars, dbVars, MapSound
<1>4. OpenIsMapped'
  BY DEF Lookup, Fault, connVars, presVars, mqVars, dbVars, OpenIsMapped
<1>5. RouteFollowsMap'
  BY DEF Lookup, Fault, connVars, presVars, mqVars, dbVars, RouteFollowsMap
<1> QED  BY <1>1, <1>2, <1>3, <1>4, <1>5

\* A stored message is unread.
LEMMA StoreDelivery ==
  ASSUME DeliveryInv, NEW m \in Msgs, Store(m)
  PROVE  DeliveryInv'
<1> USE HomeTyped, NoneApart DEF DeliveryInv, TypeOK, LoggedIn
<1>1. TypeOK'
  BY DEF Store, connVars, presVars, mqVars, Stages
<1>2. ConfirmedIsRead'
  BY DEF Store, connVars, presVars, mqVars, ConfirmedIsRead
<1>3. MapSound'
  BY DEF Store, connVars, presVars, mqVars, MapSound
<1>4. OpenIsMapped'
  BY DEF Store, connVars, presVars, mqVars, OpenIsMapped
<1>5. RouteFollowsMap'
  BY DEF Store, connVars, presVars, mqVars, RouteFollowsMap
<1> QED  BY <1>1, <1>2, <1>3, <1>4, <1>5

\* Publication fills the queue of the gateway that was looked up.
LEMMA PublishDelivery ==
  ASSUME DeliveryInv, NEW m \in Msgs, Publish(m)
  PROVE  DeliveryInv'
<1> USE HomeTyped, NoneApart DEF DeliveryInv, TypeOK, LoggedIn
<1>1. TypeOK'
  <2>1. faults' \in 0 .. MaxFaults
    BY FaultTyped DEF Publish
  <2>2. work' \in [Msgs -> {"new", "looked", "stored", "done"}]
    BY DEF Publish
  <2>3. down' \in [Gateways -> SUBSET Msgs]
    BY DEF Publish
  <2> QED  BY <2>1, <2>2, <2>3 DEF Publish, connVars, presVars, dbVars
<1>2. ConfirmedIsRead'
  BY DEF Publish, Fault, connVars, presVars, dbVars, ConfirmedIsRead
<1>3. MapSound'
  BY DEF Publish, Fault, connVars, presVars, dbVars, MapSound
<1>4. OpenIsMapped'
  BY DEF Publish, Fault, connVars, presVars, dbVars, OpenIsMapped
<1>5. RouteFollowsMap'
  BY DEF Publish, Fault, connVars, presVars, dbVars, RouteFollowsMap
<1> QED  BY <1>1, <1>2, <1>3, <1>4, <1>5

\* The consumer picks the connection in the map, if any.
LEMMA PickDelivery ==
  ASSUME DeliveryInv, NEW g \in Gateways, NEW m \in Msgs, Pick(g, m)
  PROVE  DeliveryInv'
<1> USE HomeTyped, NoneApart DEF DeliveryInv, TypeOK, LoggedIn
<1>1. TypeOK'
  BY DEF Pick, connVars, presVars, logicVars, dbVars, Stages
<1>2. ConfirmedIsRead'
  BY DEF Pick, connVars, presVars, logicVars, dbVars, ConfirmedIsRead
<1>3. MapSound'
  BY DEF Pick, connVars, presVars, logicVars, dbVars, MapSound
<1>4. OpenIsMapped'
  BY DEF Pick, connVars, presVars, logicVars, dbVars, OpenIsMapped
<1>5. RouteFollowsMap'
  BY DEF Pick, connVars, presVars, logicVars, dbVars, RouteFollowsMap
<1> QED  BY <1>1, <1>2, <1>3, <1>4, <1>5

\* The picked connection may be closed by now; nothing else changes.
LEMMA PushDelivery ==
  ASSUME DeliveryInv, NEW g \in Gateways, NEW m \in Msgs, NEW c \in Conns, Push(g, m, c)
  PROVE  DeliveryInv'
<1> USE HomeTyped, NoneApart DEF DeliveryInv, TypeOK, LoggedIn
<1>1. /\ queue' \in [Conns -> Seq(Msgs \cup {Frame})]
      /\ \A d \in Conns : Len(queue'[d]) <= Cap
      /\ closed \subseteq closed' /\ closed' \subseteq Conns
  BY SendTyped DEF Push
<1>2. TypeOK'
  BY <1>1 DEF Push, presVars, logicVars, dbVars, Stages
<1>3. ConfirmedIsRead'
  BY DEF Push, presVars, logicVars, dbVars, ConfirmedIsRead
<1>4. MapSound'
  BY DEF Push, presVars, logicVars, dbVars, MapSound
<1>5. OpenIsMapped'
  BY <1>1 DEF Push, presVars, logicVars, dbVars, OpenIsMapped
<1>6. RouteFollowsMap'
  BY DEF Push, presVars, logicVars, dbVars, RouteFollowsMap
<1> QED  BY <1>2, <1>3, <1>4, <1>5, <1>6

\* The conditional update leaves 2 alone.
LEMMA NotifyDeliveredDelivery ==
  ASSUME DeliveryInv, NEW m \in Msgs, NotifyDelivered(m)
  PROVE  DeliveryInv'
<1> USE HomeTyped, NoneApart DEF DeliveryInv, TypeOK, LoggedIn
<1>1. TypeOK'
  BY DeliveryBounds DEF NotifyDelivered, Fault, connVars, presVars, logicVars, Stages
<1>2. ConfirmedIsRead'
  BY DEF NotifyDelivered, Fault, connVars, presVars, logicVars, ConfirmedIsRead
<1>3. MapSound'
  BY DEF NotifyDelivered, Fault, connVars, presVars, logicVars, MapSound
<1>4. OpenIsMapped'
  BY DEF NotifyDelivered, Fault, connVars, presVars, logicVars, OpenIsMapped
<1>5. RouteFollowsMap'
  BY DEF NotifyDelivered, Fault, connVars, presVars, logicVars, RouteFollowsMap
<1> QED  BY <1>1, <1>2, <1>3, <1>4, <1>5

\* A crash empties the map and closes every connection of the gateway.
LEMMA CrashDelivery ==
  ASSUME DeliveryInv, NEW g \in Gateways, Crash(g)
  PROVE  DeliveryInv'
<1> USE HomeTyped, NoneApart DEF DeliveryInv, TypeOK, LoggedIn
<1>1. /\ queue' \in [Conns -> Seq(Msgs \cup {Frame})]
      /\ \A d \in Conns : Len(queue'[d]) <= Cap
      /\ closed \subseteq closed' /\ closed' \subseteq Conns
  BY ShutTyped DEF Crash
<1>2. TypeOK'
  BY <1>1, DeliveryBounds DEF Crash, Fault, logicVars, dbVars, Stages
<1>3. ConfirmedIsRead'
  BY DEF Crash, Fault, logicVars, dbVars, ConfirmedIsRead
<1>4. MapSound'
  BY DEF Crash, Fault, logicVars, dbVars, MapSound
<1>5. OpenIsMapped'
  BY <1>1 DEF Crash, Shut, Fault, logicVars, dbVars, OpenIsMapped
<1>6. RouteFollowsMap'
  BY DEF Crash, Fault, logicVars, dbVars, RouteFollowsMap
<1> QED  BY <1>2, <1>3, <1>4, <1>5, <1>6

\* The invariant holds in every reachable state: one step per action.
THEOREM DeliveryInvariance == Spec => []DeliveryInv
<1>1. DeliveryInv /\ [Next]_vars => DeliveryInv'
  <2> SUFFICES ASSUME DeliveryInv, [Next]_vars PROVE DeliveryInv'  OBVIOUS
  <2>1. CASE \E c \in Conns : \/ Register(c) \/ Conn(c) \/ Ping(c) \/ Remove(c)
                              \/ \E m \in Msgs : Ack(c, m)
    BY <2>1, RegisterDelivery, WriteFrameDelivery, SetRouteDelivery, SyncUnreadDelivery,
       ReadMessagesDelivery, CloseDelivery, SyncSendDelivery, PingDelivery,
       RemoveDelivery, AckDelivery DEF Conn
  <2>2. CASE \E m \in Msgs : Logic(m) \/ NotifyDelivered(m)
    BY <2>2, LookupDelivery, StoreDelivery, PublishDelivery, NotifyDeliveredDelivery DEF Logic
  <2>3. CASE \E g \in Gateways : Receipt(g) \/ Crash(g) \/ \E m \in Msgs : Consume(g, m)
    BY <2>3, ReceiptDelivery, CrashDelivery, PickDelivery, PushDelivery DEF Consume
  <2>4. CASE ExpireRoute
    BY <2>4, ExpireRouteDelivery
  <2>5. CASE UNCHANGED vars
    BY <2>5, StutterDelivery
  <2> QED  BY <2>1, <2>2, <2>3, <2>4, <2>5 DEF Next
<1> QED  BY <1>1, InitDelivery, PTL DEF Spec

\* SendChan never holds more than its capacity, and every variable keeps its type.
THEOREM DeliveryTypes == Spec => []TypeOK
BY DeliveryInvariance, PTL DEF DeliveryInv

\* is_read and send_status = 2 agree however marks and confirmations race.
THEOREM ReadMeansConfirmed == Spec => []ConfirmedIsRead
BY DeliveryInvariance, PTL DEF DeliveryInv

\* One open connection per user and gateway, whatever the handlers' interleaving.
THEOREM OneOpenConnection == Spec => []SingleLogin
<1>1. DeliveryInv => SingleLogin
  BY DEF DeliveryInv, OpenIsMapped, SingleLogin
<1> QED  BY <1>1, DeliveryInvariance, PTL

\* The late end of a replaced connection never takes the newer one's route.
THEOREM RouteIsKept == Spec => []RouteFollowsMap
BY DeliveryInvariance, PTL DEF DeliveryInv

\* With one gateway the absence of the key does mean that the user is offline,
\* for any number of connections: AbsentMeansOffline fails only where logins of
\* several gateways share the key.
THEOREM OneGatewayKeepsKey ==
  ASSUME NEW g, Gateways = {g}
  PROVE  Spec => []AbsentMeansOffline
<1>1. DeliveryInv => AbsentMeansOffline
  <2> SUFFICES ASSUME DeliveryInv, faults = 0, route = None, NEW c \in Conns,
                      stage[c] \in LoggedIn \ {"registered"}, c \notin closed
               PROVE  FALSE
    BY DEF AbsentMeansOffline
  <2>1. Home[c] = g /\ \A d \in Conns : Home[d] = g
    BY HomeTyped
  <2>2. client[g] = c
    BY <2>1 DEF DeliveryInv, OpenIsMapped
  <2>3. g \in Gateways /\ client[g] # None /\ stage[client[g]] # "registered"
    BY <2>2, NoneApart
  <2>4. route = g
    BY <2>1, <2>3 DEF DeliveryInv, RouteFollowsMap
  <2> QED  BY <2>4, NoneApart
<1> QED  BY <1>1, DeliveryInvariance, PTL

\* send_status never falls: MarkAll and Ack set its maximum, NotifyDelivered
\* changes only 0.
THEOREM StatusNeverFalls == Spec => StatusMonotone
<1>1. DeliveryInv /\ [Next]_vars => [\A m \in Msgs : status'[m] >= status[m]]_vars
  <2> SUFFICES ASSUME DeliveryInv, Next PROVE \A m \in Msgs : status'[m] >= status[m]
    OBVIOUS
  <2> USE DEF DeliveryInv, TypeOK
  <2>1. ASSUME NEW c \in Conns, ReadMessages(c) PROVE \A m \in Msgs : status'[m] >= status[m]
    <3> SUFFICES ASSUME NEW m \in Msgs PROVE status'[m] >= status[m]  OBVIOUS
    <3>1. status' = status \/ MarkAll
      BY <2>1 DEF ReadMessages
    <3>2. status[m] \in 0 .. 2
      OBVIOUS
    <3>3. status'[m] = status[m] \/ status'[m] = 2
      BY <3>1 DEF MarkAll
    <3> HIDE DEF DeliveryInv, TypeOK
    <3> QED  BY <3>2, <3>3
  <2>2. ASSUME NEW c \in Conns, NEW n \in Msgs, Ack(c, n)
        PROVE  \A m \in Msgs : status'[m] >= status[m]
    BY <2>2 DEF Ack
  <2>3. ASSUME NEW n \in Msgs, NotifyDelivered(n)
        PROVE  \A m \in Msgs : status'[m] >= status[m]
    <3> SUFFICES ASSUME NEW m \in Msgs PROVE status'[m] >= status[m]  OBVIOUS
    <3>1. status[m] \in 0 .. 2
      OBVIOUS
    <3>2. status'[m] = status[m] \/ (status[m] = 0 /\ status'[m] = 1)
      BY <2>3 DEF NotifyDelivered
    <3> HIDE DEF DeliveryInv, TypeOK
    <3> QED  BY <3>1, <3>2
  <2>4. CASE status' = status
    BY <2>4
  <2>5. \/ status' = status
        \/ \E c \in Conns : ReadMessages(c) \/ \E n \in Msgs : Ack(c, n)
        \/ \E n \in Msgs : NotifyDelivered(n)
    BY DEF Next, Conn, Logic, Consume, dbVars, Register, WriteFrame, SetRoute, SyncUnread,
       SyncSend, Close, Ping, Remove, Receipt, Crash, Pick, Push, ExpireRoute, Lookup,
       Store, Publish
  <2> QED  BY <2>1, <2>2, <2>3, <2>4, <2>5
<1> QED  BY <1>1, DeliveryInvariance, PTL DEF Spec, StatusMonotone
=============================================================================
