------------------------------ MODULE Delivery ------------------------------
(***************************************************************************)
(* Presence and delivery on the gateways (apps/gateway/ws): the WebSocket  *)
(* connections of one user, the per-process connection map, the Redis      *)
(* route key, the frame queue and the write pump of every connection, the  *)
(* synchronisation of unread messages at login, the gateway's consumer of  *)
(* downstream messages and the read and delivery marks in MySQL.           *)
(*                                                                         *)
(* Users share none of this state (map entry, route key, queue and rows    *)
(* are per user), so the module follows a single receiver.  Kicks, pongs   *)
(* and read receipts are frames that carry no message.  The time to live   *)
(* of the route key is abstracted: the key may expire at any moment.       *)
(***************************************************************************)
EXTENDS Integers, Sequences

CONSTANTS Gateways,
          Conns,       \* connections the user opens, one after the other or not
          Home,        \* Home[c]: the gateway connection c is made to
          Msgs,        \* messages addressed to the user
          Frame,       \* any frame that is not a message
          None,
          Cap,         \* capacity of SendChan (1024 in NewClient)
          MaxFaults    \* bound: failed calls, broken sockets, expiries, crashes

ASSUME HomeTyped == Home \in [Conns -> Gateways]
ASSUME NoneApart == None \notin Conns \cup Gateways
ASSUME FrameApart == Frame \notin Msgs
ASSUME DeliveryBounds == Cap \in Nat \ {0} /\ MaxFaults \in Nat

VARIABLES
  stage,     \* stage[c]: how far Handler and ReadPump of c are
  closed,    \* connections whose closed channel is closed
  queue,     \* queue[c]: SendChan
  written,   \* written[c]: messages written to the socket of c
  snap,      \* snap[c]: unread messages syncMessage still has to send
  client,    \* client[g]: the user's entry in GlobalCliMap of gateway g
  route,     \* the value of route:user:<id> in Redis
  work,      \* work[m]: Logic's progress with m
  dest,      \* dest[m]: the address Logic read for m
  down,      \* down[g]: gateway.queue.<g>
  picked,    \* <<g, m, c>>: a worker of g found c for m and has not sent yet
  notify,    \* messages whose NotifyDelivered call is under way
  stored,    \* messages with a row in MySQL
  read,      \* rows with is_read = 1
  status,    \* send_status of the row
  faults

connVars == <<stage, closed, queue, written, snap>>
presVars == <<client, route>>
logicVars == <<work, dest>>
mqVars == <<down, picked, notify>>
dbVars == <<stored, read, status>>
vars == <<connVars, presVars, logicVars, mqVars, dbVars, faults>>

\* Stages in which the connection counts as logged in on its gateway.
LoggedIn == {"registered", "routed", "syncing", "marking", "reading", "failed"}
Stages == LoggedIn \cup {"new", "removed", "gone"}

TypeOK ==
  /\ stage \in [Conns -> Stages]
  /\ closed \subseteq Conns
  /\ queue \in [Conns -> Seq(Msgs \cup {Frame})]
  /\ \A c \in Conns : Len(queue[c]) <= Cap
  /\ written \in [Conns -> SUBSET Msgs] /\ snap \in [Conns -> SUBSET Msgs]
  /\ client \in [Gateways -> Conns \cup {None}]
  /\ route \in Gateways \cup {None}
  /\ work \in [Msgs -> {"new", "looked", "stored", "done"}]
  /\ dest \in [Msgs -> Gateways \cup {None}]
  /\ down \in [Gateways -> SUBSET Msgs]
  /\ picked \subseteq Gateways \X Msgs \X Conns
  /\ notify \subseteq Msgs
  /\ read \subseteq stored /\ stored \subseteq Msgs
  /\ status \in [Msgs -> 0 .. 2]
  /\ faults \in 0 .. MaxFaults

Init ==
  /\ stage = [c \in Conns |-> "new"]
  /\ closed = {}
  /\ queue = [c \in Conns |-> <<>>]
  /\ written = [c \in Conns |-> {}] /\ snap = [c \in Conns |-> {}]
  /\ client = [g \in Gateways |-> None]
  /\ route = None
  /\ work = [m \in Msgs |-> "new"] /\ dest = [m \in Msgs |-> None]
  /\ down = [g \in Gateways |-> {}] /\ picked = {} /\ notify = {}
  /\ stored = {} /\ read = {} /\ status = [m \in Msgs |-> 0]
  /\ faults = 0

Fault == faults < MaxFaults /\ faults' = faults + 1
Goto(c, s) == stage' = [stage EXCEPT ![c] = s]

-----------------------------------------------------------------------------
(* Client: SendMessage, Close, WritePump                                   *)

\* Close closes the closed channel and the socket.  What is left in SendChan
\* can no longer be written and is forgotten.
Shut(C) ==
  /\ closed' = closed \cup C
  /\ queue' = [c \in Conns |-> IF c \in C THEN <<>> ELSE queue[c]]

\* Mutant: a full channel drops the frame and keeps the connection.
SendMessageKeeps(c, f) ==
  /\ queue' = IF c \notin closed /\ Len(queue[c]) < Cap
              THEN [queue EXCEPT ![c] = Append(@, f)] ELSE queue
  /\ UNCHANGED closed

\* The select of SendMessage: a closed client loses the frame (enqueued or
\* not, it is never written), an open one without room loses it and is closed.
SendMessage(c, f) ==
  IF c \in closed THEN UNCHANGED <<queue, closed>>
  ELSE IF Len(queue[c]) < Cap
       THEN queue' = [queue EXCEPT ![c] = Append(@, f)] /\ UNCHANGED closed
       ELSE Shut({c})

\* One round of WritePump, which Handler starts after writing the route.  A
\* failed write ends the pump, and its deferred Close closes the client.
WriteFrame(c) ==
  /\ stage[c] \notin {"new", "registered"} /\ queue[c] # <<>>
  /\ \/ /\ queue' = [queue EXCEPT ![c] = Tail(@)]
        /\ written' = [written EXCEPT ![c] = @ \cup ({Head(queue[c])} \cap Msgs)]
        /\ UNCHANGED <<closed, faults>>
     \/ Fault /\ Shut({c}) /\ UNCHANGED written
  /\ UNCHANGED <<stage, snap, presVars, logicVars, mqVars, dbVars>>

-----------------------------------------------------------------------------
(* Handler: register, publish the route, synchronise, read                 *)

\* Mutant: the old connection is replaced and left open.
RegisterLeaves(c) ==
  /\ stage[c] = "new" /\ Goto(c, "registered")
  /\ client' = [client EXCEPT ![Home[c]] = c]
  /\ UNCHANGED <<closed, queue, written, snap, route, logicVars, mqVars, dbVars, faults>>

\* CliMap.Register under its lock: the old connection is sent a kick frame,
\* which may or may not be written before the connection is closed.
Register(c) ==
  /\ stage[c] = "new" /\ Goto(c, "registered")
  /\ client' = [client EXCEPT ![Home[c]] = c]
  /\ Shut({client[Home[c]]} \ {None})
  /\ UNCHANGED <<written, snap, route, logicVars, mqVars, dbVars, faults>>

\* The route is written (a Redis error is only logged) and WritePump started.
SetRoute(c) ==
  /\ stage[c] = "registered" /\ Goto(c, "routed")
  /\ \/ route' = Home[c] /\ UNCHANGED faults
     \/ UNCHANGED route /\ Fault
  /\ UNCHANGED <<closed, queue, written, snap, client, logicVars, mqVars, dbVars>>

\* SyncUnread returns the unread rows.  Without any, Handler starts ReadPump;
\* when the call fails it returns, leaving the client in the map and ReadPump
\* never started.
SyncUnread(c) ==
  /\ stage[c] = "routed"
  /\ \/ /\ snap' = [snap EXCEPT ![c] = stored \ read]
        /\ Goto(c, IF stored \ read = {} THEN "reading" ELSE "syncing")
        /\ UNCHANGED faults
     \/ Goto(c, "failed") /\ UNCHANGED snap /\ Fault
  /\ UNCHANGED <<closed, queue, written, presVars, logicVars, mqVars, dbVars>>

SyncSend(c, m) ==
  /\ stage[c] = "syncing" /\ m \in snap[c]
  /\ snap' = [snap EXCEPT ![c] = @ \ {m}]
  /\ Goto(c, IF snap[c] = {m} THEN "marking" ELSE "syncing")
  /\ SendMessage(c, m)
  /\ UNCHANGED <<written, presVars, logicVars, mqVars, dbVars, faults>>

\* Mutant: only is_read is updated.
MarkAllReadOnly == read' = stored /\ UNCHANGED status

\* MarkMessagesAsRead: every unread row of the user, whether it was part of
\* the snapshot or not.  A failed call is logged and forgotten.
MarkAll == read' = stored /\ status' = [m \in Msgs |-> IF m \in stored \ read THEN 2 ELSE status[m]]

ReadMessages(c) ==
  /\ stage[c] = "marking" /\ Goto(c, "reading")
  /\ \/ MarkAll /\ UNCHANGED faults
     \/ Fault /\ (UNCHANGED <<read, status>> \/ MarkAll)
  /\ UNCHANGED <<closed, queue, written, snap, presVars, logicVars, mqVars, stored>>

-----------------------------------------------------------------------------
(* ReadPump                                                                *)

\* A ping refreshes the key's time to live, if the key exists, and is answered.
Ping(c) ==
  /\ stage[c] = "reading" /\ c \notin closed
  /\ SendMessage(c, Frame)
  /\ UNCHANGED <<stage, written, snap, presVars, logicVars, mqVars, dbVars, faults>>

\* A server_ack for a message the user sent, or the read receipt of a peer on
\* the same gateway: sent to whatever connection the map has.
Receipt(g) ==
  /\ client[g] # None /\ client[g] \notin closed
  /\ SendMessage(client[g], Frame)
  /\ UNCHANGED <<stage, written, snap, presVars, logicVars, mqVars, dbVars, faults>>

\* handleAck: the user confirms a message that reached the connection.
Ack(c, m) ==
  /\ stage[c] = "reading" /\ m \in written[c]
  /\ m \in stored \ read
  /\ read' = read \cup {m} /\ status' = [status EXCEPT ![m] = 2]
  /\ UNCHANGED <<connVars, presVars, logicVars, mqVars, stored, faults>>

\* Mutant: the route is deleted although the entry is a later connection's.
RemoveRouteAny(c) ==
  /\ stage[c] = "reading" /\ Goto(c, "removed")
  /\ client' = [client EXCEPT ![Home[c]] = IF @ = c THEN None ELSE @] /\ route' = None
  /\ UNCHANGED <<closed, queue, written, snap, logicVars, mqVars, dbVars, faults>>

\* The read loop ends (the peer left, the socket was closed, a frame did not
\* parse) and CliMap.Remove runs; a failed DEL leaves the route behind.
Remove(c) ==
  /\ stage[c] = "reading" /\ Goto(c, "removed")
  /\ IF client[Home[c]] = c
     THEN /\ client' = [client EXCEPT ![Home[c]] = None]
          /\ \/ route' = None /\ UNCHANGED faults
             \/ UNCHANGED route /\ Fault
     ELSE UNCHANGED <<client, route, faults>>
  /\ UNCHANGED <<closed, queue, written, snap, logicVars, mqVars, dbVars>>

Close(c) ==
  /\ stage[c] = "removed" /\ Goto(c, "gone")
  /\ Shut({c})
  /\ UNCHANGED <<written, snap, presVars, logicVars, mqVars, dbVars, faults>>

\* Redis drops the key: 24 hours after SetRoute or 30 seconds after a ping.
ExpireRoute ==
  /\ route # None /\ route' = None /\ Fault
  /\ UNCHANGED <<connVars, client, logicVars, mqVars, dbVars>>

-----------------------------------------------------------------------------
(* Logic: look up the route, store, publish (UploadConsumer has the detail) *)

Lookup(m) ==
  /\ work[m] = "new" /\ work' = [work EXCEPT ![m] = "looked"]
  /\ \/ dest' = [dest EXCEPT ![m] = route] /\ UNCHANGED faults
     \/ dest' = [dest EXCEPT ![m] = None] /\ Fault
  /\ UNCHANGED <<connVars, presVars, mqVars, dbVars>>

Store(m) ==
  /\ work[m] = "looked" /\ work' = [work EXCEPT ![m] = "stored"]
  /\ stored' = stored \cup {m}
  /\ UNCHANGED <<connVars, presVars, dest, mqVars, read, status, faults>>

\* A failed publish, which may have reached the broker, sends m round again.
Publish(m) ==
  /\ work[m] = "stored"
  /\ LET sent == [g \in Gateways |-> IF g = dest[m] THEN down[g] \cup {m} ELSE down[g]] IN
     \/ work' = [work EXCEPT ![m] = "done"] /\ down' = sent /\ UNCHANGED faults
     \/ /\ dest[m] # None /\ Fault
        /\ work' = [work EXCEPT ![m] = "new"] /\ down' \in {down, sent}
  /\ UNCHANGED <<connVars, presVars, dest, picked, notify, dbVars>>

-----------------------------------------------------------------------------
(* mq_consumer.go: handleMQDelivery                                        *)

\* No local connection: acknowledged, left to the next SyncUnread.
Pick(g, m) ==
  /\ m \in down[g]
  /\ down' = [down EXCEPT ![g] = @ \ {m}]
  /\ picked' = IF client[g] = None THEN picked ELSE picked \cup {<<g, m, client[g]>>}
  /\ UNCHANGED <<connVars, presVars, logicVars, notify, dbVars, faults>>

\* SendMessage reports nothing: the delivery is acknowledged and the sender's
\* row marked whatever became of the frame.
Push(g, m, c) ==
  /\ <<g, m, c>> \in picked /\ picked' = picked \ {<<g, m, c>>}
  /\ SendMessage(c, m)
  /\ notify' = notify \cup {m}
  /\ UNCHANGED <<stage, written, snap, presVars, logicVars, down, dbVars, faults>>

\* Mutant: the update has no condition on the current send_status.
NotifyDeliveredAlways(m) ==
  /\ m \in notify /\ notify' = notify \ {m}
  /\ \/ status' = [status EXCEPT ![m] = 1] /\ UNCHANGED faults
     \/ Fault /\ UNCHANGED status
  /\ UNCHANGED <<connVars, presVars, logicVars, down, picked, stored, read>>

\* MarkSendTransportDelivered: send_status 0 -> 1 only; a failure is logged.
NotifyDelivered(m) ==
  /\ m \in notify /\ notify' = notify \ {m}
  /\ \/ /\ status' = [status EXCEPT ![m] = IF @ = 0 THEN 1 ELSE @]
        /\ UNCHANGED faults
     \/ Fault /\ UNCHANGED status
  /\ UNCHANGED <<connVars, presVars, logicVars, down, picked, stored, read>>

\* A gateway process dies and restarts: its connections, map and calls are
\* gone, unacknowledged deliveries return to its durable queue, the route stays.
Crash(g) ==
  /\ \E c \in Conns : Home[c] = g /\ stage[c] \in LoggedIn
  /\ Fault
  /\ LET mine == {c \in Conns : Home[c] = g /\ stage[c] # "new"} IN
     /\ stage' = [c \in Conns |-> IF c \in mine THEN "gone" ELSE stage[c]]
     /\ Shut(mine)
     /\ snap' = [c \in Conns |-> IF c \in mine THEN {} ELSE snap[c]]
  /\ client' = [client EXCEPT ![g] = None]
  /\ picked' = {p \in picked : p[1] # g}
  /\ down' = [down EXCEPT ![g] = @ \cup {p[2] : p \in {q \in picked : q[1] = g}}]
  /\ UNCHANGED <<written, route, logicVars, notify, dbVars>>

-----------------------------------------------------------------------------
Conn(c) == \/ WriteFrame(c)
           \/ SetRoute(c) \/ SyncUnread(c) \/ ReadMessages(c) \/ Close(c)
           \/ \E m \in Msgs : SyncSend(c, m)

Logic(m) == Lookup(m) \/ Store(m) \/ Publish(m)

Consume(g, m) == Pick(g, m) \/ \E c \in Conns : Push(g, m, c)

Next == \/ \E c \in Conns :
             \/ Register(c) \/ Conn(c) \/ Ping(c) \/ Remove(c)
             \/ \E m \in Msgs : Ack(c, m)
        \/ \E m \in Msgs : Logic(m) \/ NotifyDelivered(m)
        \/ \E g \in Gateways : Receipt(g) \/ Crash(g) \/ \E m \in Msgs : Consume(g, m)
        \/ ExpireRoute

Spec == Init /\ [][Next]_vars

\* Goroutines run, Logic and the broker make progress, and a read on a closed
\* socket returns.  Users owe nothing: no fairness for Register, Ping or Ack.
Fairness ==
  /\ \A c \in Conns : WF_vars(Conn(c)) /\ WF_vars(c \in closed /\ Remove(c))
  /\ \A m \in Msgs : WF_vars(Logic(m)) /\ WF_vars(NotifyDelivered(m))
  /\ \A g \in Gateways, m \in Msgs : WF_vars(Consume(g, m))

LiveSpec == Spec /\ Fairness

-----------------------------------------------------------------------------
(* Properties                                                              *)

\* On one gateway a user has at most one connection that is still open: an
\* earlier one was closed by Register, even when both handlers interleave.
SingleLogin ==
  \A c, d \in Conns :
    c # d /\ Home[c] = Home[d] /\ stage[c] \in LoggedIn /\ stage[d] \in LoggedIn
      => c \in closed \/ d \in closed

\* As long as the user only ever used one gateway and no Redis call failed, a
\* connection in the map whose route was written is reachable: the key names
\* its gateway.  A late ReadPump of an earlier connection must not take it away.
RouteFollowsMap ==
  \A g \in Gateways :
    /\ faults = 0
    /\ \A c \in Conns : stage[c] # "new" => Home[c] = g
    /\ client[g] # None /\ stage[client[g]] # "registered"
    => route = g

\* No route key means the user is not online (interview.md: 接收方不在线时（key
\* 不存在）): no call having failed, a user whose open connection wrote its
\* route has a key.  With one gateway this is so; with two it is not, because
\* the DEL of CliMap.Remove does not look at the value it deletes.
AbsentMeansOffline ==
  faults = 0 /\ route = None =>
    \A c \in Conns : stage[c] \in LoggedIn \ {"registered"} => c \in closed

\* The map's entry is a logged-in connection of its gateway.
MapSound ==
  \A g \in Gateways : client[g] # None =>
    Home[client[g]] = g /\ stage[client[g]] \in LoggedIn

\* A logged-in connection that is open is the one in the map: SingleLogin
\* follows, and this is what every step preserves.
OpenIsMapped ==
  \A c \in Conns : stage[c] \in LoggedIn /\ c \notin closed => client[Home[c]] = c

\* send_status never goes back, however late NotifyDelivered arrives, and a
\* confirmed message stays read.
StatusMonotone == [][\A m \in Msgs : status'[m] >= status[m]]_vars

\* send_status 2 (confirmed by the receiver) and is_read are one fact.
ConfirmedIsRead == \A m \in Msgs : status[m] = 2 <=> m \in read

\* The inductive invariant behind the safety properties above.
DeliveryInv == /\ TypeOK /\ ConfirmedIsRead /\ MapSound
               /\ OpenIsMapped /\ RouteFollowsMap

\* A message routed to the user's registered, synchronised connection is
\* written to it, unless the connection is closed or replaced meanwhile.
PushReaches ==
  \A m \in Msgs, c \in Conns :
    (/\ work[m] = "looked" /\ dest[m] = Home[c]
     /\ client[Home[c]] = c /\ stage[c] = "reading")
      ~> (m \in written[c] \/ c \in closed \/ client[Home[c]] # c \/ faults > 0)

\* Logic or the downstream queue still has to deal with m.
InPipeline(m) ==
  work[m] # "done" \/ (\E g \in Gateways : m \in down[g]) \/ (\E p \in picked : p[2] = m)

\* A message that Logic and the broker are done with and that counts as read
\* was written to the user, or waits in an open connection: the offline
\* synchronisation never swallows one.
ReadWasDelivered ==
  \A m \in read : InPipeline(m) \/ \E c \in Conns :
    m \in written[c] \/ (c \notin closed /\ \E i \in DOMAIN queue[c] : queue[c][i] = m)
=============================================================================
