--------------------------- MODULE UploadConsumer ---------------------------
(***************************************************************************)
(* The Logic service's upload consumer (apps/logic/service/                *)
(* upload_consumer.go): messages published by gateways wait in the durable *)
(* queue logic.upload.queue; Logic instances compete for them, write them  *)
(* to MySQL (single chats in batches, group chats fanned out per member,   *)
(* AI chats one by one), bump the conversations, publish the message       *)
(* towards the recipient's gateway and settle the delivery.                *)
(*                                                                         *)
(* RabbitMQ returns an unsettled delivery to the queue when the consumer's *)
(* connection goes away.  An instance whose connection dropped keeps its   *)
(* goroutines running (there is no reconnect), so a second instance may    *)
(* work on the same message at the same time.                              *)
(*                                                                         *)
(* The batch workers of one instance share only MySQL and Redis, as        *)
(* instances do: each instance is given one worker.  batchCh holds 5000    *)
(* items and the channel prefetches 2000 deliveries, so sending to it      *)
(* never blocks.                                                           *)
(***************************************************************************)
EXTENDS Integers, FiniteSets

CONSTANTS Logics,      \* Logic service instances
          Users,
          Single,      \* single_chat messages (and unknown types, handled alike)
          Group,       \* group_chat messages
          AI,          \* ai_chat messages
          Unnumbered,  \* AI messages with msg_id 0: the gateway got no number from Redis
          Corrupt,     \* deliveries whose body is not valid JSON
          Sender,      \* Sender[m] for every group message
          Receiver,    \* Receiver[m] for every single and AI message
          Members,     \* the members of the group
          None,        \* no consumer holds the delivery
          BatchSize,   \* upload_consumer.go:24
          MaxPublished, \* bound: messages published in one behaviour
          MaxFaults    \* bound: crashes, lost connections and failed calls

Msgs == Single \cup Group \cup AI \cup Corrupt

ASSUME KindsDisjoint ==
  /\ Single \cap Group = {} /\ Single \cap AI = {} /\ Group \cap AI = {}
  /\ Corrupt \cap (Single \cup Group \cup AI) = {} /\ Unnumbered \subseteq AI
ASSUME AddressesTyped ==
  /\ Receiver \in [Single \cup AI -> Users]
  /\ Sender \in [Group -> Users]
  /\ Members \subseteq Users
ASSUME BoundsTyped == BatchSize \in Nat \ {0} /\ MaxPublished \in Nat /\ MaxFaults \in Nat
ASSUME NoneIsNoLogic == None \notin Logics

VARIABLES
  up,       \* up[m]: where the broker has message m
  owner,    \* owner[m]: the instance whose channel holds the delivery, or None
  linked,   \* instances whose consumer connection is open
  stage,    \* stage[l][m]: how far instance l is with m
  addr,     \* addr[l]: messages for which l found a route that is not empty
  todo,     \* todo[l][m]: group members still to be served
  rows,     \* rows[m][u]: rows of m with receiver_id = u
  bumps,    \* bumps[m][u]: times m raised unread_count of u's conversation
  online,   \* users with a route:user key in Redis
  down,     \* set of <<m, u>>: published to the exchange of u's gateway
  faults    \* failures so far

vars == <<up, owner, linked, stage, addr, todo, rows, bumps, online, down, faults>>
brokerVars == <<up, owner, linked>>
storeVars == <<rows, bumps, down>>

Stages == {"none", "queued", "routed", "retry", "stored", "counted", "group", "fanout", "ai", "ack"}
Recipients(m) == IF m \in Group THEN Members ELSE {Receiver[m]}
Rows(m) == {u \in Users : rows[m][u] > 0}

TypeOK ==
  /\ up \in [Msgs -> {"new", "ready", "unacked", "acked", "dead"}]
  /\ owner \in [Msgs -> Logics \cup {None}]
  /\ linked \subseteq Logics
  /\ stage \in [Logics -> [Msgs -> Stages]]
  /\ addr \in [Logics -> SUBSET Msgs]
  /\ todo \in [Logics -> [Msgs -> SUBSET Users]]
  /\ rows \in [Msgs -> [Users -> Nat]]
  /\ bumps \in [Msgs -> [Users -> Nat]]
  /\ online \subseteq Users
  /\ down \subseteq Msgs \X Users
  /\ faults \in 0 .. MaxFaults

Init ==
  /\ up = [m \in Msgs |-> "new"]
  /\ owner = [m \in Msgs |-> None]
  /\ linked = Logics
  /\ stage = [l \in Logics |-> [m \in Msgs |-> "none"]]
  /\ addr = [l \in Logics |-> {}]
  /\ todo = [l \in Logics |-> [m \in Msgs |-> {}]]
  /\ rows = [m \in Msgs |-> [u \in Users |-> 0]]
  /\ bumps = [m \in Msgs |-> [u \in Users |-> 0]]
  /\ online = {}
  /\ down = {}
  /\ faults = 0

-----------------------------------------------------------------------------
(* Steps shared by the actions.                                            *)

Fault == faults < MaxFaults /\ faults' = faults + 1
NoFault == UNCHANGED faults

Goto(l, m, s) == stage' = [stage EXCEPT ![l][m] = s] /\ UNCHANGED <<addr, todo>>

\* The goroutine or the handler is done with m; its locals are gone.
Finish(l, m) ==
  /\ stage' = [stage EXCEPT ![l][m] = "none"]
  /\ addr' = [addr EXCEPT ![l] = @ \ {m}]
  /\ todo' = [todo EXCEPT ![l][m] = {}]

\* d.Ack and d.Nack act on the delivery only while this instance's channel
\* still holds it; on a dead channel the error is discarded.
Settle(l, m, to) ==
  /\ up' = IF owner[m] = l THEN [up EXCEPT ![m] = to] ELSE up
  /\ owner' = IF owner[m] = l THEN [owner EXCEPT ![m] = None] ELSE owner
  /\ UNCHANGED linked

InsertRow(m, u) == rows' = [rows EXCEPT ![m][u] = @ + 1]
Bump(m, u) == bumps' = [bumps EXCEPT ![m][u] = @ + 1]

\* The messages batchInsertWorker of l has taken out of batchCh.
Flushing(l) == {m \in Single : stage[l][m] \in {"routed", "retry"}}

-----------------------------------------------------------------------------
(* Environment: gateways publish, users come and go.                       *)

\* A confirmed publish, or one whose confirmation timed out although the
\* broker stored it.  A publish that never arrives is no step: the gateway
\* gives up without acknowledging the client.
Arrive(m) ==
  /\ up[m] = "new"
  /\ Cardinality({n \in Msgs : up[n] # "new"}) < MaxPublished
  /\ up' = [up EXCEPT ![m] = "ready"]
  /\ UNCHANGED <<owner, linked, stage, addr, todo, storeVars, online, faults>>

SetRoute(u) ==
  /\ online' = IF u \in online THEN online \ {u} ELSE online \cup {u}
  /\ UNCHANGED <<brokerVars, stage, addr, todo, storeVars, faults>>

-----------------------------------------------------------------------------
(* handleUploadDelivery                                                    *)

FirstStage(m) == IF m \in Single THEN "queued"
                 ELSE IF m \in Group THEN "group" ELSE "ai"

\* Mutant: the consumer is registered with auto-ack.
DeliverAutoAck(l, m) ==
  /\ l \in linked /\ up[m] = "ready"
  /\ m \notin Corrupt
  /\ up' = [up EXCEPT ![m] = "acked"]
  /\ Goto(l, m, FirstStage(m))
  /\ UNCHANGED <<owner, linked, storeVars, online, faults>>

Deliver(l, m) ==
  /\ l \in linked /\ up[m] = "ready"
  /\ m \notin Corrupt
  /\ up' = [up EXCEPT ![m] = "unacked"]
  /\ owner' = [owner EXCEPT ![m] = l]
  /\ Goto(l, m, FirstStage(m))
  /\ UNCHANGED <<linked, storeVars, online, faults>>

\* Nack without requeue: the queue's dead-letter exchange takes the message.
RejectCorrupt(l, m) ==
  /\ l \in linked /\ up[m] = "ready"
  /\ m \in Corrupt
  /\ up' = [up EXCEPT ![m] = "dead"]
  /\ UNCHANGED <<owner, linked, stage, addr, todo, storeVars, online, faults>>

-----------------------------------------------------------------------------
(* batchInsertWorker.  A flush reads all routes, then inserts.             *)

\* All of B moves to stage s.
Advance(l, B, s) ==
  stage' = [stage EXCEPT ![l] = [m \in Msgs |-> IF m \in B THEN s ELSE stage[l][m]]]

\* MGet of the recipients' routes; when it fails every address stays empty.
LookupRoutes(l, B) ==
  /\ Flushing(l) = {}
  /\ B # {} /\ Cardinality(B) <= BatchSize
  /\ \A m \in B : stage[l][m] = "queued"
  /\ Advance(l, B, "routed")
  /\ \/ /\ NoFault
        /\ addr' = [addr EXCEPT ![l] = @ \cup {m \in B : Receiver[m] \in online}]
     \/ Fault /\ UNCHANGED addr
  /\ UNCHANGED <<brokerVars, todo, storeVars, online>>

\* Adds one row for the recipient of every message of B.
InsertAll(B) ==
  rows' = [m \in Msgs |-> IF m \in B THEN [rows[m] EXCEPT ![Receiver[m]] = @ + 1]
                          ELSE rows[m]]

Present(m) == rows[m][Receiver[m]] > 0

\* Mutant: a failed batch insert is only logged, without the fallback.
BatchInsertLogsError(l) ==
  /\ \E m \in Single : stage[l][m] = "routed"
  /\ LET B == {m \in Single : stage[l][m] = "routed"} IN
     /\ Advance(l, B, "stored")
     /\ \/ (\A m \in B : ~Present(m)) /\ InsertAll(B) /\ NoFault
        \/ (\E m \in B : Present(m)) /\ UNCHANGED rows /\ NoFault
        \/ UNCHANGED rows /\ Fault
  /\ UNCHANGED <<brokerVars, addr, todo, bumps, online, down>>

\* One INSERT for the whole batch: a duplicate primary key or a database
\* error fails all of it (an error may hide an insert that was applied).
BatchInsert(l) ==
  /\ \E m \in Single : stage[l][m] = "routed"
  /\ LET B == {m \in Single : stage[l][m] = "routed"} IN
     \/ /\ \A m \in B : ~Present(m)
        /\ InsertAll(B) /\ Advance(l, B, "stored") /\ NoFault
     \/ /\ \E m \in B : Present(m)
        /\ Advance(l, B, "retry") /\ NoFault /\ UNCHANGED rows
     \/ /\ Fault /\ Advance(l, B, "retry")
        /\ \/ UNCHANGED rows
           \/ (\A m \in B : ~Present(m)) /\ InsertAll(B)
  /\ UNCHANGED <<brokerVars, addr, todo, bumps, online, down>>

\* The fallback, one message at a time: a duplicate key counts as stored,
\* any other error sends the delivery to the dead-letter queue.
SingleInsert(l, m) ==
  /\ m \in Single /\ stage[l][m] = "retry"
  /\ \/ /\ IF Present(m) THEN UNCHANGED rows ELSE InsertRow(m, Receiver[m])
        /\ Goto(l, m, "stored") /\ NoFault /\ UNCHANGED brokerVars
     \/ /\ Fault /\ Settle(l, m, "dead") /\ Finish(l, m)
        /\ \/ UNCHANGED rows
           \/ ~Present(m) /\ InsertRow(m, Receiver[m])
  /\ UNCHANGED <<bumps, online, down>>

-----------------------------------------------------------------------------
(* updateConversationAndPush, a goroutine per stored message               *)

\* The receiver's conversation gains one unread message.  A failed upsert is
\* only logged, and both histories are dropped from the cache.
UpdateConversation(l, m) ==
  /\ m \in Single /\ stage[l][m] = "stored"
  /\ Goto(l, m, "counted")
  /\ \/ Bump(m, Receiver[m]) /\ NoFault
     \/ UNCHANGED bumps /\ Fault
  /\ UNCHANGED <<brokerVars, rows, online, down>>

\* Mutant: after a failed publish the delivery is neither acked nor nacked.
PushDownForgets(l, m) ==
  /\ m \in Single /\ stage[l][m] = "counted"
  /\ \/ /\ down' = IF m \in addr[l] THEN down \cup {<<m, Receiver[m]>>} ELSE down
        /\ Goto(l, m, "ack") /\ NoFault
     \/ /\ m \in addr[l] /\ Fault /\ UNCHANGED down /\ Finish(l, m)
  /\ UNCHANGED <<brokerVars, rows, bumps, online>>

\* An empty address means offline.  A failed publish (the broker may have it
\* all the same) returns the delivery to the queue.
PushDown(l, m) ==
  /\ m \in Single /\ stage[l][m] = "counted"
  /\ \/ /\ down' = IF m \in addr[l] THEN down \cup {<<m, Receiver[m]>>} ELSE down
        /\ Goto(l, m, "ack") /\ NoFault /\ UNCHANGED brokerVars
     \/ /\ m \in addr[l] /\ Fault
        /\ down' \in {down, down \cup {<<m, Receiver[m]>>}}
        /\ Settle(l, m, "ready") /\ Finish(l, m)
  /\ UNCHANGED <<rows, bumps, online>>

\* d.Ack.  A single chat is then published to the vector exchange: its consumer
\* is disabled (vector_consumer.go.disabled), no queue is bound to it, and the
\* broker discards the message.
Ack(l, m) ==
  /\ stage[l][m] = "ack"
  /\ Settle(l, m, "acked")
  /\ Finish(l, m)
  /\ UNCHANGED <<rows, bumps, online, down, faults>>

-----------------------------------------------------------------------------
(* handleGroupChat: fan-out to the members, one after the other            *)

\* Serve the members T next; the delivery is acknowledged when none is left.
Serve(l, m, T) ==
  /\ stage' = [stage EXCEPT ![l][m] = IF T = {} THEN "ack" ELSE "fanout"]
  /\ todo' = [todo EXCEPT ![l][m] = T]
  /\ UNCHANGED addr

GroupMembers(l, m) ==
  /\ m \in Group /\ stage[l][m] = "group"
  /\ \/ Serve(l, m, Members) /\ NoFault /\ UNCHANGED brokerVars
     \/ Fault /\ Settle(l, m, "ready") /\ Finish(l, m)      \* query failed
  /\ UNCHANGED <<storeVars, online>>

DuplicateId(m, u) == u = Sender[m] /\ rows[m][u] > 0
Published(m, u) == IF u \in online THEN down \cup {<<m, u>>} ELSE down

\* Upsert and push for a member whose row was written; the sender's own row
\* is born read and is neither counted nor pushed.
Notify(m, u) ==
  IF u = Sender[m] THEN UNCHANGED <<bumps, down>>
  ELSE Bump(m, u) /\ down' = Published(m, u)

\* The upsert, the route lookup or the publish failed: only logged.
NotifyPartly(m, u) ==
  IF u = Sender[m] THEN UNCHANGED <<bumps, down>>
  ELSE \/ UNCHANGED bumps /\ down' \in {down, Published(m, u)}
       \/ Bump(m, u) /\ UNCHANGED down

\* The sender's row keeps the message's own id, every other member gets a
\* freshly generated one: only the sender's insert can meet a duplicate key.
\* A failed insert skips the member (and may have been applied).
GroupMember(l, m, u) ==
  /\ m \in Group /\ stage[l][m] = "fanout" /\ u \in todo[l][m]
  /\ Serve(l, m, todo[l][m] \ {u})
  /\ \/ DuplicateId(m, u) /\ UNCHANGED <<rows, bumps, down>> /\ NoFault
     \/ ~DuplicateId(m, u) /\ InsertRow(m, u) /\ Notify(m, u) /\ NoFault
     \/ UNCHANGED <<rows, bumps, down>> /\ Fault
     \/ ~DuplicateId(m, u) /\ InsertRow(m, u) /\ NotifyPartly(m, u) /\ Fault
  /\ UNCHANGED <<brokerVars, online>>

\* A message without a number gets one from the AUTO_INCREMENT of its column,
\* and another one when it is inserted again: it meets no duplicate key.
DuplicateAI(m) == Present(m) /\ m \notin Unnumbered

(* handleAIChat: any insert error, a duplicate key included, requeues.     *)
HandleAI(l, m) ==
  /\ m \in AI /\ stage[l][m] = "ai"
  /\ \/ /\ ~DuplicateAI(m) /\ InsertRow(m, Receiver[m])
        /\ Goto(l, m, "ack") /\ NoFault /\ UNCHANGED brokerVars
     \/ /\ DuplicateAI(m) /\ UNCHANGED rows
        /\ Settle(l, m, "ready") /\ Finish(l, m) /\ NoFault
     \/ /\ ~DuplicateAI(m) /\ Fault
        /\ UNCHANGED rows \/ InsertRow(m, Receiver[m])
        /\ Settle(l, m, "ready") /\ Finish(l, m)
  /\ UNCHANGED <<bumps, online, down>>

-----------------------------------------------------------------------------
(* Failures of an instance                                                 *)

Requeue(l) ==
  /\ up' = [m \in Msgs |-> IF owner[m] = l THEN "ready" ELSE up[m]]
  /\ owner' = [m \in Msgs |-> IF owner[m] = l THEN None ELSE owner[m]]

\* The process dies and is started again (an idle, connected instance would
\* come back as it was).
Crash(l) ==
  /\ l \notin linked \/ \E m \in Msgs : stage[l][m] # "none"
  /\ Fault /\ Requeue(l)
  /\ linked' = linked \cup {l}
  /\ stage' = [stage EXCEPT ![l] = [m \in Msgs |-> "none"]]
  /\ addr' = [addr EXCEPT ![l] = {}]
  /\ todo' = [todo EXCEPT ![l] = [m \in Msgs |-> {}]]
  /\ UNCHANGED <<storeVars, online>>

\* Mutant: the consumer reconnects while its old goroutines go on.
LoseConnectionReconnects(l) ==
  /\ l \in linked /\ Fault /\ Requeue(l)
  /\ UNCHANGED <<linked, stage, addr, todo, storeVars, online>>

\* The AMQP connection is lost; consumeUploadLoop ends and nothing reconnects,
\* but the goroutines of the instance go on.
LoseConnection(l) ==
  /\ l \in linked /\ Fault /\ Requeue(l)
  /\ linked' = linked \ {l}
  /\ UNCHANGED <<stage, addr, todo, storeVars, online>>

-----------------------------------------------------------------------------
Work(l, m) == \/ Deliver(l, m) \/ RejectCorrupt(l, m) \/ SingleInsert(l, m)
              \/ UpdateConversation(l, m) \/ PushDown(l, m) \/ Ack(l, m)
              \/ GroupMembers(l, m) \/ HandleAI(l, m)
              \/ \E u \in Users : GroupMember(l, m, u)

Instance(l) == \/ \E m \in Msgs : Work(l, m)
               \/ \E B \in SUBSET Single : LookupRoutes(l, B)
               \/ BatchInsert(l)
               \/ Crash(l) \/ LoseConnection(l)

Next == \/ \E m \in Msgs : Arrive(m)
        \/ \E u \in Users : SetRoute(u)
        \/ \E l \in Logics : Instance(l)

Spec == Init /\ [][Next]_vars

\* Goroutines keep running, the 30 ms ticker keeps flushing, and the broker
\* keeps delivering a ready message to an open consumer.
Fairness == \A l \in Logics :
              /\ \A m \in Msgs : WF_vars(Work(l, m))
              /\ WF_vars(\E B \in SUBSET Single : LookupRoutes(l, B))
              /\ WF_vars(BatchInsert(l))

LiveSpec == Spec /\ Fairness

-----------------------------------------------------------------------------
(* Properties                                                              *)

\* A single or AI message leaves the queue by an acknowledgement only after
\* its row is in MySQL, whatever crashed or was redelivered in between.
AckedPersisted ==
  \A m \in Single \cup AI : up[m] = "acked" => Receiver[m] \in Rows(m)

\* A message is published towards a gateway only for a recipient whose row
\* was written before (store first, then push).
PersistBeforePush == \A m \in Msgs, u \in Users : <<m, u>> \in down => u \in Rows(m)

\* While an instance's connection is open, every message it works on is a
\* delivery it still holds: two connected instances never work on one message,
\* only an instance that lost its connection may lag behind another.
WorkOwned ==
  \A l \in linked, m \in Msgs : stage[l][m] # "none" => owner[m] = l

\* A delivery held by an instance is unsettled (the broker's side of WorkOwned).
OwnedUnacked == \A m \in Msgs : owner[m] # None => up[m] = "unacked"

\* What a stage says about the message: it was published, and past the insert
\* its row exists.
StageSound ==
  \A l \in Logics, m \in Msgs :
    /\ stage[l][m] # "none" => up[m] # "new"
    /\ stage[l][m] \in {"stored", "counted"} => m \in Single
    /\ m \in Single /\ stage[l][m] \in {"stored", "counted"} => rows[m][Receiver[m]] > 0
    /\ m \in Single \cup AI /\ stage[l][m] = "ack" => rows[m][Receiver[m]] > 0

\* The inductive invariant behind the four properties above.
IInv == /\ TypeOK /\ OwnedUnacked /\ StageSound
        /\ WorkOwned /\ AckedPersisted /\ PersistBeforePush

\* A message that was acknowledged or dead-lettered never returns to the
\* queue, even when an instance that lost its connection settles it late.
SettledIsFinal ==
  [][\A m \in Msgs : up[m] \in {"acked", "dead"} => up'[m] = up[m]]_vars

\* A redelivered message leaves one row per recipient and is counted once in
\* the unread counter of the recipient's conversation.
RedeliveryIsIdempotent ==
  \A m \in Msgs, u \in Users : rows[m][u] <= 1 /\ bumps[m][u] <= 1

\* Every single, group or unparsable message in the queue is eventually
\* acknowledged or dead-lettered, unless every instance lost its connection.
Settles ==
  \A m \in Msgs \ AI : up[m] = "ready" ~> up[m] \in {"acked", "dead"} \/ linked = {}

\* The same for AI messages.
AISettles ==
  \A m \in AI : up[m] = "ready" ~> up[m] \in {"acked", "dead"} \/ linked = {}

-----------------------------------------------------------------------------
(* The pipeline implements MessageLog: the broker's ready and unacked are  *)
(* one accepted state, and only the existence of a row is visible.         *)

Log == INSTANCE MessageLog WITH
  Required <- [m \in Msgs |-> IF m \in Single \cup AI THEN {Receiver[m]} ELSE {}],
  state <- [m \in Msgs |-> IF up[m] \in {"ready", "unacked"} THEN "accepted" ELSE up[m]],
  log <- {x \in Msgs \X Users : rows[x[1]][x[2]] > 0},
  pushed <- down

\* Every behaviour of the consumer, faults included, is one of MessageLog.
ImplementsLog == Log!Spec
=============================================================================
