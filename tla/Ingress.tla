------------------------------ MODULE Ingress ------------------------------
(***************************************************************************)
(* Chat frames entering a gateway: ReadPump starts a goroutine per frame   *)
(* (apps/gateway/ws/client.go), which takes a sequence number from Redis   *)
(* (reliability.go) and an identifier from the gateway's Snowflake,        *)
(* publishes the upload and answers server_ack (chat.go).  An AI frame     *)
(* opens the Agent's stream first and relays it while another goroutine    *)
(* publishes.  The broker is external: a publish is stored or not, and its *)
(* confirmation arrives or not.  InitRabbitMQ declares the exchange, Logic *)
(* the queue behind it (pkg/mq/rabbitmq.go); a publish that finds no queue *)
(* is confirmed and dropped, for it is not mandatory.                      *)
(*                                                                         *)
(* Frames are numbered in the order their senders wrote them.  A login     *)
(* replaces the sender's connection; goroutines look the connection up     *)
(* when the code does.                                                     *)
(***************************************************************************)
EXTENDS Snowflake, Sequences, FiniteSets

CONSTANTS Frames,     \* numbers of the frames
          From,       \* From[f]: sender
          Kinds,      \* chat types the frames may have, as functions
          ConvOf,     \* ConvOf[f]: SingleChatConvID, group_<id> or ai_<sender>
          GatewayOf,  \* GatewayOf[u]: node number of the gateway of sender u
          Chunks,     \* chunks of an AI answer
          MaxLogins,  \* bound on new connections of a sender
          MaxErrors   \* bound on failed calls

ASSUME FramesAssumption ==
  /\ Frames \subseteq Nat /\ Chunks \in Nat
  /\ MaxLogins \in Nat /\ MaxErrors \in Nat
  /\ \A f \in Frames : GatewayOf[From[f]] \in Nodes

Senders == {From[f] : f \in Frames}
Convs == {ConvOf[f] : f \in Frames}

VARIABLES
  kind,     \* kind[f]: "single_chat", "group_chat" or "ai_chat"
  fpc,       \* fpc[f]: the goroutine that publishes frame f
  relay,    \* relay[f]: connection answer f is relayed to, 0 when none
  counter,  \* counter[c, u]: Redis seq:<conv>:<participant>
  seq,      \* seq[f]: 0 until assigned
  msgID,    \* msgID[f]: 0 until assigned
  bound,    \* some Logic has declared and bound the upload queue
  broker,   \* payloads in the upload queue: [frame, msg, seq]
  unrouted, \* payloads the exchange had no queue for
  conn,     \* conn[u]: connection in GlobalCliMap, 0 when none
  logins,   \* logins[u]: connections so far
  acks,     \* server_ack frames sent: [frame, msg, seq]
  read,     \* read[f]: lines of answer f read from the stream
  ended,    \* answers closed with ai_end
  errors

ingressVars == <<kind, fpc, relay, counter, seq, msgID, bound, broker,
                 unrouted, conn, logins, acks, read, ended, errors>>
mqVars == <<bound, broker, unrouted>>
connVars == <<conn, logins, read, ended>>
ingressAll == <<snowVars, ingressVars>>

CallFails == errors < MaxErrors /\ errors' = errors + 1
CallWorks == UNCHANGED errors
FrameGoto(f, p) == fpc' = [fpc EXCEPT ![f] = p]
Payload(f) == [frame |-> f, msg |-> msgID[f], seq |-> seq[f]]

----------------------------------------------------------------------------
(* ReadPump reads frames in order and handles each in a goroutine.         *)
ReadFrame(f) ==
  /\ fpc[f] = "unread" /\ conn[From[f]] # 0
  /\ \A e \in Frames : e < f /\ From[e] = From[f] => fpc[e] # "unread"
  /\ FrameGoto(f, IF kind[f] = "ai_chat" THEN "sse" ELSE "seq")
  /\ UNCHANGED <<snowVars, relay, counter, seq, msgID, mqVars, acks, connVars,
                 errors>>

(* handlerAIChat: the stream is opened before anything is stored.          *)
OpenStream(f) ==
  /\ fpc[f] = "sse"
  /\ \/ FrameGoto(f, "seq") /\ CallWorks
     \/ FrameGoto(f, "dropped") /\ CallFails
  /\ UNCHANGED <<snowVars, relay, counter, seq, msgID, mqVars, acks, connVars>>

(* After the numbers the AI handler starts the publishing goroutine and    *)
(* looks the sender's connection up, once, for the relay.                  *)
StartRelay(f) ==
  relay' = IF kind[f] = "ai_chat"
           THEN [relay EXCEPT ![f] = conn[From[f]]] ELSE relay

(* As GetNextSeqID, but the number is read before it is raised, as GET and *)
(* SET would do it: the raise is lost when two goroutines meet.            *)
MutGetNextSeqID(f) ==
  /\ fpc[f] = "seq"
  /\ LET k == <<ConvOf[f], From[f]>>
     IN /\ seq' = [seq EXCEPT ![f] = counter[k] + 1]
        /\ counter' = IF \E e \in Frames \ {f} : fpc[e] = "seq" THEN counter
                      ELSE [counter EXCEPT ![k] = @ + 1]
  /\ FrameGoto(f, "id") /\ CallWorks
  /\ UNCHANGED <<relay, snowVars, msgID, mqVars, acks, connVars>>

(* GetNextSeqID is INCR on a key per conversation and participant.  On an  *)
(* error the chat handlers give up; the AI handler goes on with zeros.     *)
GetNextSeqID(f) ==
  /\ fpc[f] = "seq"
  /\ \/ LET k == <<ConvOf[f], From[f]>>
        IN /\ counter' = [counter EXCEPT ![k] = @ + 1]
           /\ seq' = [seq EXCEPT ![f] = counter'[k]]
           /\ FrameGoto(f, "id") /\ CallWorks /\ UNCHANGED relay
     \/ kind[f] # "ai_chat" /\ CallFails /\ FrameGoto(f, "dropped")
        /\ UNCHANGED <<counter, seq, relay>>
     \/ kind[f] = "ai_chat" /\ CallFails /\ FrameGoto(f, "publish")
        /\ StartRelay(f) /\ UNCHANGED <<counter, seq>>
  /\ UNCHANGED <<snowVars, msgID, mqVars, acks, connVars>>

GenerateMsgID(f) ==
  /\ fpc[f] = "id" /\ Generate(GatewayOf[From[f]])
  /\ msgID' = [msgID EXCEPT ![f] = lastId'[GatewayOf[From[f]]]]
  /\ FrameGoto(f, "publish") /\ StartRelay(f)
  /\ UNCHANGED <<counter, seq, mqVars, acks, connVars, errors>>

(* ConsumeUploadQueue of the first Logic; the queue is durable.            *)
ConsumeUploadQueue ==
  /\ ~bound /\ bound' = TRUE
  /\ UNCHANGED <<snowVars, fpc, relay, counter, seq, msgID, broker, unrouted, acks,
                 connVars, errors>>

(* The broker has a payload: the queue takes it, if there is one.          *)
Routed(f) ==
  IF bound THEN broker' = broker \cup {Payload(f)} /\ UNCHANGED unrouted
  ELSE unrouted' = unrouted \cup {Payload(f)} /\ UNCHANGED broker

(* As PublishUpload, but a timed-out confirmation is taken for success.    *)
MutPublishUpload(f) ==
  /\ fpc[f] = "publish"
  /\ \/ Routed(f) /\ FrameGoto(f, "ack") /\ CallWorks
     \/ CallFails /\ FrameGoto(f, "ack") /\ UNCHANGED <<broker, unrouted>>
  /\ UNCHANGED <<snowVars, relay, counter, seq, msgID, bound, acks, connVars>>

(* PublishUpload waits for the confirmation.  An error leaves it open      *)
(* whether the broker has the message.                                     *)
PublishUpload(f) ==
  /\ fpc[f] = "publish"
  /\ \/ Routed(f) /\ FrameGoto(f, "ack") /\ CallWorks
     \/ /\ CallFails /\ FrameGoto(f, "dropped")
        /\ Routed(f) \/ UNCHANGED <<broker, unrouted>>
  /\ UNCHANGED <<snowVars, relay, counter, seq, msgID, bound, acks, connVars>>

(* server_ack goes to the connection the sender has now, if any.           *)
ServerAck(f) ==
  /\ fpc[f] = "ack" /\ FrameGoto(f, "done")
  /\ acks' = IF conn[From[f]] # 0 THEN acks \cup {Payload(f)} ELSE acks
  /\ UNCHANGED <<snowVars, relay, counter, seq, msgID, mqVars, connVars, errors>>

(* The Agent's stream: writeSSEEvent prefixes every event with "data: " and *)
(* ends the stream with the event done.  No event is the line [DONE].      *)
AgentStream == [i \in 1 .. Chunks + 1 |-> IF i > Chunks THEN "done" ELSE "chunk"]

(* The relay writes to the connection it looked up when it started;        *)
(* SendMessage on one that was replaced or closed is lost.                 *)
RelayTo(f) == relay[f]

Reachable(f) == conn[From[f]] = RelayTo(f)

(* A line of the stream becomes a frame ai_chunk (its text is left out),   *)
(* the line [DONE] the frame ai_end, which ends the relay.                 *)
RelayLine(f) ==
  /\ relay[f] # 0 /\ read[f] < Len(AgentStream)
  /\ read' = [read EXCEPT ![f] = @ + 1]
  /\ LET last == AgentStream[read'[f]] = "[DONE]"
     IN /\ relay' = IF last THEN [relay EXCEPT ![f] = 0] ELSE relay
        /\ ended' = IF last /\ Reachable(f) THEN ended \cup {f} ELSE ended
  /\ UNCHANGED <<snowVars, fpc, counter, seq, msgID, mqVars, conn, logins,
                 acks, errors>>

(* The stream is read to its end, or breaks off.                           *)
RelayEOF(f) ==
  /\ relay[f] # 0 /\ relay' = [relay EXCEPT ![f] = 0]
  /\ \/ read[f] = Len(AgentStream) /\ CallWorks
     \/ CallFails
  /\ UNCHANGED <<snowVars, fpc, counter, seq, msgID, mqVars, conn, logins,
                 acks, read, ended>>

(* Handler registers a new connection and closes the one it replaces;      *)
(* ReadPump's end removes it.                                              *)
Login(u) ==
  /\ logins[u] < MaxLogins /\ logins' = [logins EXCEPT ![u] = @ + 1]
  /\ conn' = [conn EXCEPT ![u] = logins'[u]]
  /\ UNCHANGED <<snowVars, fpc, relay, counter, seq, msgID, mqVars, acks, read,
                 ended, errors>>

Logout(u) ==
  /\ conn[u] # 0 /\ conn' = [conn EXCEPT ![u] = 0]
  /\ UNCHANGED <<snowVars, fpc, relay, counter, seq, msgID, mqVars, logins, acks,
                 read, ended, errors>>

----------------------------------------------------------------------------
(* InitRabbitMQ declares the exchanges; no queue is bound to the upload    *)
(* exchange before a Logic does it.                                        *)
InitRabbitMQ == bound = FALSE /\ broker = {} /\ unrouted = {}

IngressInit ==
  /\ SnowInit /\ kind \in Kinds
  /\ fpc = [f \in Frames |-> "unread"] /\ relay = [f \in Frames |-> 0]
  /\ counter = [k \in Convs \X Senders |-> 0]
  /\ seq = [f \in Frames |-> 0] /\ msgID = [f \in Frames |-> 0]
  /\ InitRabbitMQ /\ acks = {}
  /\ conn = [u \in Senders |-> 0] /\ logins = [u \in Senders |-> 0]
  /\ read = [f \in Frames |-> 0] /\ ended = {}
  /\ errors = 0

ChatStep(f) ==
  GetNextSeqID(f) \/ GenerateMsgID(f) \/ PublishUpload(f) \/ ServerAck(f)

handleSingleChat(f) == kind[f] = "single_chat" /\ ChatStep(f)
handleGroupChat(f) == kind[f] = "group_chat" /\ ChatStep(f)
handlerAIChat(f) ==
  kind[f] = "ai_chat" /\ (OpenStream(f) \/ ChatStep(f)
                          \/ RelayLine(f) \/ RelayEOF(f))

IngressNext ==
  /\ \/ \E f \in Frames : \/ ReadFrame(f) \/ handleSingleChat(f)
                          \/ handleGroupChat(f) \/ handlerAIChat(f)
     \/ \E u \in Senders : Login(u) \/ Logout(u)
     \/ ConsumeUploadQueue
  /\ UNCHANGED kind

IngressSpec == IngressInit /\ [][IngressNext]_ingressAll

----------------------------------------------------------------------------
(* Properties.                                                             *)

(* server_ack means that the broker confirmed exactly this message: the    *)
(* identifiers shown to the sender are those of a payload in the queue     *)
(* (chat.go: publish, then acknowledge), though Redis, the broker and the  *)
(* connection fail in between.  Only what was published before any Logic   *)
(* had declared the queue is acknowledged and lost (publish: mandatory is  *)
(* false).                                                                 *)
AckedIsPublished ==
  \A a \in acks : a \in broker \cup unrouted /\ a = Payload(a.frame)

(* Payloads of different frames differ: a sender's number in a             *)
(* conversation is used once and an identifier once, whatever the          *)
(* goroutines, gateways and clocks do (GetNextSeqID, GenerateMsgID).  Zero *)
(* is the AI handler's value after a Redis error.                          *)
PayloadsDistinct ==
  \A p, q \in broker :
    p # q => /\ p.msg = q.msg => p.msg = 0
             /\ /\ ConvOf[p.frame] = ConvOf[q.frame]
                /\ From[p.frame] = From[q.frame] /\ p.seq = q.seq
                => p.seq = 0
=============================================================================
