------------------------------ MODULE ChatPath ------------------------------
(***************************************************************************)
(* The way of a chat message from its sender to MySQL: the handlers of the *)
(* gateways (Ingress) composed with the upload consumers of Logic          *)
(* (UploadConsumer).  The frames are messages of the consumers.  The two   *)
(* share the upload queue: the step of a handler that puts its payload     *)
(* there is the step by which the message arrives at the consumers.        *)
(*                                                                         *)
(* A route key and an entry in a gateway's map are separate state, written *)
(* and lost separately (Delivery has both): conn and online stay           *)
(* unrelated here.                                                         *)
(***************************************************************************)
EXTENDS UploadConsumer, Ingress

\* The chat type a handler writes into the payload of f decides who handles it.
ChatType(f) == IF f \in Group THEN "group_chat"
               ELSE IF f \in AI THEN "ai_chat" ELSE "single_chat"

ASSUME FramesAreMessages ==
  /\ Frames \subseteq Single \cup Group \cup AI
  /\ \A k \in Kinds, f \in Frames : k[f] = ChatType(f)

pathVars == <<ingressAll, vars>>

PathInit == IngressInit /\ Init

\* A gateway's step that leaves the queue alone.
Gateway == IngressNext /\ UNCHANGED <<broker, vars>>

\* Every handler publishes in the same way; the publish reaches the queue.
\* Unnumbered foretells the AI frames that get no number: other behaviours
\* belong to other values of it.
Upload(f) ==
  /\ PublishUpload(f) /\ UNCHANGED kind /\ broker' # broker
  /\ f \in AI => (msgID[f] = 0 <=> f \in Unnumbered)
  /\ Arrive(f)

\* Messages that are no frame of these gateways: another gateway's, or not JSON.
Others(m) == bound /\ Arrive(m) /\ UNCHANGED ingressAll

Consumers ==
  /\ \/ \E u \in Users : SetRoute(u)
     \/ \E l \in Logics : Instance(l)
  /\ UNCHANGED ingressAll

PathNext == \/ Gateway \/ Consumers
            \/ \E f \in Frames : Upload(f)
            \/ \E m \in Msgs \ Frames : Others(m)

PathSpec == PathInit /\ [][PathNext]_pathVars

-----------------------------------------------------------------------------
(* Properties                                                              *)

\* The frames whose payload the queue took, or the exchange discarded.
Taken == {p.frame : p \in broker}
Discarded == {p.frame : p \in unrouted}
Told == {a.frame : a \in acks}

\* The consumers' view of a frame is the gateways': it left "new" exactly when
\* its payload entered the queue, and no discarded frame did.
QueuesAgree ==
  /\ \A f \in Frames : up[f] # "new" <=> f \in Taken
  /\ Taken \cap Discarded = {}

\* After a server_ack the message waits in the queue, is in the dead-letter
\* queue, or its recipient's row is in MySQL, whatever failed on either side of
\* the queue; the one exception is a message published before any Logic had
\* declared the queue.
ToldIsKept ==
  \A f \in Told \ Discarded :
    \/ up[f] \in {"ready", "unacked", "dead"}
    \/ up[f] = "acked" /\ (f \in Single \cup AI => Receiver[f] \in Rows(f))

Promise == INSTANCE ChatPromise WITH
  Required <- [m \in Msgs |-> IF m \in Single \cup AI THEN {Receiver[m]} ELSE {}],
  state <- [m \in Msgs |-> IF up[m] \in {"ready", "unacked"} THEN "accepted" ELSE up[m]],
  log <- {x \in Msgs \X Users : rows[x[1]][x[2]] > 0},
  pushed <- down, told <- Told, lost <- Discarded

\* Gateways and consumers together keep the promise of a server_ack.
KeepsPromise == Promise!PromiseSpec
=============================================================================
