---------------------------- MODULE ChatPromise ----------------------------
(***************************************************************************)
(* What a sender may conclude from a server_ack, end to end: MessageLog,   *)
(* with the senders who were told.  A message is told of only after it was *)
(* accepted, so that it is still queued, has its recipient's row or was    *)
(* dead-lettered; or it was discarded because nobody had declared the      *)
(* queue yet, and then it is never accepted.  Connections, numbers and     *)
(* handlers do not appear here.                                            *)
(***************************************************************************)
EXTENDS MessageLog

VARIABLES told,   \* messages acknowledged to their sender
          lost    \* messages the exchange had no queue for

promiseVars == <<logVars, told, lost>>

PromiseInit == Init /\ told = {} /\ lost = {}

Discard(m) == /\ state[m] = "new" /\ lost' = lost \cup {m}
              /\ UNCHANGED <<logVars, told>>

Tell(m) == /\ state[m] # "new" \/ m \in lost
           /\ told' = told \cup {m}
           /\ UNCHANGED <<logVars, lost>>

Serve == /\ Next
         /\ \A m \in lost : state'[m] = state[m]
         /\ UNCHANGED <<told, lost>>

PromiseNext == Serve \/ \E m \in Msgs : Discard(m) \/ Tell(m)

PromiseSpec == PromiseInit /\ [][PromiseNext]_promiseVars
=============================================================================
