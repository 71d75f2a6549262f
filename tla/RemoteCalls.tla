---------------------------- MODULE RemoteCalls ----------------------------
(***************************************************************************)
(* What a remote procedure call promises its caller, whatever becomes of   *)
(* the connection: a call returns once; its handler is started at most     *)
(* once, and only for a call that was made; a reply comes from a handler   *)
(* that ended, and is the reply to this very call.  An error or a timeout  *)
(* says nothing about the handler, which may run before or after it.       *)
(* Sequence numbers, locks, buffers and the connection do not appear.      *)
(***************************************************************************)
CONSTANT Calls

VARIABLES call,     \* call[k]: "new", "open", or what it returned
          exec,     \* exec[k]: the handler of k: "idle", "running" or "over"
          offered   \* calls whose reply is on the way, or has reached the caller

remoteVars == <<call, exec, offered>>

Init == /\ call = [k \in Calls |-> "new"]
        /\ exec = [k \in Calls |-> "idle"]
        /\ offered = {}

Make(k) == /\ call[k] = "new"
           /\ call' = [call EXCEPT ![k] = "open"]
           /\ UNCHANGED <<exec, offered>>

\* The handler starts, or the server refuses the request.
Start(k) == /\ call[k] # "new" /\ exec[k] = "idle"
            /\ \E e \in {"running", "over"} : exec' = [exec EXCEPT ![k] = e]
            /\ UNCHANGED <<call, offered>>

\* A handler that ends too late, or in an error, offers no reply.
Finish(k) == /\ exec[k] = "running"
             /\ exec' = [exec EXCEPT ![k] = "over"]
             /\ offered' \in {offered, offered \cup {k}}
             /\ UNCHANGED call

\* The reply is lost with the connection, or nobody waits for it any more.
Lose(k) == /\ k \in offered /\ call[k] # "reply"
           /\ offered' = offered \ {k}
           /\ UNCHANGED <<call, exec>>

Return(k, r) == /\ call[k] = "open"
                /\ r = "reply" => k \in offered
                /\ call' = [call EXCEPT ![k] = r]
                /\ UNCHANGED <<exec, offered>>

Next == \E k \in Calls :
          \/ Make(k) \/ Start(k) \/ Finish(k) \/ Lose(k)
          \/ \E r \in {"reply", "error", "timeout"} : Return(k, r)

Spec == Init /\ [][Next]_remoteVars
=============================================================================
