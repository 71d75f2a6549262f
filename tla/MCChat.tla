------------------------------- MODULE MCChat -------------------------------
(* The chat services of gateway and Logic on small instances.  They share  *)
(* no state in the models; part says which of them a behaviour is about.   *)
EXTENDS Ingress, History, Groups, Accounts

VARIABLE part
chatVars == <<ingressAll, historyVars, groupVars, accountVars, part>>

MCFrom == [f \in Frames |-> IF f = 3 THEN "v" ELSE "u"]
MCKinds == {[f \in Frames |-> IF f = 3 THEN "ai_chat" ELSE "single_chat"],
            [f \in Frames |-> "group_chat"]}
MCConvOf == [f \in Frames |-> IF f = 3 THEN "ai_v" ELSE "c"]
MCGatewayOf == [u \in {"u", "v"} |-> 1]

Init ==
  /\ part \in {"ingress", "history", "groups", "accounts"}
  /\ IngressInit /\ HistoryInit /\ GroupInit /\ AccountInit
  /\ part # "ingress" => kind = CHOOSE k \in Kinds : TRUE

Next ==
  /\ UNCHANGED part
  /\ \/ part = "ingress" /\ IngressNext
        /\ UNCHANGED <<historyVars, groupVars, accountVars>>
     \/ part = "history" /\ HistoryNext
        /\ UNCHANGED <<ingressAll, groupVars, accountVars>>
     \/ part = "groups" /\ GroupNext
        /\ UNCHANGED <<ingressAll, historyVars, accountVars>>
     \/ part = "accounts" /\ AccountNext
        /\ UNCHANGED <<ingressAll, historyVars, groupVars>>

Spec == Init /\ [][Next]_chatVars
=============================================================================
