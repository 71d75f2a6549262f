------------------------------- MODULE MCRpc -------------------------------
(* GrowRPC on small instances: the calls of one connection, its byte       *)
(* stream, its handshake, and a broadcast over several connections.  They  *)
(* share no state in the models; part says which a behaviour is about.     *)
EXTENDS RpcCall, Wire, XClient, Handshake

VARIABLE part
rpcVars == <<vars, wireVars, xVars, handVars, part>>

RpcInit ==
  /\ part \in {"call", "wire", "broadcast", "dial"}
  /\ Init /\ WireInit /\ XInit /\ HandInit
  /\ part # "wire" => codec = "gob" /\ side = "request"
  /\ part # "dial" => via = "tcp" /\ given = "none" /\ limited

RpcNext ==
  /\ UNCHANGED part
  /\ \/ part = "call" /\ Next /\ UNCHANGED <<wireVars, xVars, handVars>>
     \/ part = "wire" /\ WireNext /\ UNCHANGED <<vars, xVars, handVars>>
     \/ part = "broadcast" /\ XNext /\ UNCHANGED <<vars, wireVars, handVars>>
     \/ part = "dial" /\ HandNext /\ UNCHANGED <<vars, wireVars, xVars>>

RpcSpec == RpcInit /\ [][RpcNext]_rpcVars /\ Fairness
=============================================================================
