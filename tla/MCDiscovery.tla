---------------------------- MODULE MCDiscovery ----------------------------
(* Discovery with two instances, a gateway and two virtual nodes each.  *)
EXTENDS Discovery

MCVnodes == [s \in Servers |-> {10 * s, 25 - 3 * s}]
MCKeyPoint == [k \in Keys |-> 6 * k]
=============================================================================
