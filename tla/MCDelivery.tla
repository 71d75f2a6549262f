---------------------------- MODULE MCDelivery ----------------------------
(* Delivery for a user with up to three connections, two of them to g1.     *)
EXTENDS Delivery, TLC
CONSTANTS g1, g2, c1, c2, c3

MCHome == [c \in Conns |-> IF c = c3 THEN g2 ELSE g1]

\* The two connections to g1 are interchangeable.
MCSymmetry == Permutations({c1, c2})
=============================================================================
