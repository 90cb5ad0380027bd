---------------------------- MODULE MCClientSession ----------------------------
(* Names for TLC: two calls in the first tab, one in the second.             *)
EXTENDS ClientSession

CONSTANTS u1, u2, a, b, a1, a2, b1

MCTabOf == [c \in Calls |-> IF c = b1 THEN b ELSE a]
=============================================================================
