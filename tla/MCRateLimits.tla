----------------------------- MODULE MCRateLimits -----------------------------
(* The two limiters of POST /refresh with one point for a user and two for  *)
(* an address.                                                              *)
EXTENDS RateLimits

CONSTANTS r1, r2, r3, k1

MCSpecs == <<[points |-> 1, by |-> "refresh_user"], [points |-> 2, by |-> "ip"]>>
=============================================================================
