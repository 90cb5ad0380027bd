--------------------------- MODULE MCRefreshTokens ---------------------------
EXTENDS RefreshTokens, TLC

CONSTANTS u1, u2, r1, r2

Sym == Permutations(Requests) \cup Permutations(Users)
=============================================================================
