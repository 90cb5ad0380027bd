------------------------------- MODULE Sessions -------------------------------
(***************************************************************************)
(* What refresh-token rotation promises: a login opens a session; at any    *)
(* time at most one token continues it; a rotation replaces that token by   *)
(* one never seen before; a closed session never opens again.               *)
(***************************************************************************)
EXTENDS Naturals

CONSTANT MaxTokens

VARIABLES
  minted,  \* tokens made so far; they are numbered in the order they are made
  phase,   \* session -> where it stands; a session has its first token's number
  usable   \* session -> the token that continues it, 0 when none does

Numbers == 1 .. MaxTokens

Init ==
  /\ minted = 0
  /\ phase = [f \in Numbers |-> "none"]
  /\ usable = [f \in Numbers |-> 0]

Mint == minted < MaxTokens /\ minted' = minted + 1

Open ==
  /\ Mint
  /\ phase' = [phase EXCEPT ![minted + 1] = "open"]
  /\ usable' = [usable EXCEPT ![minted + 1] = minted + 1]

Claim(f) ==
  /\ phase[f] = "open"
  /\ phase' = [phase EXCEPT ![f] = "rotating"]
  /\ usable' = [usable EXCEPT ![f] = 0]
  /\ UNCHANGED minted

Renew(f) ==
  /\ phase[f] = "rotating"
  /\ Mint
  /\ phase' = [phase EXCEPT ![f] = "open"]
  /\ usable' = [usable EXCEPT ![f] = minted + 1]

Close(F) ==
  /\ \A f \in F : phase[f] \in {"open", "rotating"}
  /\ phase' = [f \in Numbers |-> IF f \in F THEN "closed" ELSE phase[f]]
  /\ usable' = [f \in Numbers |-> IF f \in F THEN 0 ELSE usable[f]]
  /\ UNCHANGED minted

Next ==
  \/ Open
  \/ \E f \in Numbers : Claim(f) \/ Renew(f)
  \/ \E F \in SUBSET Numbers : Close(F)

Spec == Init /\ [][Next]_<<minted, phase, usable>>
=============================================================================
