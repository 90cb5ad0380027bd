----------------------------- MODULE RefreshTokens -----------------------------
(***************************************************************************)
(* Refresh-token rotation: token-service.ts and the routes that call it.    *)
(* Each SQL statement is one action.  Several requests are in flight, their *)
(* statements interleave; one that fails ends its handler, and a crash of   *)
(* the API process ends them all.                                           *)
(*                                                                          *)
(* Tokens are numbered in the order their rows are inserted; a family is    *)
(* named by its first token.  The client may present any token that was     *)
(* ever issued, at any time and any number of times.  That covers a         *)
(* response that is lost (its token is never presented), so the answers     *)
(* themselves, which write nothing, are not modelled.                       *)
(***************************************************************************)
EXTENDS Naturals, Sequences

CONSTANTS
  Users,
  Requests,   \* POST /refresh handlers the API can have in flight at once
  MaxTokens   \* bound: rows inserted in one behaviour

ASSUME MaxTokensTyped == MaxTokens \in Nat

Tokens == 1 .. MaxTokens

VARIABLES
  rows,     \* refresh_tokens; rows[t] is the row of token t
  expired,  \* tokens past their expiresAt
  pc,       \* the statement each handler executes next
  tok,      \* the token it was called with, 0 when idle
  ended     \* history: how each family was ended (see End)

vars == <<rows, expired, pc, tok, ended>>

(* A row is live while revokedAt is NULL; pruned, it is gone.               *)
Row == [user : Users, family : Tokens, state : {"live", "revoked", "pruned"}]

TypeOK ==
  /\ rows \in Seq(Row)
  /\ Len(rows) <= MaxTokens
  /\ expired \subseteq DOMAIN rows
  /\ pc \in [Requests -> {"idle", "lookup", "kill", "issue"}]
  /\ tok \in [Requests -> {0} \cup DOMAIN rows]
  /\ \A r \in Requests : pc[r] = "idle" <=> tok[r] = 0
  /\ ended \in [Tokens -> {"no", "raced", "clean"}]

Init ==
  /\ rows = <<>>
  /\ expired = {}
  /\ pc = [r \in Requests |-> "idle"]
  /\ tok = [r \in Requests |-> 0]
  /\ ended = [f \in Tokens |-> "no"]

Live(t) == rows[t].state = "live"
LiveTokens(f) == {t \in DOMAIN rows : Live(t) /\ rows[t].family = f}
(* A rotation of f stands between its claim and the INSERT of the successor. *)
Claims(r, f) == pc[r] = "issue" /\ rows[tok[r]].family = f
Rotating(f) == \E r \in Requests : Claims(r, f)

(* The rows of the tokens in T get a new state.                             *)
Mark(T, state) ==
  [t \in DOMAIN rows |-> IF t \in T THEN [rows[t] EXCEPT !.state = state] ELSE rows[t]]

Goto(r, label) == pc' = [pc EXCEPT ![r] = label]
Done(r) == Goto(r, "idle") /\ tok' = [tok EXCEPT ![r] = 0]

-----------------------------------------------------------------------------
(* issueRefreshToken: the INSERT, for user u into family f.                 *)
Insert(u, f) ==
  /\ Len(rows) < MaxTokens
  /\ rows' = Append(rows, [user |-> u, family |-> f, state |-> "live"])

(* establishSession (login, the OAuth callback) and the end of              *)
(* password/change: a fresh family.                                         *)
Open(u) ==
  /\ Insert(u, Len(rows) + 1)
  /\ UNCHANGED <<expired, pc, tok, ended>>

-----------------------------------------------------------------------------
(* POST /refresh with token t: rotateRefreshToken.  First the conditional    *)
(* UPDATE that claims the row, with the expiry check on what it returns.    *)

AfterClaim(r, t) ==
  IF t \in expired THEN UNCHANGED <<pc, tok>>
  ELSE Goto(r, "issue") /\ tok' = [tok EXCEPT ![r] = t]

NotClaimed(r, t) ==
  Goto(r, "lookup") /\ tok' = [tok EXCEPT ![r] = t] /\ UNCHANGED rows

(* Slip: the claim does not ask for revokedAt IS NULL.                      *)
RefreshUnconditionally(r, t) ==
  /\ pc[r] = "idle"
  /\ t \in DOMAIN rows
  /\ IF rows[t].state # "pruned"
       THEN rows' = Mark({t}, "revoked") /\ AfterClaim(r, t)
       ELSE NotClaimed(r, t)
  /\ UNCHANGED <<expired, ended>>

(* Slip: the presented token is not revoked when it is rotated.             *)
RefreshKeepsOld(r, t) ==
  /\ pc[r] = "idle"
  /\ t \in DOMAIN rows
  /\ IF Live(t) THEN UNCHANGED rows /\ AfterClaim(r, t) ELSE NotClaimed(r, t)
  /\ UNCHANGED <<expired, ended>>

Refresh(r, t) ==
  /\ pc[r] = "idle"
  /\ t \in DOMAIN rows
  /\ IF Live(t)
       THEN rows' = Mark({t}, "revoked") /\ AfterClaim(r, t)
       ELSE NotClaimed(r, t)
  /\ UNCHANGED <<expired, ended>>

(* No row claimed: a row that is there at all means reuse, otherwise the    *)
(* token is just invalid.                                                   *)
Lookup(r) ==
  /\ pc[r] = "lookup"
  /\ IF rows[tok[r]].state = "pruned" THEN Done(r) ELSE Goto(r, "kill") /\ UNCHANGED tok
  /\ UNCHANGED <<rows, expired, ended>>

(* UPDATE ... SET revokedAt WHERE family in F AND revokedAt IS NULL.  The   *)
(* history notes whether it was clean or raced with a rotation of the       *)
(* family, whose successor the UPDATE cannot see yet.                       *)
End(F) ==
  /\ rows' = Mark({t \in DOMAIN rows : Live(t) /\ rows[t].family \in F}, "revoked")
  /\ ended' = [f \in Tokens |->
       IF f \notin F \/ ended[f] = "clean" THEN ended[f]
       ELSE IF Rotating(f) THEN "raced" ELSE "clean"]

(* revokeFamily, then 401 TOKEN_REUSE_DETECTED.                             *)
Kill(r) ==
  /\ pc[r] = "kill"
  /\ End({rows[tok[r]].family})
  /\ Done(r)
  /\ UNCHANGED expired

(* Slips: the successor starts a family of its own; it goes to the family   *)
(* of whatever row was inserted last; its family is left empty.             *)
IssueNewFamily(r) ==
  /\ pc[r] = "issue"
  /\ Insert(rows[tok[r]].user, Len(rows) + 1)
  /\ Done(r)
  /\ UNCHANGED <<expired, ended>>
IssueInLastFamily(r) ==
  /\ pc[r] = "issue"
  /\ Insert(rows[tok[r]].user, rows[Len(rows)].family)
  /\ Done(r)
  /\ UNCHANGED <<expired, ended>>
IssueWithoutFamily(r) ==
  /\ pc[r] = "issue"
  /\ Insert(rows[tok[r]].user, 0)
  /\ Done(r)
  /\ UNCHANGED <<expired, ended>>

(* The successor: same user, same family.  The route then answers with it,  *)
(* or with 401 if the account is no longer active; the row is there either  *)
(* way.                                                                     *)
Issue(r) ==
  /\ pc[r] = "issue"
  /\ Insert(rows[tok[r]].user, rows[tok[r]].family)
  /\ Done(r)
  /\ UNCHANGED <<expired, ended>>

-----------------------------------------------------------------------------
(* The other ways a session ends.                                           *)

(* revokeByRawToken (logout, by the cookie) and revokeSession (DELETE       *)
(* /sessions/:id): one row, if it is live.                                  *)
RevokeOne(t) ==
  /\ Live(t)
  /\ rows' = Mark({t}, "revoked")
  /\ ended' = [ended EXCEPT ![rows[t].family] = "clean"]
  /\ UNCHANGED <<expired, pc, tok>>

(* revokeAllForUser: logout-all, resetPassword and password/change.         *)
EndAll(u) ==
  /\ End({rows[t].family : t \in {i \in DOMAIN rows : rows[i].user = u}})
  /\ UNCHANGED <<expired, pc, tok>>

-----------------------------------------------------------------------------
(* Time, housekeeping and failures.                                         *)

Expire(t) ==
  /\ t \notin expired
  /\ expired' = expired \cup {t}
  /\ UNCHANGED <<rows, pc, tok, ended>>

(* pruneExpiredTokens deletes every expired row, live ones included.        *)
Prune ==
  /\ rows' = Mark(expired, "pruned")
  /\ UNCHANGED <<expired, pc, tok, ended>>

(* A statement fails: its handler ends there, and the others go on.         *)
CutOff(r) == Done(r) /\ UNCHANGED <<rows, expired, ended>>

Crash ==
  /\ pc' = [r \in Requests |-> "idle"]
  /\ tok' = [r \in Requests |-> 0]
  /\ UNCHANGED <<rows, expired, ended>>

-----------------------------------------------------------------------------
(* The specification.                                                       *)

Handler(r) ==
  \/ \E t \in Tokens : Refresh(r, t)
  \/ Lookup(r) \/ Kill(r) \/ Issue(r) \/ CutOff(r)

Next ==
  \/ \E r \in Requests : Handler(r)
  \/ \E u \in Users : Open(u) \/ EndAll(u)
  \/ \E t \in DOMAIN rows : RevokeOne(t) \/ Expire(t)
  \/ Prune \/ Crash

Spec == Init /\ [][Next]_vars

-----------------------------------------------------------------------------
(* Properties.                                                              *)

(* Rotation hands a session on without ever doubling it: of the live rows   *)
(* of a family and the rotations under way in it there is at most one,      *)
(* whatever requests present the same token at the same time.               *)
OneHeirPerFamily ==
  \A f \in Tokens :
    /\ \A t, v \in LiveTokens(f) : t = v
    /\ \A r, q \in Requests : Claims(r, f) /\ Claims(q, f) => r = q
    /\ LiveTokens(f) = {} \/ ~Rotating(f)

(* A family belongs to one user, and its first token is of the family,      *)
(* through every rotation.                                                  *)
FamilyHasOneOwner ==
  \A t \in DOMAIN rows : LET f == rows[t].family IN
    f <= t /\ rows[f].family = f /\ rows[f].user = rows[t].user

(* A session that was ended (by reuse detection, logout, logout-all, a      *)
(* password reset or change) while none of its rotations was under way      *)
(* never has a live token again.                                            *)
CleanEndIsFinal ==
  \A f \in Tokens : ended[f] = "clean" => LiveTokens(f) = {}

-----------------------------------------------------------------------------
(* Rotation implements Sessions: the session of a family is open while a    *)
(* row is live, rotating while a request stands before its INSERT, and      *)
(* closed once neither is the case.                                         *)
phaseBar == [f \in Tokens |->
  IF f \notin {rows[t].family : t \in DOMAIN rows} THEN "none"
  ELSE IF LiveTokens(f) # {} THEN "open"
  ELSE IF Rotating(f) THEN "rotating" ELSE "closed"]

usableBar == [f \in Tokens |->
  IF LiveTokens(f) = {} THEN 0 ELSE CHOOSE t \in LiveTokens(f) : TRUE]

S == INSTANCE Sessions WITH minted <- Len(rows), phase <- phaseBar, usable <- usableBar

(* Every login, rotation and revocation is a step of Sessions: a closed     *)
(* session never opens again and an open one has one usable token.          *)
ImplementsSessions == S!Spec
=============================================================================
