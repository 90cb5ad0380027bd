------------------------- MODULE RefreshTokens_proofs -------------------------
(***************************************************************************)
(* What holds of RefreshTokens for every set of users, any number of        *)
(* requests in flight and any number of tokens.                             *)
(***************************************************************************)
EXTENDS RefreshTokens, TLAPS

(* CleanEndIsFinal, made inductive: no rotation is left that could insert   *)
(* a successor.                                                             *)
Closed == \A f \in Tokens :
  ended[f] = "clean" => LiveTokens(f) = {} /\ \A r \in Requests : ~Claims(r, f)

(* Only families that exist were ended.                                     *)
EndedExist == \A f \in Tokens : ended[f] # "no" => f \in DOMAIN rows

IInv == TypeOK /\ OneHeirPerFamily /\ FamilyHasOneOwner /\ Closed /\ EndedExist

States == {"live", "revoked", "pruned"}

-----------------------------------------------------------------------------
(* Rows.                                                                    *)

(* The rows are numbered from 1, and each is a row.                         *)
LEMMA RowFacts ==
  ASSUME TypeOK
  PROVE  /\ Len(rows) \in Nat
         /\ DOMAIN rows = 1 .. Len(rows)
         /\ DOMAIN rows \subseteq Tokens
         /\ \A t \in DOMAIN rows : rows[t] \in Row
BY MaxTokensTyped DEF TypeOK, Tokens

(* An UPDATE leaves the number of rows, their users and families alone.     *)
LEMMA MarkFacts ==
  ASSUME TypeOK, NEW T, NEW state \in States
  PROVE  /\ Mark(T, state) \in Seq(Row)
         /\ Len(Mark(T, state)) = Len(rows)
         /\ DOMAIN Mark(T, state) = DOMAIN rows
         /\ \A t \in DOMAIN rows :
              /\ Mark(T, state)[t].user = rows[t].user
              /\ Mark(T, state)[t].family = rows[t].family
              /\ Mark(T, state)[t].state = IF t \in T THEN state ELSE rows[t].state
<1> DEFINE m == Mark(T, state)
<1>1. Len(rows) \in Nat /\ DOMAIN rows = 1 .. Len(rows)
      /\ \A t \in DOMAIN rows : rows[t] \in Row
  BY RowFacts
<1>2. \A t \in DOMAIN rows : [rows[t] EXCEPT !.state = state] \in Row
  BY <1>1 DEF Row, States
<1>3. m \in [1 .. Len(rows) -> Row]
  BY <1>1, <1>2 DEF Mark
<1>4. m \in Seq(Row) /\ Len(m) = Len(rows)
  BY <1>1, <1>3
<1>5. ASSUME NEW t \in DOMAIN rows
      PROVE  /\ m[t].user = rows[t].user
             /\ m[t].family = rows[t].family
             /\ m[t].state = IF t \in T THEN state ELSE rows[t].state
  <2>1. rows[t] \in Row
    BY <1>1
  <2>2. m[t] = IF t \in T THEN [rows[t] EXCEPT !.state = state] ELSE rows[t]
    BY DEF Mark
  <2>3. QED
    BY <2>1, <2>2 DEF Row
<1>6. QED
  BY <1>1, <1>3, <1>4, <1>5

(* An INSERT adds one live row behind the others.                           *)
LEMMA InsertFacts ==
  ASSUME TypeOK, NEW u \in Users, NEW f \in Tokens, Insert(u, f)
  PROVE  /\ rows' \in Seq(Row)
         /\ Len(rows') = Len(rows) + 1
         /\ Len(rows') <= MaxTokens
         /\ DOMAIN rows' = DOMAIN rows \cup {Len(rows) + 1}
         /\ \A t \in DOMAIN rows : rows'[t] = rows[t]
         /\ rows'[Len(rows) + 1] = [user |-> u, family |-> f, state |-> "live"]
<1>1. rows \in Seq(Row) /\ Len(rows) \in Nat
  BY DEF TypeOK
<1>2. [user |-> u, family |-> f, state |-> "live"] \in Row
  BY DEF Row
<1>3. QED
  BY <1>1, <1>2, MaxTokensTyped DEF Insert

-----------------------------------------------------------------------------
(* Steps that open nothing: no token comes to life and no rotation begins.  *)

Narrows ==
  /\ \A f \in Tokens : LiveTokens(f)' \subseteq LiveTokens(f)
  /\ \A f \in Tokens, r \in Requests : Claims(r, f)' => Claims(r, f)
  /\ \A f \in Tokens : ended'[f] = "clean" =>
       \/ ended[f] = "clean"
       \/ LiveTokens(f)' = {} /\ \A r \in Requests : ~Claims(r, f)'

LEMMA NarrowingIsSafe ==
  ASSUME OneHeirPerFamily, Closed, Narrows
  PROVE  OneHeirPerFamily' /\ Closed'
<1>1. ASSUME NEW f \in Tokens
      PROVE  /\ \A t, v \in LiveTokens(f)' : t = v
             /\ \A r, q \in Requests : Claims(r, f)' /\ Claims(q, f)' => r = q
             /\ LiveTokens(f)' = {} \/ ~Rotating(f)'
  BY DEF OneHeirPerFamily, Narrows, Rotating
<1>2. ASSUME NEW f \in Tokens, ended'[f] = "clean"
      PROVE  LiveTokens(f)' = {} /\ \A r \in Requests : ~Claims(r, f)'
  BY <1>2 DEF Closed, Narrows
<1>3. QED
  BY <1>1, <1>2 DEF OneHeirPerFamily, Closed

(* Users and families never change, so a step that inserts nothing keeps    *)
(* the owners.                                                              *)
SameNames ==
  /\ DOMAIN rows' = DOMAIN rows
  /\ \A t \in DOMAIN rows :
       rows'[t].user = rows[t].user /\ rows'[t].family = rows[t].family

LEMMA OwnersStay ==
  ASSUME TypeOK, FamilyHasOneOwner, SameNames
  PROVE  FamilyHasOneOwner'
<1>1. \A t \in DOMAIN rows : rows[t].family \in DOMAIN rows
  <2> SUFFICES ASSUME NEW t \in DOMAIN rows PROVE rows[t].family \in DOMAIN rows
    OBVIOUS
  <2>1. rows[t].family <= t /\ rows[t].family \in Tokens
    BY RowFacts DEF FamilyHasOneOwner, Row
  <2>2. QED
    BY <2>1, RowFacts, MaxTokensTyped DEF Tokens
<1>2. QED
  BY <1>1 DEF FamilyHasOneOwner, SameNames

(* An UPDATE that revokes or deletes rows narrows what is live.             *)
LEMMA MarkNarrows ==
  ASSUME TypeOK, NEW T, NEW state \in {"revoked", "pruned"}, rows' = Mark(T, state)
  PROVE  /\ \A f \in Tokens : LiveTokens(f)' = LiveTokens(f) \ T
         /\ SameNames
<1>1. /\ DOMAIN rows' = DOMAIN rows
      /\ \A t \in DOMAIN rows :
           /\ rows'[t].user = rows[t].user
           /\ rows'[t].family = rows[t].family
           /\ rows'[t].state = IF t \in T THEN state ELSE rows[t].state
  BY MarkFacts DEF States
<1>2. ASSUME NEW f \in Tokens
      PROVE  LiveTokens(f)' = LiveTokens(f) \ T
  BY <1>1 DEF LiveTokens, Live
<1>3. QED
  BY <1>1, <1>2 DEF SameNames

-----------------------------------------------------------------------------
(* The requests.                                                            *)

PCs == {"idle", "lookup", "kill", "issue"}

(* What moving one handler does to the program counters and the tokens.     *)
LEMMA MoveFacts ==
  ASSUME TypeOK, NEW r \in Requests, NEW l \in PCs, NEW t \in {0} \cup DOMAIN rows,
         l = "idle" <=> t = 0
  PROVE  /\ [pc EXCEPT ![r] = l] \in [Requests -> PCs]
         /\ [tok EXCEPT ![r] = t] \in [Requests -> {0} \cup DOMAIN rows]
         /\ \A q \in Requests : [pc EXCEPT ![r] = l][q] = "idle"
                                  <=> [tok EXCEPT ![r] = t][q] = 0
         /\ \A q \in Requests : /\ [pc EXCEPT ![r] = l][q] = IF q = r THEN l ELSE pc[q]
                                /\ [tok EXCEPT ![r] = t][q] = IF q = r THEN t ELSE tok[q]
BY DEF TypeOK, PCs

(* A handler that is somewhere works on a token.                            *)
LEMMA TokInDomain ==
  ASSUME TypeOK, NEW r \in Requests, pc[r] # "idle"
  PROVE  /\ tok[r] \in DOMAIN rows
         /\ rows[tok[r]] \in Row
         /\ rows[tok[r]].family \in Tokens
         /\ rows[tok[r]].user \in Users
<1>1. tok[r] \in DOMAIN rows
  BY DEF TypeOK
<1>2. rows[tok[r]] \in Row
  BY <1>1, RowFacts
<1>3. QED
  BY <1>1, <1>2 DEF Row
(* A handler that does not move, over rows that keep their names, claims    *)
(* what it claimed.                                                         *)
LEMMA ClaimsStay ==
  ASSUME TypeOK, SameNames, NEW r \in Requests, pc'[r] = pc[r], tok'[r] = tok[r],
         NEW f \in Tokens
  PROVE  Claims(r, f)' <=> Claims(r, f)
<1>1. CASE pc[r] = "issue"
  <2>1. tok[r] \in DOMAIN rows
    BY <1>1, TokInDomain
  <2>2. QED
    BY <2>1 DEF Claims, SameNames
<1>2. CASE pc[r] # "issue"
  BY <1>2 DEF Claims
<1>3. QED
  BY <1>1, <1>2

(* Handlers that stand still or leave for a step that is no INSERT claim    *)
(* nothing new.                                                             *)
LEMMA ClaimsNarrow ==
  ASSUME TypeOK, SameNames,
         \A q \in Requests : \/ pc'[q] = pc[q] /\ tok'[q] = tok[q]
                             \/ pc'[q] # "issue"
  PROVE  \A f \in Tokens, q \in Requests : Claims(q, f)' => Claims(q, f)
<1> SUFFICES ASSUME NEW f \in Tokens, NEW q \in Requests
             PROVE  Claims(q, f)' => Claims(q, f)
  OBVIOUS
<1>1. CASE pc'[q] = pc[q] /\ tok'[q] = tok[q]
  BY <1>1, ClaimsStay
<1>2. CASE pc'[q] # "issue"
  BY <1>2 DEF Claims
<1>3. QED
  BY <1>1, <1>2

-----------------------------------------------------------------------------
(* Type correctness, one lemma per way of writing the rows.                 *)

LEMMA TypeAfterMark ==
  ASSUME TypeOK, NEW T, NEW state \in States, rows' = Mark(T, state),
         expired' = expired,
         pc' \in [Requests -> PCs], tok' \in [Requests -> {0} \cup DOMAIN rows],
         \A r \in Requests : pc'[r] = "idle" <=> tok'[r] = 0,
         ended' \in [Tokens -> {"no", "raced", "clean"}]
  PROVE  TypeOK'
<1>1. rows' \in Seq(Row) /\ Len(rows') = Len(rows) /\ DOMAIN rows' = DOMAIN rows
  BY MarkFacts
<1>2. QED
  BY <1>1 DEF TypeOK, PCs

LEMMA TypeAfterInsert ==
  ASSUME TypeOK, NEW u \in Users, NEW f \in Tokens, Insert(u, f),
         UNCHANGED <<expired, ended>>,
         pc' \in [Requests -> PCs], tok' \in [Requests -> {0} \cup DOMAIN rows],
         \A r \in Requests : pc'[r] = "idle" <=> tok'[r] = 0
  PROVE  TypeOK'
<1>1. /\ rows' \in Seq(Row) /\ Len(rows') <= MaxTokens
      /\ DOMAIN rows \subseteq DOMAIN rows'
  BY InsertFacts
<1>2. tok' \in [Requests -> {0} \cup DOMAIN rows']
  BY <1>1
<1>3. QED
  BY <1>1, <1>2 DEF TypeOK, PCs

LEMMA TypedNow ==
  ASSUME TypeOK
  PROVE  /\ pc \in [Requests -> PCs] /\ tok \in [Requests -> {0} \cup DOMAIN rows]
         /\ \A r \in Requests : pc[r] = "idle" <=> tok[r] = 0
         /\ ended \in [Tokens -> {"no", "raced", "clean"}]
         /\ expired \subseteq DOMAIN rows
BY DEF TypeOK, PCs

-----------------------------------------------------------------------------
(* An inserted row, seen by the families.                                   *)
LEMMA InsertViews ==
  ASSUME TypeOK, FamilyHasOneOwner, NEW u \in Users, NEW g \in Tokens, Insert(u, g)
  PROVE  /\ \A f \in Tokens : LiveTokens(f)' =
              LiveTokens(f) \cup (IF f = g THEN {Len(rows) + 1} ELSE {})
         /\ \A r \in Requests, f \in Tokens :
              pc'[r] = pc[r] /\ tok'[r] = tok[r] => (Claims(r, f)' <=> Claims(r, f))
<1>1. /\ DOMAIN rows' = DOMAIN rows \cup {Len(rows) + 1}
      /\ \A t \in DOMAIN rows : rows'[t] = rows[t]
      /\ rows'[Len(rows) + 1] = [user |-> u, family |-> g, state |-> "live"]
      /\ Len(rows) + 1 \notin DOMAIN rows
  <2>1. Len(rows) + 1 \notin DOMAIN rows
    BY RowFacts
  <2>2. QED
    BY <2>1, InsertFacts
<1>2. ASSUME NEW f \in Tokens
      PROVE  LiveTokens(f)' = LiveTokens(f) \cup (IF f = g THEN {Len(rows) + 1} ELSE {})
  BY <1>1 DEF LiveTokens, Live
<1>3. ASSUME NEW r \in Requests, NEW f \in Tokens, pc'[r] = pc[r], tok'[r] = tok[r]
      PROVE  Claims(r, f)' <=> Claims(r, f)
  <2>1. CASE pc[r] = "issue"
    <3>1. tok[r] \in DOMAIN rows
      BY <2>1, TokInDomain
    <3>2. QED
      BY <1>1, <1>3, <3>1 DEF Claims
  <2>2. CASE pc[r] # "issue"
    BY <1>3, <2>2 DEF Claims
  <2>3. QED
    BY <2>1, <2>2
<1>4. QED
  BY <1>2, <1>3

(* An inserted row keeps the owners when it continues a family of its user, *)
(* or starts one.                                                           *)
LEMMA InsertOwners ==
  ASSUME TypeOK, FamilyHasOneOwner, NEW u \in Users, NEW g \in Tokens, Insert(u, g),
         \/ g = Len(rows) + 1
         \/ g \in DOMAIN rows /\ rows[g].family = g /\ rows[g].user = u
  PROVE  FamilyHasOneOwner'
<1>1. /\ DOMAIN rows' = DOMAIN rows \cup {Len(rows) + 1}
      /\ \A t \in DOMAIN rows : rows'[t] = rows[t]
      /\ rows'[Len(rows) + 1] = [user |-> u, family |-> g, state |-> "live"]
      /\ Len(rows) \in Nat /\ DOMAIN rows = 1 .. Len(rows)
  BY InsertFacts, RowFacts
<1>2. ASSUME NEW t \in DOMAIN rows
      PROVE  rows[t].family \in DOMAIN rows /\ rows[t].family <= t
  <2>1. rows[t].family <= t /\ rows[t].family \in Tokens
    BY RowFacts DEF FamilyHasOneOwner, Row
  <2>2. QED
    BY <1>1, <2>1, MaxTokensTyped DEF Tokens
<1>3. ASSUME NEW t \in DOMAIN rows'
      PROVE  /\ rows'[t].family <= t
             /\ rows'[rows'[t].family].family = rows'[t].family
             /\ rows'[rows'[t].family].user = rows'[t].user
  <2>1. CASE t \in DOMAIN rows
    BY <1>1, <1>2, <2>1 DEF FamilyHasOneOwner
  <2>2. CASE t = Len(rows) + 1
    <3>1. rows'[t].family = g /\ rows'[t].user = u
      BY <1>1, <2>2
    <3>2. CASE g = Len(rows) + 1
      BY <1>1, <2>2, <3>1, <3>2
    <3>3. CASE g \in DOMAIN rows /\ rows[g].family = g /\ rows[g].user = u
      BY <1>1, <2>2, <3>1, <3>3
    <3>4. QED
      BY <3>2, <3>3
  <2>3. QED
    BY <1>1, <2>1, <2>2
<1>4. QED
  BY <1>3 DEF FamilyHasOneOwner
-----------------------------------------------------------------------------
(* The actions.                                                             *)

LEMMA OpenStep ==
  ASSUME IInv, NEW u \in Users, Open(u) PROVE IInv'
<1> DEFINE g == Len(rows) + 1
<1> USE DEF IInv
<1>1. g \in Tokens /\ Insert(u, g) /\ g \notin DOMAIN rows
  <2>1. g \notin DOMAIN rows
    BY RowFacts
  <2>2. QED
    BY <2>1, RowFacts, MaxTokensTyped DEF Open, Insert, Tokens
<1>2. TypeOK'
  BY <1>1, TypeAfterInsert, TypedNow DEF Open
<1>3. FamilyHasOneOwner'
  BY <1>1, InsertOwners
<1>4. \A t \in DOMAIN rows : rows[t].family # g
  BY RowFacts DEF FamilyHasOneOwner, Row, Tokens
<1>5. LiveTokens(g) = {} /\ \A r \in Requests : ~Claims(r, g)
  BY <1>4, TokInDomain DEF LiveTokens, Claims
<1>6. \A f \in Tokens : LiveTokens(f)' = LiveTokens(f) \cup (IF f = g THEN {g} ELSE {})
  BY <1>1, InsertViews
<1>7. \A r \in Requests, f \in Tokens : Claims(r, f)' <=> Claims(r, f)
  BY <1>1, InsertViews DEF Open
<1>8. OneHeirPerFamily'
  BY <1>5, <1>6, <1>7 DEF OneHeirPerFamily, Rotating
<1>9. EndedExist' /\ Closed'
  <2>1. DOMAIN rows \subseteq DOMAIN rows' /\ ended' = ended
    BY <1>1, InsertFacts DEF Open
  <2>2. \A f \in Tokens : ended[f] # "no" => f # g
    BY <1>1 DEF EndedExist
  <2>3. QED
    BY <1>6, <1>7, <2>1, <2>2 DEF EndedExist, Closed
<1>10. QED
  BY <1>2, <1>3, <1>8, <1>9

LEMMA IssueStep ==
  ASSUME IInv, NEW r \in Requests, Issue(r) PROVE IInv'
<1> DEFINE g == rows[tok[r]].family
           n == Len(rows) + 1
<1> USE DEF IInv
<1>1. /\ tok[r] \in DOMAIN rows /\ g \in Tokens /\ rows[tok[r]].user \in Users
      /\ Insert(rows[tok[r]].user, g) /\ Claims(r, g)
  BY TokInDomain DEF Issue, Claims
<1>2. /\ pc' \in [Requests -> PCs] /\ tok' \in [Requests -> {0} \cup DOMAIN rows]
      /\ \A q \in Requests : pc'[q] = "idle" <=> tok'[q] = 0
      /\ pc'[r] = "idle"
      /\ \A q \in Requests \ {r} : pc'[q] = pc[q] /\ tok'[q] = tok[q]
  BY MoveFacts DEF Issue, Done, Goto, PCs
<1>3. TypeOK'
  BY <1>1, <1>2, TypeAfterInsert DEF Issue
<1>4. FamilyHasOneOwner'
  <2>1. g \in DOMAIN rows
    BY <1>1, RowFacts, MaxTokensTyped DEF FamilyHasOneOwner, Tokens
  <2>2. rows[g].family = g /\ rows[g].user = rows[tok[r]].user
    BY <1>1 DEF FamilyHasOneOwner
  <2>3. QED
    BY <1>1, <2>1, <2>2, InsertOwners
<1>5. \A f \in Tokens : LiveTokens(f)' = LiveTokens(f) \cup (IF f = g THEN {n} ELSE {})
  BY <1>1, InsertViews
<1>6. \A q \in Requests, f \in Tokens : Claims(q, f)' <=> q # r /\ Claims(q, f)
  <2> SUFFICES ASSUME NEW q \in Requests, NEW f \in Tokens
               PROVE  Claims(q, f)' <=> q # r /\ Claims(q, f)
    OBVIOUS
  <2>1. CASE q = r
    BY <1>2, <2>1 DEF Claims
  <2>2. CASE q # r
    BY <1>1, <1>2, <2>2, InsertViews
  <2>3. QED
    BY <2>1, <2>2
<1>7. LiveTokens(g) = {} /\ \A q \in Requests : Claims(q, g) => q = r
  BY <1>1 DEF OneHeirPerFamily, Rotating
<1>8. OneHeirPerFamily'
  BY <1>5, <1>6, <1>7 DEF OneHeirPerFamily, Rotating
<1>9. EndedExist' /\ Closed'
  <2>1. DOMAIN rows \subseteq DOMAIN rows' /\ ended' = ended
    BY <1>1, InsertFacts DEF Issue
  <2>2. ended[g] # "clean"
    BY <1>1 DEF Closed
  <2>3. QED
    BY <1>5, <1>6, <2>1, <2>2 DEF EndedExist, Closed
<1>10. QED
  BY <1>3, <1>4, <1>8, <1>9
(* A step that renames nothing and narrows what is live keeps everything    *)
(* but the types.                                                           *)
LEMMA NarrowStep ==
  ASSUME IInv, Narrows, SameNames, TypeOK',
         \A f \in Tokens : ended'[f] # "no" => ended[f] # "no" \/ f \in DOMAIN rows
  PROVE  IInv'
<1>1. OneHeirPerFamily' /\ Closed'
  BY NarrowingIsSafe DEF IInv
<1>2. FamilyHasOneOwner'
  BY OwnersStay DEF IInv
<1>3. EndedExist'
  BY DEF IInv, EndedExist, SameNames
<1>4. QED
  BY <1>1, <1>2, <1>3 DEF IInv

(* The same for steps that leave the rows and the history alone.            *)
LEMMA QuietStep ==
  ASSUME IInv, UNCHANGED <<rows, ended>>, expired' \subseteq DOMAIN rows,
         pc' \in [Requests -> PCs], tok' \in [Requests -> {0} \cup DOMAIN rows],
         \A q \in Requests : pc'[q] = "idle" <=> tok'[q] = 0,
         \A q \in Requests : \/ pc'[q] = pc[q] /\ tok'[q] = tok[q]
                             \/ pc'[q] # "issue"
  PROVE  IInv'
<1>1. TypeOK'
  BY DEF IInv, TypeOK, PCs
<1>2. SameNames /\ \A f \in Tokens : LiveTokens(f)' = LiveTokens(f)
  BY DEF SameNames, LiveTokens, Live
<1>3. Narrows
  BY <1>2, ClaimsNarrow DEF Narrows, IInv
<1>4. QED
  BY <1>1, <1>2, <1>3, NarrowStep

LEMMA RefreshStep ==
  ASSUME IInv, NEW r \in Requests, NEW t \in Tokens, Refresh(r, t) PROVE IInv'
<1> USE DEF IInv
<1>1. t \in DOMAIN rows /\ t # 0 /\ rows[t] \in Row
  BY RowFacts DEF Refresh, Tokens
<1>2. CASE ~Live(t)
  <2>1. /\ pc' = [pc EXCEPT ![r] = "lookup"] /\ tok' = [tok EXCEPT ![r] = t]
        /\ UNCHANGED <<rows, expired, ended>>
    BY <1>2 DEF Refresh, NotClaimed, Goto
  <2>2. /\ pc' \in [Requests -> PCs] /\ tok' \in [Requests -> {0} \cup DOMAIN rows]
        /\ \A q \in Requests : pc'[q] = "idle" <=> tok'[q] = 0
        /\ \A q \in Requests : \/ pc'[q] = pc[q] /\ tok'[q] = tok[q]
                               \/ pc'[q] # "issue"
    BY <1>1, <2>1, MoveFacts DEF PCs
  <2>3. QED
    BY <2>1, <2>2, TypedNow, QuietStep
<1>3. CASE Live(t) /\ t \in expired
  <2>1. rows' = Mark({t}, "revoked") /\ UNCHANGED <<expired, pc, tok, ended>>
    BY <1>3 DEF Refresh, AfterClaim
  <2>2. TypeOK'
    BY <2>1, TypeAfterMark, TypedNow DEF States
  <2>3. SameNames /\ \A f \in Tokens : LiveTokens(f)' = LiveTokens(f) \ {t}
    BY <2>1, MarkNarrows
  <2>4. Narrows
    BY <2>1, <2>3, ClaimsNarrow DEF Narrows
  <2>5. QED
    BY <2>1, <2>2, <2>3, <2>4, NarrowStep
<1>4. CASE Live(t) /\ t \notin expired
  <2> DEFINE g == rows[t].family
  <2>1. /\ rows' = Mark({t}, "revoked") /\ UNCHANGED <<expired, ended>>
        /\ pc' = [pc EXCEPT ![r] = "issue"] /\ tok' = [tok EXCEPT ![r] = t]
        /\ pc[r] = "idle"
    BY <1>4 DEF Refresh, AfterClaim, Goto
  <2>2. /\ pc' \in [Requests -> PCs] /\ tok' \in [Requests -> {0} \cup DOMAIN rows]
        /\ \A q \in Requests : pc'[q] = "idle" <=> tok'[q] = 0
        /\ pc'[r] = "issue" /\ tok'[r] = t
        /\ \A q \in Requests \ {r} : pc'[q] = pc[q] /\ tok'[q] = tok[q]
    BY <1>1, <2>1, MoveFacts DEF PCs
  <2>3. TypeOK'
    BY <2>1, <2>2, TypeAfterMark, TypedNow DEF States
  <2>4. SameNames /\ \A f \in Tokens : LiveTokens(f)' = LiveTokens(f) \ {t}
    BY <2>1, MarkNarrows
  <2>5. \A q \in Requests, f \in Tokens :
          Claims(q, f)' <=> IF q = r THEN f = g ELSE Claims(q, f)
    <3> SUFFICES ASSUME NEW q \in Requests, NEW f \in Tokens
                 PROVE  Claims(q, f)' <=> IF q = r THEN f = g ELSE Claims(q, f)
      OBVIOUS
    <3>1. CASE q = r
      <4>1. rows'[t].family = g
        BY <1>1, <2>4 DEF SameNames
      <4>2. QED
        BY <2>2, <3>1, <4>1 DEF Claims
    <3>2. CASE q # r
      BY <2>2, <2>4, <3>2, ClaimsStay
    <3>3. QED
      BY <3>1, <3>2
  <2>6. g \in Tokens /\ LiveTokens(g) = {t} /\ \A q \in Requests : ~Claims(q, g)
    <3>1. g \in Tokens /\ t \in LiveTokens(g)
      BY <1>1, <1>4 DEF LiveTokens, Row
    <3>2. QED
      BY <3>1 DEF OneHeirPerFamily, Rotating
  <2>7. OneHeirPerFamily'
    BY <2>4, <2>5, <2>6 DEF OneHeirPerFamily, Rotating
  <2>8. FamilyHasOneOwner'
    BY <2>4, OwnersStay
  <2>9. EndedExist' /\ Closed'
    <3>1. ended[g] # "clean"
      BY <2>6 DEF Closed
    <3>2. QED
      BY <2>1, <2>4, <2>5, <3>1 DEF EndedExist, Closed, SameNames
  <2>10. QED
    BY <2>3, <2>7, <2>8, <2>9
<1>5. QED
  BY <1>2, <1>3, <1>4

LEMMA LookupStep ==
  ASSUME IInv, NEW r \in Requests, Lookup(r) PROVE IInv'
<1>1. tok[r] \in DOMAIN rows /\ tok[r] # 0
  BY TokInDomain, RowFacts DEF IInv, Lookup
<1>2. CASE rows[tok[r]].state = "pruned"
  <2>1. pc' = [pc EXCEPT ![r] = "idle"] /\ tok' = [tok EXCEPT ![r] = 0]
        /\ UNCHANGED <<rows, expired, ended>>
    BY <1>2 DEF Lookup, Done, Goto
  <2>2. /\ pc' \in [Requests -> PCs] /\ tok' \in [Requests -> {0} \cup DOMAIN rows]
        /\ \A q \in Requests : pc'[q] = "idle" <=> tok'[q] = 0
        /\ \A q \in Requests : \/ pc'[q] = pc[q] /\ tok'[q] = tok[q]
                               \/ pc'[q] # "issue"
    BY <2>1, MoveFacts DEF PCs, IInv
  <2>3. QED
    BY <2>1, <2>2, TypedNow, QuietStep DEF IInv
<1>3. CASE rows[tok[r]].state # "pruned"
  <2>1. pc' = [pc EXCEPT ![r] = "kill"] /\ tok' = tok /\ UNCHANGED <<rows, expired, ended>>
    BY <1>3 DEF Lookup, Goto
  <2>2. /\ pc' \in [Requests -> PCs] /\ tok' \in [Requests -> {0} \cup DOMAIN rows]
        /\ \A q \in Requests : pc'[q] = "idle" <=> tok'[q] = 0
        /\ \A q \in Requests : \/ pc'[q] = pc[q] /\ tok'[q] = tok[q]
                               \/ pc'[q] # "issue"
    BY <1>1, <2>1, TypedNow DEF PCs, IInv
  <2>3. QED
    BY <2>1, <2>2, TypedNow, QuietStep DEF IInv
<1>4. QED
  BY <1>2, <1>3

(* The UPDATE of revokeFamily and revokeAllForUser, whatever the handlers   *)
(* do at that moment, as long as none of them starts a rotation.            *)
LEMMA EndStep ==
  ASSUME IInv, NEW F, F \subseteq DOMAIN rows, End(F), expired' = expired,
         pc' \in [Requests -> PCs], tok' \in [Requests -> {0} \cup DOMAIN rows],
         \A q \in Requests : pc'[q] = "idle" <=> tok'[q] = 0,
         \A q \in Requests : \/ pc'[q] = pc[q] /\ tok'[q] = tok[q]
                             \/ pc'[q] # "issue"
  PROVE  IInv'
<1> DEFINE T == {t \in DOMAIN rows : Live(t) /\ rows[t].family \in F}
<1> USE DEF IInv
<1>1. rows' = Mark(T, "revoked")
  BY DEF End
<1>2. /\ ended' \in [Tokens -> {"no", "raced", "clean"}]
      /\ \A f \in Tokens :
           /\ f \notin F => ended'[f] = ended[f]
           /\ ended'[f] = "clean" /\ ended[f] # "clean" => f \in F /\ ~Rotating(f)
  BY TypedNow DEF End
<1>3. TypeOK'
  BY <1>1, <1>2, TypeAfterMark DEF States
<1>4. SameNames /\ \A f \in Tokens : LiveTokens(f)' = LiveTokens(f) \ T
  BY <1>1, MarkNarrows
<1>5. \A f \in Tokens, q \in Requests : Claims(q, f)' => Claims(q, f)
  BY <1>4, ClaimsNarrow
<1>6. \A f \in F : f \in Tokens => LiveTokens(f)' = {}
  BY <1>4 DEF LiveTokens
<1>7. Narrows
  BY <1>2, <1>4, <1>5, <1>6 DEF Narrows, Rotating
<1>8. QED
  BY <1>2, <1>3, <1>4, <1>7, NarrowStep

LEMMA FamiliesExist ==
  ASSUME IInv PROVE \A t \in DOMAIN rows : rows[t].family \in DOMAIN rows
<1> SUFFICES ASSUME NEW t \in DOMAIN rows PROVE rows[t].family \in DOMAIN rows
  OBVIOUS
<1>1. rows[t].family <= t /\ rows[t].family \in Tokens
  BY RowFacts DEF FamilyHasOneOwner, Row, IInv
<1>2. QED
  BY <1>1, RowFacts, MaxTokensTyped DEF Tokens, IInv

LEMMA KillStep ==
  ASSUME IInv, NEW r \in Requests, Kill(r) PROVE IInv'
<1>1. tok[r] \in DOMAIN rows
  BY TokInDomain DEF IInv, Kill
<1>2. {rows[tok[r]].family} \subseteq DOMAIN rows
  BY <1>1, FamiliesExist
<1>3. pc' = [pc EXCEPT ![r] = "idle"] /\ tok' = [tok EXCEPT ![r] = 0]
  BY DEF Kill, Done, Goto
<1>4. /\ pc' \in [Requests -> PCs] /\ tok' \in [Requests -> {0} \cup DOMAIN rows]
      /\ \A q \in Requests : pc'[q] = "idle" <=> tok'[q] = 0
      /\ \A q \in Requests : \/ pc'[q] = pc[q] /\ tok'[q] = tok[q]
                             \/ pc'[q] # "issue"
  BY <1>3, MoveFacts DEF PCs, IInv
<1>5. QED
  BY <1>2, <1>4, EndStep DEF Kill

LEMMA EndAllStep ==
  ASSUME IInv, NEW u \in Users, EndAll(u) PROVE IInv'
<1> DEFINE F == {rows[t].family : t \in {i \in DOMAIN rows : rows[i].user = u}}
<1>1. F \subseteq DOMAIN rows
  BY FamiliesExist
<1>2. End(F) /\ UNCHANGED <<expired, pc, tok>>
  BY DEF EndAll
<1>3. QED
  BY <1>1, <1>2, TypedNow, EndStep DEF IInv

LEMMA RevokeOneStep ==
  ASSUME IInv, NEW t \in DOMAIN rows, RevokeOne(t) PROVE IInv'
<1> DEFINE g == rows[t].family
<1> USE DEF IInv
<1>1. rows' = Mark({t}, "revoked") /\ UNCHANGED <<expired, pc, tok>>
      /\ ended' = [ended EXCEPT ![g] = "clean"]
  BY DEF RevokeOne
<1>2. /\ ended' \in [Tokens -> {"no", "raced", "clean"}]
      /\ \A f \in Tokens : f # g => ended'[f] = ended[f]
  BY <1>1, TypedNow
<1>3. TypeOK'
  BY <1>1, <1>2, TypeAfterMark, TypedNow DEF States
<1>4. SameNames /\ \A f \in Tokens : LiveTokens(f)' = LiveTokens(f) \ {t}
  BY <1>1, MarkNarrows
<1>5. \A f \in Tokens, q \in Requests : Claims(q, f)' <=> Claims(q, f)
  BY <1>1, <1>4, ClaimsStay
<1>6. LiveTokens(g) = {t} /\ \A q \in Requests : ~Claims(q, g)
  <2>1. g \in Tokens /\ t \in LiveTokens(g)
    BY RowFacts DEF RevokeOne, LiveTokens, Row
  <2>2. QED
    BY <2>1 DEF OneHeirPerFamily, Rotating
<1>7. Narrows
  BY <1>2, <1>4, <1>5, <1>6 DEF Narrows
<1>8. \A f \in Tokens : ended'[f] # "no" => ended[f] # "no" \/ f \in DOMAIN rows
  BY <1>2, FamiliesExist
<1>9. QED
  BY <1>3, <1>4, <1>7, <1>8, NarrowStep

LEMMA PruneStep ==
  ASSUME IInv, Prune PROVE IInv'
<1> USE DEF IInv
<1>1. rows' = Mark(expired, "pruned") /\ UNCHANGED <<expired, pc, tok, ended>>
  BY DEF Prune
<1>2. TypeOK'
  BY <1>1, TypeAfterMark, TypedNow DEF States
<1>3. SameNames /\ \A f \in Tokens : LiveTokens(f)' = LiveTokens(f) \ expired
  BY <1>1, MarkNarrows
<1>4. \A f \in Tokens, q \in Requests : Claims(q, f)' <=> Claims(q, f)
  BY <1>1, <1>3, ClaimsStay
<1>5. Narrows
  BY <1>1, <1>3, <1>4 DEF Narrows
<1>6. QED
  BY <1>1, <1>2, <1>3, <1>5, NarrowStep
LEMMA ExpireStep ==
  ASSUME IInv, NEW t \in DOMAIN rows, Expire(t) PROVE IInv'
<1>1. expired' \subseteq DOMAIN rows /\ UNCHANGED <<rows, pc, tok, ended>>
  BY TypedNow DEF Expire, IInv
<1>2. QED
  BY <1>1, TypedNow, QuietStep DEF IInv

LEMMA CrashStep ==
  ASSUME IInv, Crash PROVE IInv'
<1>1. /\ pc' \in [Requests -> PCs] /\ tok' \in [Requests -> {0} \cup DOMAIN rows]
      /\ \A q \in Requests : pc'[q] = "idle" /\ tok'[q] = 0
      /\ UNCHANGED <<rows, expired, ended>>
  BY DEF Crash, PCs
<1>2. QED
  BY <1>1, TypedNow, QuietStep DEF IInv

LEMMA CutOffStep ==
  ASSUME IInv, NEW r \in Requests, CutOff(r) PROVE IInv'
<1>1. /\ pc' \in [Requests -> PCs] /\ tok' \in [Requests -> {0} \cup DOMAIN rows]
      /\ \A q \in Requests : pc'[q] = "idle" <=> tok'[q] = 0
      /\ pc'[r] = "idle"
      /\ \A q \in Requests \ {r} : pc'[q] = pc[q] /\ tok'[q] = tok[q]
      /\ UNCHANGED <<rows, expired, ended>>
  BY MoveFacts DEF CutOff, Done, Goto, PCs, IInv
<1>2. QED
  BY <1>1, TypedNow, QuietStep DEF IInv

LEMMA StutterStep ==
  ASSUME IInv, UNCHANGED vars PROVE IInv'
<1>1. UNCHANGED <<rows, expired, pc, tok, ended>>
  BY DEF vars
<1>2. QED
  BY <1>1, TypedNow, QuietStep DEF IInv

-----------------------------------------------------------------------------
(* The theorems.                                                            *)

LEMMA InitInv == Init => IInv
<1> SUFFICES ASSUME Init PROVE IInv
  OBVIOUS
<1>1. rows = <<>> /\ DOMAIN rows = {} /\ Len(rows) = 0
  BY DEF Init
<1>2. TypeOK
  <2>1. rows \in Seq(Row)
    BY <1>1
  <2>2. QED
    BY <1>1, <2>1, MaxTokensTyped DEF Init, TypeOK
<1>3. \A f \in Tokens : LiveTokens(f) = {} /\ \A r \in Requests : ~Claims(r, f)
  BY <1>1 DEF LiveTokens, Claims, Init
<1>4. QED
  BY <1>1, <1>2, <1>3 DEF IInv, OneHeirPerFamily, FamilyHasOneOwner, Closed, EndedExist,
     Rotating, Init

LEMMA NextInv == IInv /\ [Next]_vars => IInv'
<1> SUFFICES ASSUME IInv, [Next]_vars PROVE IInv'
  OBVIOUS
<1>1. CASE \E r \in Requests : Handler(r)
  <2>1. PICK r \in Requests : Handler(r)
    BY <1>1
  <2>2. CASE \E t \in Tokens : Refresh(r, t)
    BY <2>2, RefreshStep
  <2>3. CASE Lookup(r)
    BY <2>3, LookupStep
  <2>4. CASE Kill(r)
    BY <2>4, KillStep
  <2>5. CASE Issue(r)
    BY <2>5, IssueStep
  <2>6. CASE CutOff(r)
    BY <2>6, CutOffStep
  <2>7. QED
    BY <2>1, <2>2, <2>3, <2>4, <2>5, <2>6 DEF Handler
<1>2. CASE \E u \in Users : Open(u) \/ EndAll(u)
  BY <1>2, OpenStep, EndAllStep
<1>3. CASE \E t \in DOMAIN rows : RevokeOne(t) \/ Expire(t)
  BY <1>3, RevokeOneStep, ExpireStep
<1>4. CASE Prune \/ Crash
  BY <1>4, PruneStep, CrashStep
<1>5. CASE UNCHANGED vars
  BY <1>5, StutterStep
<1>6. QED
  BY <1>1, <1>2, <1>3, <1>4, <1>5 DEF Next

THEOREM Invariance == Spec => []IInv
BY InitInv, NextInv, PTL DEF Spec

(* Every variable keeps its type: a handler that is busy has a token whose  *)
(* row was inserted, and a row never loses its user or family.              *)
THEOREM TypeCorrect == Spec => []TypeOK
<1>1. IInv => TypeOK
  BY DEF IInv
<1>2. QED
  BY <1>1, Invariance, PTL

(* Rotation never doubles a session, however many requests race.            *)
THEOREM OneHeir == Spec => []OneHeirPerFamily
<1>1. IInv => OneHeirPerFamily
  BY DEF IInv
<1>2. QED
  BY <1>1, Invariance, PTL

(* A family belongs to the user who opened it.                              *)
THEOREM OneOwner == Spec => []FamilyHasOneOwner
<1>1. IInv => FamilyHasOneOwner
  BY DEF IInv
<1>2. QED
  BY <1>1, Invariance, PTL

(* A session ended while none of its rotations was under way stays ended.   *)
THEOREM CleanEnd == Spec => []CleanEndIsFinal
<1>1. IInv => CleanEndIsFinal
  BY DEF IInv, Closed, CleanEndIsFinal
<1>2. QED
  BY <1>1, Invariance, PTL

-----------------------------------------------------------------------------
(* Rotation implements Sessions.  What the refinement mapping says of a     *)
(* family, without the CHOOSE.                                              *)

Families == {rows[t].family : t \in DOMAIN rows}

Described ==
  /\ phaseBar = [f \in Tokens |-> phaseBar[f]]
  /\ usableBar = [f \in Tokens |-> usableBar[f]]
  /\ \A f \in Tokens : phaseBar[f] =
       IF f \notin Families THEN "none" ELSE IF LiveTokens(f) # {} THEN "open"
       ELSE IF Rotating(f) THEN "rotating" ELSE "closed"
  /\ \A f \in Tokens : LiveTokens(f) = {} => usableBar[f] = 0
  /\ \A f \in Tokens : \A t \in LiveTokens(f) : usableBar[f] = t

LEMMA MappingDescribed == OneHeirPerFamily => Described
<1> SUFFICES ASSUME OneHeirPerFamily PROVE Described
  OBVIOUS
<1>1. phaseBar = [f \in Tokens |-> phaseBar[f]] /\ usableBar = [f \in Tokens |-> usableBar[f]]
  BY DEF phaseBar, usableBar
<1>2. \A f \in Tokens : phaseBar[f] =
        IF f \notin Families THEN "none" ELSE IF LiveTokens(f) # {} THEN "open"
        ELSE IF Rotating(f) THEN "rotating" ELSE "closed"
  BY DEF phaseBar, Families
<1>3. ASSUME NEW f \in Tokens
      PROVE  /\ LiveTokens(f) = {} => usableBar[f] = 0
             /\ \A t \in LiveTokens(f) : usableBar[f] = t
  <2>1. usableBar[f] = IF LiveTokens(f) = {} THEN 0 ELSE CHOOSE t \in LiveTokens(f) : TRUE
    BY DEF usableBar
  <2>2. LiveTokens(f) # {} => (CHOOSE t \in LiveTokens(f) : TRUE) \in LiveTokens(f)
    OBVIOUS
  <2>3. \A t, v \in LiveTokens(f) : t = v
    BY DEF OneHeirPerFamily
  <2>4. QED
    BY <2>1, <2>2, <2>3
<1>4. QED
  BY <1>1, <1>2, <1>3 DEF Described

(* A family with a live row or a rotation has a row.                        *)
LEMMA ActiveFamilies ==
  ASSUME TypeOK, NEW f \in Tokens, LiveTokens(f) # {} \/ Rotating(f)
  PROVE  f \in Families
<1>1. CASE LiveTokens(f) # {}
  BY <1>1 DEF LiveTokens, Families
<1>2. CASE Rotating(f)
  BY <1>2, TokInDomain DEF Rotating, Claims, Families
<1>3. QED
  BY <1>1, <1>2

(* A step that narrows closes the sessions that lose their token or their   *)
(* rotation, and does nothing to the others.                                *)
LEMMA NarrowingCloses ==
  ASSUME TypeOK, OneHeirPerFamily, Described, Described', SameNames, Len(rows') = Len(rows),
         \A f \in Tokens : LiveTokens(f)' \subseteq LiveTokens(f),
         \A f \in Tokens, r \in Requests : Claims(r, f)' => Claims(r, f)
  PROVE  S!Next
<1> DEFINE F == {f \in Tokens : /\ LiveTokens(f) # {} \/ Rotating(f)
                               /\ LiveTokens(f)' = {} /\ ~Rotating(f)'}
<1>1. Families' = Families
  BY DEF Families, SameNames
<1>2. ASSUME NEW f \in Tokens PROVE Rotating(f)' => Rotating(f)
  BY DEF Rotating
<1>3. ASSUME NEW f \in Tokens PROVE Rotating(f) => LiveTokens(f) = {}
  BY DEF OneHeirPerFamily
<1>4. ASSUME NEW f \in Tokens, f \in F
      PROVE  phaseBar[f] \in {"open", "rotating"} /\ phaseBar'[f] = "closed" /\ usableBar'[f] = 0
  <2>1. f \in Families
    BY <1>4, ActiveFamilies
  <2>2. QED
    BY <1>1, <1>4, <2>1 DEF Described
<1>5. ASSUME NEW f \in Tokens, f \notin F
      PROVE  phaseBar'[f] = phaseBar[f] /\ usableBar'[f] = usableBar[f]
  <2>1. /\ (LiveTokens(f)' = {}) <=> (LiveTokens(f) = {})
        /\ Rotating(f)' <=> Rotating(f)
    BY <1>2, <1>3, <1>5
  <2>2. phaseBar'[f] = phaseBar[f]
    BY <1>1, <2>1 DEF Described
  <2>3. CASE LiveTokens(f) = {}
    BY <2>1, <2>2, <2>3 DEF Described
  <2>4. CASE LiveTokens(f) # {}
    <3>1. PICK t \in LiveTokens(f)' : t \in LiveTokens(f)
      BY <2>1, <2>4
    <3>2. QED
      BY <2>2, <3>1 DEF Described
  <2>5. QED
    BY <2>2, <2>3, <2>4
<1> HIDE DEF F
<1>6. phaseBar' = [f \in Tokens |-> IF f \in F THEN "closed" ELSE phaseBar[f]]
  BY <1>4, <1>5 DEF Described
<1>7. usableBar' = [f \in Tokens |-> IF f \in F THEN 0 ELSE usableBar[f]]
  BY <1>4, <1>5 DEF Described
<1>8. F \in SUBSET Tokens
  BY DEF F
<1>9. S!Close(F)
  BY <1>4, <1>6, <1>7, <1>8 DEF S!Close, S!Numbers, Tokens
<1>10. QED
  BY <1>8, <1>9 DEF S!Next, S!Numbers, Tokens

(* The steps that do more: a login, a claim and its INSERT.                 *)
LEMMA OpenOpens ==
  ASSUME IInv, Described, Described', NEW u \in Users, Open(u)
  PROVE  S!Next
<1> DEFINE g == Len(rows) + 1
<1> USE DEF IInv
<1>1. g \in Tokens /\ Insert(u, g) /\ g \notin DOMAIN rows /\ Len(rows) < MaxTokens
  <2>1. g \notin DOMAIN rows
    BY RowFacts
  <2>2. QED
    BY <2>1, RowFacts, MaxTokensTyped DEF Open, Insert, Tokens
<1>2. \A t \in DOMAIN rows : rows[t].family # g
  BY RowFacts DEF FamilyHasOneOwner, Row, Tokens
<1>3. LiveTokens(g) = {}
  BY <1>2 DEF LiveTokens
<1>4. /\ \A f \in Tokens : LiveTokens(f)' = LiveTokens(f) \cup (IF f = g THEN {g} ELSE {})
      /\ \A r \in Requests, f \in Tokens : Claims(r, f)' <=> Claims(r, f)
  BY <1>1, InsertViews DEF Open
<1>5. Families' = Families \cup {g} /\ Len(rows') = g
  <2>1. /\ DOMAIN rows' = DOMAIN rows \cup {g} /\ Len(rows') = g
        /\ rows'[g] = [user |-> u, family |-> g, state |-> "live"]
        /\ \A t \in DOMAIN rows : rows'[t] = rows[t]
    BY <1>1, InsertFacts
  <2> HIDE DEF g
  <2>2. QED
    BY <2>1 DEF Families
<1> HIDE DEF g
<1>6. phaseBar'[g] = "open" /\ usableBar'[g] = g
  BY <1>1, <1>3, <1>4, <1>5 DEF Described
<1>7. ASSUME NEW f \in Tokens, f # g
      PROVE  phaseBar'[f] = phaseBar[f] /\ usableBar'[f] = usableBar[f]
  <2>1. LiveTokens(f)' = LiveTokens(f) /\ (Rotating(f)' <=> Rotating(f))
    BY <1>4, <1>7 DEF Rotating
  <2>2. phaseBar'[f] = phaseBar[f]
    BY <1>5, <1>7, <2>1 DEF Described
  <2>3. usableBar'[f] = usableBar[f]
    BY <2>1 DEF Described
  <2>4. QED
    BY <2>2, <2>3
<1>8. phaseBar' = [phaseBar EXCEPT ![g] = "open"] /\ usableBar' = [usableBar EXCEPT ![g] = g]
  BY <1>6, <1>7 DEF Described
<1>9. S!Open
  BY <1>1, <1>5, <1>8 DEF S!Open, S!Mint, g
<1>10. QED
  BY <1>9 DEF S!Next

(* Every family but g is seen as before.                                    *)
LEMMA OthersSeenAlike ==
  ASSUME Described, Described', NEW f \in Tokens, Families' = Families,
         LiveTokens(f)' = LiveTokens(f), Rotating(f)' <=> Rotating(f)
  PROVE  phaseBar'[f] = phaseBar[f] /\ usableBar'[f] = usableBar[f]
<1>1. phaseBar'[f] = phaseBar[f]
  BY DEF Described
<1>2. usableBar'[f] = usableBar[f]
  BY DEF Described
<1>3. QED
  BY <1>1, <1>2

LEMMA RefreshClaims ==
  ASSUME IInv, Described, Described', NEW r \in Requests, NEW t \in Tokens, Refresh(r, t),
         Live(t), t \notin expired
  PROVE  S!Next
<1> USE DEF IInv
<1>0. t \in DOMAIN rows /\ t # 0 /\ rows[t].family \in Tokens
  BY RowFacts DEF Refresh, Tokens, Row
<1>1. PICK g \in Tokens : g = rows[t].family /\ t \in DOMAIN rows /\ t # 0
  BY <1>0
<1>2. /\ rows' = Mark({t}, "revoked")
      /\ pc' = [pc EXCEPT ![r] = "issue"] /\ tok' = [tok EXCEPT ![r] = t]
      /\ pc[r] = "idle"
  BY DEF Refresh, AfterClaim, Goto
<1>3. /\ pc'[r] = "issue" /\ tok'[r] = t
      /\ \A q \in Requests \ {r} : pc'[q] = pc[q] /\ tok'[q] = tok[q]
  BY <1>1, <1>2, MoveFacts DEF PCs
<1>4. SameNames /\ (\A f \in Tokens : LiveTokens(f)' = LiveTokens(f) \ {t})
      /\ Len(rows') = Len(rows)
  BY <1>2, MarkNarrows, MarkFacts DEF States
<1>5. Claims(r, g)' /\ ~Claims(r, g)
  BY <1>1, <1>2, <1>3, <1>4 DEF Claims, SameNames
<1>6. \A f \in Tokens \ {g} : (Rotating(f)' <=> Rotating(f)) /\ LiveTokens(f)' = LiveTokens(f)
  <2> SUFFICES ASSUME NEW f \in Tokens \ {g}
               PROVE  (Rotating(f)' <=> Rotating(f)) /\ LiveTokens(f)' = LiveTokens(f)
    OBVIOUS
  <2>1. \A q \in Requests \ {r} : Claims(q, f)' <=> Claims(q, f)
    BY <1>3, <1>4, ClaimsStay
  <2>2. ~Claims(r, f)' /\ ~Claims(r, f)
    BY <1>1, <1>2, <1>3, <1>4 DEF Claims, SameNames
  <2>3. t \notin LiveTokens(f)
    BY <1>1 DEF LiveTokens
  <2>4. QED
    BY <1>4, <2>1, <2>2, <2>3 DEF Rotating
<1>7. t \in LiveTokens(g) /\ LiveTokens(g)' = {} /\ Rotating(g)' /\ g \in Families
  <2>1. t \in LiveTokens(g)
    BY <1>1 DEF LiveTokens
  <2>2. LiveTokens(g)' = {}
    BY <1>1, <1>4, <2>1 DEF OneHeirPerFamily
  <2>3. QED
    BY <1>1, <1>5, <2>1, <2>2 DEF Rotating, Families
<1>8. Families' = Families
  BY <1>4 DEF Families, SameNames
<1>9. phaseBar[g] = "open" /\ phaseBar'[g] = "rotating" /\ usableBar'[g] = 0
  BY <1>1, <1>7, <1>8 DEF Described
<1>10. \A f \in Tokens \ {g} : phaseBar'[f] = phaseBar[f] /\ usableBar'[f] = usableBar[f]
  BY <1>6, <1>8, OthersSeenAlike
<1>11. /\ phaseBar' = [phaseBar EXCEPT ![g] = "rotating"]
       /\ usableBar' = [usableBar EXCEPT ![g] = 0]
  BY <1>9, <1>10 DEF Described
<1>12. S!Claim(g)
  BY <1>4, <1>9, <1>11 DEF S!Claim
<1>13. QED
  BY <1>1, <1>12 DEF S!Next, S!Numbers, Tokens

LEMMA IssueRenews ==
  ASSUME IInv, Described, Described', NEW r \in Requests, Issue(r)
  PROVE  S!Next
<1> DEFINE g == rows[tok[r]].family
           n == Len(rows) + 1
<1> USE DEF IInv
<1>1. /\ tok[r] \in DOMAIN rows /\ g \in Tokens /\ rows[tok[r]].user \in Users
      /\ Insert(rows[tok[r]].user, g) /\ Claims(r, g)
  BY TokInDomain DEF Issue, Claims
<1>2. /\ pc'[r] = "idle"
      /\ \A q \in Requests \ {r} : pc'[q] = pc[q] /\ tok'[q] = tok[q]
  BY MoveFacts DEF Issue, Done, Goto, PCs
<1>3. \A f \in Tokens : LiveTokens(f)' = LiveTokens(f) \cup (IF f = g THEN {n} ELSE {})
  BY <1>1, InsertViews
<1>4. \A f \in Tokens \ {g} : Rotating(f)' <=> Rotating(f)
  <2> SUFFICES ASSUME NEW f \in Tokens \ {g} PROVE Rotating(f)' <=> Rotating(f)
    OBVIOUS
  <2>1. \A q \in Requests \ {r} : Claims(q, f)' <=> Claims(q, f)
    BY <1>1, <1>2, InsertViews
  <2>2. ~Claims(r, f)' /\ ~Claims(r, f)
    BY <1>2 DEF Claims
  <2>3. QED
    BY <2>1, <2>2 DEF Rotating
<1>5. LiveTokens(g) = {} /\ Rotating(g) /\ g \in Families
  BY <1>1 DEF OneHeirPerFamily, Rotating, Families
<1>6. Families' = Families /\ Len(rows') = n /\ Len(rows) < MaxTokens
  <2>1. /\ DOMAIN rows' = DOMAIN rows \cup {n} /\ rows'[n].family = g
        /\ \A t \in DOMAIN rows : rows'[t] = rows[t]
        /\ Len(rows') = n /\ Len(rows) < MaxTokens
    BY <1>1, InsertFacts DEF Insert
  <2> HIDE DEF n, g
  <2>2. QED
    BY <1>5, <2>1 DEF Families
<1> HIDE DEF g, n
<1>7. phaseBar[g] = "rotating" /\ phaseBar'[g] = "open" /\ usableBar'[g] = n
  BY <1>1, <1>3, <1>5, <1>6 DEF Described
<1>8. \A f \in Tokens \ {g} : phaseBar'[f] = phaseBar[f] /\ usableBar'[f] = usableBar[f]
  BY <1>3, <1>4, <1>6, OthersSeenAlike
<1>9. /\ phaseBar' = [phaseBar EXCEPT ![g] = "open"]
      /\ usableBar' = [usableBar EXCEPT ![g] = n]
  BY <1>7, <1>8 DEF Described
<1>10. S!Renew(g)
  BY <1>6, <1>7, <1>9 DEF S!Renew, S!Mint, n
<1>11. QED
  BY <1>1, <1>10 DEF S!Next, S!Numbers, Tokens

(* All others only narrow.                                                  *)
Narrowed ==
  /\ SameNames /\ Len(rows') = Len(rows)
  /\ \A f \in Tokens : LiveTokens(f)' \subseteq LiveTokens(f)
  /\ \A f \in Tokens, r \in Requests : Claims(r, f)' => Claims(r, f)

LEMMA MarkingNarrows ==
  ASSUME TypeOK, NEW T, NEW state \in {"revoked", "pruned"}, rows' = Mark(T, state),
         \A q \in Requests : \/ pc'[q] = pc[q] /\ tok'[q] = tok[q]
                             \/ pc'[q] # "issue"
  PROVE  Narrowed
<1>1. SameNames /\ (\A f \in Tokens : LiveTokens(f)' = LiveTokens(f) \ T)
      /\ Len(rows') = Len(rows)
  BY MarkNarrows, MarkFacts DEF States
<1>2. QED
  BY <1>1, ClaimsNarrow DEF Narrowed

LEMMA WaitingNarrows ==
  ASSUME TypeOK, UNCHANGED rows,
         \A q \in Requests : \/ pc'[q] = pc[q] /\ tok'[q] = tok[q]
                             \/ pc'[q] # "issue"
  PROVE  Narrowed
<1>1. SameNames /\ \A f \in Tokens : LiveTokens(f)' = LiveTokens(f)
  BY DEF SameNames, LiveTokens, Live
<1>2. QED
  BY <1>1, ClaimsNarrow DEF Narrowed

LEMMA StepsNarrow ==
  ASSUME IInv,
         \/ \E r \in Requests : Lookup(r) \/ Kill(r) \/ CutOff(r)
         \/ \E r \in Requests, t \in Tokens : Refresh(r, t) /\ ~(Live(t) /\ t \notin expired)
         \/ \E u \in Users : EndAll(u)
         \/ \E t \in DOMAIN rows : RevokeOne(t) \/ Expire(t)
         \/ Prune \/ Crash \/ UNCHANGED vars
  PROVE  Narrowed
<1>1. TypeOK /\ pc \in [Requests -> PCs]
  BY DEF IInv, TypeOK, PCs
<1>2. ASSUME NEW r \in Requests, Lookup(r) PROVE Narrowed
  <2>1. UNCHANGED rows /\ \A q \in Requests : \/ pc'[q] = pc[q] /\ tok'[q] = tok[q]
                                             \/ pc'[q] # "issue"
    BY <1>1, <1>2 DEF Lookup, Done, Goto, TypeOK
  <2>2. QED
    BY <1>1, <2>1, WaitingNarrows
<1>3. ASSUME NEW r \in Requests, Kill(r) PROVE Narrowed
  <2>1. \A q \in Requests : \/ pc'[q] = pc[q] /\ tok'[q] = tok[q]
                            \/ pc'[q] # "issue"
    BY <1>1, <1>3 DEF Kill, Done, Goto, TypeOK
  <2>2. QED
    BY <1>1, <1>3, <2>1, MarkingNarrows DEF Kill, End
<1>4. ASSUME NEW r \in Requests, NEW t \in Tokens, Refresh(r, t), ~(Live(t) /\ t \notin expired)
      PROVE  Narrowed
  <2>1. \A q \in Requests : \/ pc'[q] = pc[q] /\ tok'[q] = tok[q]
                            \/ pc'[q] # "issue"
    BY <1>1, <1>4 DEF Refresh, AfterClaim, NotClaimed, Goto, TypeOK
  <2>2. UNCHANGED rows \/ rows' = Mark({t}, "revoked")
    BY <1>4 DEF Refresh, NotClaimed
  <2>3. QED
    BY <1>1, <2>1, <2>2, WaitingNarrows, MarkingNarrows
<1>5. CASE \E u \in Users : EndAll(u)
  BY <1>1, <1>5, MarkingNarrows DEF EndAll, End
<1>6. CASE \E t \in DOMAIN rows : RevokeOne(t)
  BY <1>1, <1>6, MarkingNarrows DEF RevokeOne
<1>7. CASE Prune
  BY <1>1, <1>7, MarkingNarrows DEF Prune
<1>8. CASE (\E t \in DOMAIN rows : Expire(t)) \/ Crash \/ UNCHANGED vars
  <2>1. UNCHANGED rows /\ \A q \in Requests : \/ pc'[q] = pc[q] /\ tok'[q] = tok[q]
                                             \/ pc'[q] # "issue"
    BY <1>8 DEF Expire, Crash, vars
  <2>2. QED
    BY <1>1, <2>1, WaitingNarrows
<1>9. ASSUME NEW r \in Requests, CutOff(r) PROVE Narrowed
  <2>1. UNCHANGED rows /\ \A q \in Requests : \/ pc'[q] = pc[q] /\ tok'[q] = tok[q]
                                             \/ pc'[q] # "issue"
    BY <1>1, <1>9 DEF CutOff, Done, Goto, TypeOK
  <2>2. QED
    BY <1>1, <2>1, WaitingNarrows
<1>10. QED
  BY <1>2, <1>3, <1>4, <1>5, <1>6, <1>7, <1>8, <1>9

LEMMA StepRefines == IInv /\ IInv' /\ Described /\ Described' /\ [Next]_vars => S!Next
<1> SUFFICES ASSUME IInv, IInv', Described, Described', [Next]_vars PROVE S!Next
  OBVIOUS
<1>1. CASE \E u \in Users : Open(u)
  BY <1>1, OpenOpens
<1>2. CASE \E r \in Requests : Issue(r)
  BY <1>2, IssueRenews
<1>3. CASE \E r \in Requests, t \in Tokens : Refresh(r, t) /\ Live(t) /\ t \notin expired
  BY <1>3, RefreshClaims
<1>4. CASE Narrowed
  BY <1>4, NarrowingCloses DEF Narrowed, IInv
<1>5. QED
  BY <1>1, <1>2, <1>3, <1>4, StepsNarrow DEF Next, Handler

LEMMA InitRefines == Init => S!Init
<1> SUFFICES ASSUME Init PROVE S!Init
  OBVIOUS
<1>1. rows = <<>> /\ DOMAIN rows = {} /\ Len(rows) = 0
  BY DEF Init
<1>2. Families = {} /\ \A f \in Tokens : LiveTokens(f) = {}
  BY <1>1 DEF Families, LiveTokens
<1>3. phaseBar = [f \in Tokens |-> "none"] /\ usableBar = [f \in Tokens |-> 0]
  BY <1>2 DEF phaseBar, usableBar, Families
<1>4. QED
  BY <1>1, <1>3 DEF S!Init, S!Numbers, Tokens

(* Every login, claim, INSERT and revocation is a step of Sessions or no    *)
(* step: a closed session stays closed, and an open one has one usable      *)
(* token, whatever handlers race and wherever a crash cuts them off.        *)
THEOREM RotationImplementsSessions == Spec => ImplementsSessions
<1>1. IInv => Described
  BY MappingDescribed DEF IInv
<1>2. IInv /\ IInv' /\ [Next]_vars => [S!Next]_<<Len(rows), phaseBar, usableBar>>
  <2>1. IInv' => Described'
    BY <1>1, PTL
  <2>2. QED
    BY <1>1, <2>1, StepRefines
<1>3. QED
  BY <1>2, InitRefines, Invariance, PTL DEF Spec, ImplementsSessions, S!Spec
=============================================================================
