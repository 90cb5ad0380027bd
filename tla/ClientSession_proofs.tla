------------------------- MODULE ClientSession_proofs -------------------------
(***************************************************************************)
(* What the browser's side of a session gives for any users, tabs and       *)
(* calls, and any number of exchanges, tokens and mishaps.  The server's    *)
(* part of a step is a step of RefreshTokens, whose theorems are used here. *)
(***************************************************************************)
EXTENDS ClientSession, TLAPS

RP == INSTANCE RefreshTokens_proofs WITH Requests <- Exchanges

USE ClientBoundsTyped

(* The table of tokens, seen from here: no token expires or is deleted.     *)
Live(n) == rows[n].state = "live"
ServerInv ==
  /\ RP!IInv
  /\ expired = {}
  /\ \A n \in DOMAIN rows : rows[n].state # "pruned"

(* What is on the network names tokens that were issued.  A handler is busy *)
(* with the token of a pending refresh.                                     *)
Settling(x) ==
  /\ pc[x] # "idle" => Pending(x, "refresh") /\ net[x].carried = tok[x]
  /\ net[x].kind = "none" => net[x] = NoExchange
  /\ net[x].answer = "renewed" => net[x].kind = "refresh" /\ net[x].token # 0
NetTyped ==
  /\ net \in [Exchanges -> Exchange]
  /\ \A x \in Exchanges :
       net[x].carried <= Len(rows) /\ net[x].token <= Len(rows) /\ Settling(x)

TabsTyped ==
  /\ stale \subseteq DOMAIN rows /\ out \subseteq DOMAIN rows
  /\ jar \in 0 .. Len(rows)
  /\ access \in [Tabs -> 0 .. Len(rows)] /\ user \in [Tabs -> Users \cup {NoUser}]
  /\ restoring \subseteq Tabs
  /\ inFlight \in [Tabs -> 0 .. MaxExchanges]
  /\ call \in [Calls -> {"idle", "sent", "waiting", "retried"}]
  /\ bearer \in [Calls -> 0 .. Len(rows)]
  /\ excuse \subseteq {"lost", "refused", "overlap", "switched", "elsewhere"}

Shared ==
  /\ \A t \in Tabs : inFlight[t] # 0 =>
       net[inFlight[t]].kind = "refresh" /\ net[inFlight[t]].tab = t
  /\ \A c \in Calls : call[c] = "waiting" => inFlight[TabOf[c]] # 0

Typed == ServerInv /\ NetTyped /\ TabsTyped /\ Shared

-----------------------------------------------------------------------------
(* The table.                                                               *)

LEMMA RowsTyped ==
  ASSUME ServerInv
  PROVE  /\ Len(rows) \in Nat /\ Len(rows) <= MaxTokens
         /\ DOMAIN rows = 1 .. Len(rows)
         /\ \A n \in DOMAIN rows : /\ rows[n].user \in Users
                                   /\ rows[n].family \in DOMAIN rows
                                   /\ rows[n].family \in RP!Tokens
<1>1. RP!TypeOK /\ RP!FamilyHasOneOwner
  BY DEF ServerInv, RP!IInv
<1>2. /\ Len(rows) \in Nat /\ DOMAIN rows = 1 .. Len(rows)
      /\ \A n \in DOMAIN rows : rows[n] \in RP!Row
  BY <1>1, RP!RowFacts, RP!MaxTokensTyped
<1>3. Len(rows) <= MaxTokens
  BY <1>1 DEF RP!TypeOK
<1>4. ASSUME NEW n \in DOMAIN rows
      PROVE  rows[n].user \in Users /\ rows[n].family \in DOMAIN rows /\ rows[n].family \in RP!Tokens
  <2>1. rows[n].user \in Users /\ rows[n].family \in RP!Tokens /\ rows[n].family <= n
    BY <1>1, <1>2 DEF RP!Row, RP!FamilyHasOneOwner
  <2>2. QED
    BY <1>2, <2>1 DEF RP!Tokens
<1>5. QED
  BY <1>2, <1>3, <1>4

LEMMA PlacesTyped ==
  ASSUME ServerInv
  PROVE  /\ pc \in [Exchanges -> {"idle", "lookup", "kill", "issue"}]
         /\ tok \in [Exchanges -> {0} \cup DOMAIN rows]
         /\ \A x \in Exchanges : pc[x] = "idle" <=> tok[x] = 0
BY DEF ServerInv, RP!IInv, RP!TypeOK

(* A token of the network is one of the table.                              *)
LEMMA CarriedTyped ==
  ASSUME ServerInv, NetTyped, NEW x \in Exchanges
  PROVE  /\ net[x] \in Exchange
         /\ net[x].carried \in 0 .. Len(rows) /\ net[x].token \in 0 .. Len(rows)
         /\ net[x].carried # 0 => net[x].carried \in DOMAIN rows
         /\ net[x].token # 0 => net[x].token \in DOMAIN rows
<1>1. net[x] \in Exchange /\ net[x].carried <= Len(rows) /\ net[x].token <= Len(rows)
  BY DEF NetTyped
<1>2. QED
  BY <1>1, RowsTyped DEF Exchange, Numbers

-----------------------------------------------------------------------------
(* The server's part of each action.                                        *)

Place(x, label, n) == pc' = [pc EXCEPT ![x] = label] /\ tok' = [tok EXCEPT ![x] = n]

(* A refresh claims its token, misses it, finds its row, kills the family.  *)
Claims(x) ==
  /\ pc[x] = "idle" /\ Live(net[x].carried)
  /\ rows' = RP!Mark({net[x].carried}, "revoked")
  /\ Place(x, "issue", net[x].carried)
  /\ UNCHANGED net
Misses(x) ==
  /\ pc[x] = "idle" /\ ~Live(net[x].carried)
  /\ UNCHANGED rows
  /\ Place(x, "lookup", net[x].carried)
  /\ UNCHANGED net
Finds(x) ==
  /\ pc[x] = "lookup"
  /\ UNCHANGED rows
  /\ Place(x, "kill", net[x].carried)
  /\ UNCHANGED net
OfFamily(f) == {n \in DOMAIN rows : Live(n) /\ rows[n].family = f}
Kills(x) ==
  /\ pc[x] = "kill"
  /\ rows' = RP!Mark(OfFamily(rows[net[x].carried].family), "revoked")
  /\ Place(x, "idle", 0)
  /\ Answer(x, "ended", 0)

LEMMA RotationCases ==
  ASSUME ServerInv, NetTyped, NEW x \in Exchanges, RotationStep(x)
  PROVE  /\ net[x].carried \in DOMAIN rows /\ net[x].carried # 0
         /\ Claims(x) \/ Misses(x) \/ Finds(x) \/ Kills(x)
         /\ RP!Next
<1>0. net[x].carried \in DOMAIN rows /\ net[x].carried # 0 /\ net[x].carried \in RP!Tokens
  BY CarriedTyped, RowsTyped DEF RotationStep, RP!Tokens
<1>1. /\ pc[x] # "idle" => net[x].carried = tok[x] /\ tok[x] # 0
      /\ pc \in [Exchanges -> {"idle", "lookup", "kill", "issue"}]
      /\ tok \in [Exchanges -> {0} \cup DOMAIN rows]
      /\ expired = {}
  BY PlacesTyped DEF NetTyped, Settling, ServerInv
<1>2. CASE R!Refresh(x, net[x].carried)
  <2>1. Claims(x) \/ Misses(x)
    BY <1>1, <1>2 DEF RotationStep, R!Refresh, R!AfterClaim, R!NotClaimed, R!Goto, R!Live, R!Mark,
       RP!Mark, Live, Claims, Misses, Place
  <2>2. RP!Refresh(x, net[x].carried)
    BY <1>2 DEF R!Refresh, R!AfterClaim, R!NotClaimed, R!Goto, R!Live, R!Mark,
       RP!Refresh, RP!AfterClaim, RP!NotClaimed, RP!Goto, RP!Live, RP!Mark
  <2>3. QED
    BY <1>0, <2>1, <2>2 DEF RP!Next, RP!Handler
<1>3. CASE R!Lookup(x)
  <2>1. tok[x] = net[x].carried /\ tok[x] \in DOMAIN rows /\ rows[tok[x]].state # "pruned"
    BY <1>0, <1>1, <1>3 DEF R!Lookup, ServerInv
  <2>2. pc' = [pc EXCEPT ![x] = "kill"] /\ UNCHANGED <<rows, tok>> /\ pc[x] = "lookup"
    BY <1>3, <2>1 DEF R!Lookup, R!Goto
  <2>3. Finds(x)
    BY <1>1, <2>1, <2>2 DEF RotationStep, Finds, Place
  <2>4. RP!Lookup(x)
    BY <1>3 DEF R!Lookup, R!Goto, R!Done, RP!Lookup, RP!Goto, RP!Done
  <2>5. QED
    BY <1>0, <2>3, <2>4 DEF RP!Next, RP!Handler
<1>4. CASE R!Kill(x)
  <2>1. tok[x] = net[x].carried
    BY <1>1, <1>4 DEF R!Kill
  <2>2. /\ rows' = RP!Mark(OfFamily(rows[net[x].carried].family), "revoked")
        /\ Place(x, "idle", 0) /\ pc[x] = "kill"
    BY <1>4, <2>1 DEF R!Kill, R!End, R!Done, R!Goto, R!Mark, R!Live, RP!Mark, OfFamily, Live, Place
  <2>3. Kills(x)
    BY <1>1, <2>2 DEF RotationStep, Kills, Place
  <2>4. RP!Kill(x)
    BY <1>4 DEF R!Kill, R!End, R!Done, R!Goto, R!Mark, R!Live, R!Rotating, R!Claims, R!Tokens,
       RP!Kill, RP!End, RP!Done, RP!Goto, RP!Mark, RP!Live, RP!Rotating, RP!Claims, RP!Tokens
  <2>5. QED
    BY <1>0, <2>3, <2>4 DEF RP!Next, RP!Handler
<1>5. QED
  BY <1>2, <1>3, <1>4 DEF RotationStep

LEMMA FailureCases ==
  ASSUME ServerInv, NetTyped, NEW x \in Exchanges, RotationFails(x)
  PROVE  /\ UNCHANGED rows
         /\ Place(x, "idle", 0)
         /\ Answer(x, "ended", 0)
         /\ RP!Next
<1>1. RP!CutOff(x)
  BY DEF RotationFails, R!CutOff, R!Done, R!Goto, RP!CutOff, RP!Done, RP!Goto
<1>2. QED
  BY <1>1 DEF RotationFails, R!CutOff, R!Done, R!Goto, Place, RP!Next, RP!Handler

LEMMA SuccessCases ==
  ASSUME ServerInv, NetTyped, NEW x \in Exchanges, RotationDone(x)
  PROVE  /\ net[x].carried \in DOMAIN rows /\ net[x].carried # 0
         /\ pc[x] = "issue"
         /\ RP!Insert(rows[net[x].carried].user, rows[net[x].carried].family)
         /\ Place(x, "idle", 0)
         /\ RP!Next
<1>1. pc[x] = "issue" /\ tok[x] = net[x].carried /\ tok[x] \in DOMAIN rows /\ tok[x] # 0
  BY PlacesTyped, RowsTyped DEF RotationDone, R!Issue, NetTyped, Settling
<1>2. RP!Issue(x)
  BY DEF RotationDone, R!Issue, R!Insert, R!Done, R!Goto, RP!Issue, RP!Insert, RP!Done, RP!Goto
<1>3. RP!Next
  BY <1>2 DEF RP!Next, RP!Handler
<1>4. QED
  BY <1>1, <1>3 DEF RotationDone, R!Issue, R!Insert, R!Done, R!Goto, RP!Insert, Place

LEMMA LogoutCases ==
  ASSUME ServerInv, NetTyped, NEW x \in Exchanges, Logout(x)
  PROVE  \/ /\ net[x].carried \in DOMAIN rows /\ Live(net[x].carried)
            /\ rows' = RP!Mark({net[x].carried}, "revoked")
            /\ UNCHANGED <<pc, tok>>
            /\ RP!Next
         \/ /\ net[x].carried # 0 => ~Live(net[x].carried)
            /\ UNCHANGED serverVars
<1>1. CASE net[x].carried # 0 /\ R!Live(net[x].carried)
  <2>1. net[x].carried \in DOMAIN rows
    BY <1>1, CarriedTyped
  <2>2. RP!RevokeOne(net[x].carried)
    BY <1>1 DEF Logout, R!RevokeOne, R!Live, R!Mark, RP!RevokeOne, RP!Live, RP!Mark
  <2>3. RP!Next
    BY <2>1, <2>2 DEF RP!Next
  <2>4. QED
    BY <2>1, <2>2, <2>3 DEF RP!RevokeOne, RP!Live, Live
<1>2. CASE ~(net[x].carried # 0 /\ R!Live(net[x].carried))
  BY <1>2 DEF Logout, R!Live, Live
<1>3. QED
  BY <1>1, <1>2

LEMMA LoginCases ==
  ASSUME ServerInv, NEW t \in Tabs, NEW u \in Users, Login(t, u)
  PROVE  RP!Insert(u, Len(rows) + 1) /\ UNCHANGED <<pc, tok>> /\ RP!Next
<1>1. RP!Open(u)
  BY DEF Login, R!Open, R!Insert, RP!Open, RP!Insert
<1>2. QED
  BY <1>1 DEF RP!Open, RP!Next

LEMMA ElsewhereCases ==
  ASSUME ServerInv, EndedElsewhere
  PROVE  /\ \E T : rows' = RP!Mark(T, "revoked")
         /\ UNCHANGED <<pc, tok>>
         /\ RP!Next
<1>1. CASE \E t \in DOMAIN rows : R!RevokeOne(t)
  <2>1. PICK t \in DOMAIN rows : R!RevokeOne(t)
    BY <1>1
  <2>2. RP!RevokeOne(t)
    BY <2>1 DEF R!RevokeOne, R!Live, R!Mark, RP!RevokeOne, RP!Live, RP!Mark
  <2>3. QED
    BY <2>2 DEF RP!RevokeOne, RP!Next
<1>2. CASE \E u \in Users : R!EndAll(u)
  <2>1. PICK u \in Users : R!EndAll(u)
    BY <1>2
  <2>2. RP!EndAll(u)
    BY <2>1 DEF R!EndAll, R!End, R!Live, R!Mark, R!Rotating, R!Claims, R!Tokens,
       RP!EndAll, RP!End, RP!Live, RP!Mark, RP!Rotating, RP!Claims, RP!Tokens
  <2>3. (\E T : rows' = RP!Mark(T, "revoked")) /\ UNCHANGED <<pc, tok>>
    BY <2>2 DEF RP!EndAll, RP!End
  <2>4. QED
    BY <2>2, <2>3 DEF RP!Next
<1>3. QED
  BY <1>1, <1>2 DEF EndedElsewhere

-----------------------------------------------------------------------------
(* What a step of the server leaves as it was.                              *)

(* Rows stay, with their user and family.                                   *)
KeepsNames ==
  /\ Len(rows') \in Nat /\ Len(rows) <= Len(rows')
  /\ DOMAIN rows \subseteq DOMAIN rows'
  /\ \A n \in DOMAIN rows : rows'[n].user = rows[n].user /\ rows'[n].family = rows[n].family
NonePruned == \A n \in DOMAIN rows : rows[n].state # "pruned"

LEMMA MarkView ==
  ASSUME ServerInv, NEW T, rows' = RP!Mark(T, "revoked")
  PROVE  /\ KeepsNames /\ NonePruned' /\ Len(rows') = Len(rows)
         /\ \A n \in DOMAIN rows : Live(n)' <=> Live(n) /\ n \notin T
<1>1. RP!TypeOK
  BY DEF ServerInv, RP!IInv
<1>2. /\ Len(rows') = Len(rows) /\ DOMAIN rows' = DOMAIN rows
      /\ \A n \in DOMAIN rows :
           /\ rows'[n].user = rows[n].user
           /\ rows'[n].family = rows[n].family
           /\ rows'[n].state = IF n \in T THEN "revoked" ELSE rows[n].state
  BY <1>1, RP!MarkFacts, RP!MaxTokensTyped DEF RP!States
<1>3. QED
  BY <1>2, RowsTyped DEF KeepsNames, NonePruned, Live, ServerInv

LEMMA InsertView ==
  ASSUME ServerInv, NEW u \in Users, NEW f \in RP!Tokens, RP!Insert(u, f)
  PROVE  /\ KeepsNames /\ NonePruned'
         /\ Len(rows') = Len(rows) + 1 /\ Len(rows') \in DOMAIN rows' /\ Len(rows') \notin DOMAIN rows
         /\ \A n \in DOMAIN rows : Live(n)' <=> Live(n)
         /\ rows'[Len(rows')].state = "live"
         /\ rows'[Len(rows')].user = u /\ rows'[Len(rows')].family = f
<1>1. RP!TypeOK
  BY DEF ServerInv, RP!IInv
<1>2. /\ Len(rows') = Len(rows) + 1
      /\ DOMAIN rows' = DOMAIN rows \cup {Len(rows) + 1}
      /\ \A n \in DOMAIN rows : rows'[n] = rows[n]
      /\ rows'[Len(rows) + 1] = [user |-> u, family |-> f, state |-> "live"]
  BY <1>1, RP!InsertFacts, RP!MaxTokensTyped
<1>3. Len(rows) \in Nat /\ DOMAIN rows = 1 .. Len(rows)
  BY RowsTyped
<1>4. KeepsNames /\ NonePruned' /\ \A n \in DOMAIN rows : Live(n)' <=> Live(n)
  BY <1>2, <1>3 DEF KeepsNames, NonePruned, Live, ServerInv
<1>5. Len(rows') \in DOMAIN rows' /\ Len(rows') \notin DOMAIN rows
  BY <1>2, <1>3
<1>6. rows'[Len(rows')] = [user |-> u, family |-> f, state |-> "live"]
  BY <1>2
<1>7. QED
  BY <1>2, <1>4, <1>5, <1>6 DEF Live

LEMMA SameView ==
  ASSUME ServerInv, UNCHANGED rows
  PROVE  KeepsNames /\ NonePruned' /\ Len(rows') = Len(rows) /\ \A n : Live(n)' <=> Live(n)
BY RowsTyped DEF KeepsNames, NonePruned, Live, ServerInv

(* A session is over when no token of it is live and no rotation could make *)
(* one.                                                                     *)
Over(f) ==
  /\ \A n \in DOMAIN rows : rows[n].family = f => ~Live(n)
  /\ \A x \in Exchanges : pc[x] = "issue" => rows[tok[x]].family # f

LEMMA OverMeans ==
  ASSUME NEW f
  PROVE  /\ Over(f) <=> RP!LiveTokens(f) = {} /\ \A x \in Exchanges : ~RP!Claims(x, f)
         /\ Over(f)' <=> RP!LiveTokens(f)' = {} /\ \A x \in Exchanges : ~RP!Claims(x, f)'
BY DEF Over, Live, RP!LiveTokens, RP!Live, RP!Claims

(* A row inserted into one session shows in no other.                       *)
LEMMA InsertElsewhere ==
  ASSUME ServerInv, NEW u \in Users, NEW g \in RP!Tokens, RP!Insert(u, g),
         NEW f \in RP!Tokens, f # g
  PROVE  /\ RP!LiveTokens(f)' = RP!LiveTokens(f)
         /\ \A x \in Exchanges :
              pc'[x] = pc[x] /\ tok'[x] = tok[x] => (RP!Claims(x, f)' <=> RP!Claims(x, f))
<1>1. RP!TypeOK /\ RP!FamilyHasOneOwner
  BY DEF ServerInv, RP!IInv
<1>2. /\ RP!LiveTokens(f)' = RP!LiveTokens(f) \cup (IF f = g THEN {Len(rows) + 1} ELSE {})
      /\ \A x \in Exchanges :
           pc'[x] = pc[x] /\ tok'[x] = tok[x] => (RP!Claims(x, f)' <=> RP!Claims(x, f))
  BY <1>1, RP!InsertViews, RP!MaxTokensTyped
<1>3. QED
  BY <1>2

(* What is over stays over.                                                 *)
LEMMA OverStays ==
  ASSUME ServerInv, RP!Next \/ UNCHANGED serverVars,
         NEW f \in RP!Tokens, f \in DOMAIN rows, Over(f)
  PROVE  Over(f)'
<1>0. RP!IInv /\ RP!TypeOK /\ RP!FamilyHasOneOwner
  BY DEF ServerInv, RP!IInv
<1>1. CASE \E u \in Users : RP!Open(u)
  <2>1. PICK u \in Users : RP!Open(u)
    BY <1>1
  <2>2. Len(rows) + 1 \in RP!Tokens /\ f # Len(rows) + 1
    BY <2>1, RowsTyped DEF RP!Open, RP!Insert, RP!Tokens
  <2>3. RP!Insert(u, Len(rows) + 1) /\ UNCHANGED <<pc, tok>>
    BY <2>1 DEF RP!Open
  <2>4. /\ RP!LiveTokens(f)' = RP!LiveTokens(f)
        /\ \A x \in Exchanges : RP!Claims(x, f)' <=> RP!Claims(x, f)
    BY <2>2, <2>3, InsertElsewhere
  <2>5. QED
    BY <2>4, OverMeans
<1>2. CASE \E x \in Exchanges : RP!Issue(x)
  <2>1. PICK x \in Exchanges : RP!Issue(x)
    BY <1>2
  <2>2. PICK g \in RP!Tokens : g = rows[tok[x]].family /\ RP!Claims(x, g) /\ tok[x] \in DOMAIN rows
    BY <2>1, PlacesTyped, RowsTyped DEF RP!Issue, RP!Claims
  <2>3. f # g
    BY <2>2, OverMeans
  <2>4. PICK u \in Users : RP!Insert(u, g)
    BY <2>1, <2>2, RowsTyped DEF RP!Issue
  <2>5. /\ \A y \in Exchanges : y # x => pc'[y] = pc[y] /\ tok'[y] = tok[y]
        /\ pc'[x] = "idle"
    BY <2>1, PlacesTyped DEF RP!Issue, RP!Done, RP!Goto
  <2>6. /\ RP!LiveTokens(f)' = RP!LiveTokens(f)
        /\ \A y \in Exchanges : y # x => (RP!Claims(y, f)' <=> RP!Claims(y, f))
    BY <2>2, <2>3, <2>4, <2>5, InsertElsewhere
  <2>7. ~RP!Claims(x, f)'
    BY <2>5 DEF RP!Claims
  <2>8. QED
    BY <2>6, <2>7, OverMeans
<1>3. CASE \E x \in Exchanges, n \in RP!Tokens : RP!Refresh(x, n) /\ RP!Live(n) /\ n \notin expired
  <2>1. PICK x \in Exchanges, n \in RP!Tokens : RP!Refresh(x, n) /\ RP!Live(n) /\ n \notin expired
    BY <1>3
  <2>2. /\ rows' = RP!Mark({n}, "revoked") /\ n \in DOMAIN rows
        /\ pc' = [pc EXCEPT ![x] = "issue"] /\ tok' = [tok EXCEPT ![x] = n]
    BY <2>1 DEF RP!Refresh, RP!AfterClaim, RP!Goto
  <2>3. Live(n) /\ rows[n].family # f
    BY <2>1, <2>2 DEF Over, RP!Live, Live
  <2>4. KeepsNames /\ DOMAIN rows' = DOMAIN rows /\ \A m \in DOMAIN rows : Live(m)' => Live(m)
    BY <1>0, <2>2, MarkView, RP!MarkFacts, RP!MaxTokensTyped DEF RP!States
  <2>5. \A m \in DOMAIN rows' : rows'[m].family = f => ~Live(m)'
    BY <2>4 DEF Over, KeepsNames
  <2>6. ASSUME NEW y \in Exchanges, pc'[y] = "issue" PROVE rows'[tok'[y]].family # f
    <3>1. CASE y = x
      BY <2>2, <2>3, <2>4, <3>1, PlacesTyped DEF KeepsNames
    <3>2. CASE y # x
      <4>1. pc[y] = "issue" /\ tok'[y] = tok[y] /\ tok[y] \in DOMAIN rows
        BY <2>2, <2>6, <3>2, PlacesTyped
      <4>2. QED
        BY <2>4, <4>1 DEF Over, KeepsNames
    <3>3. QED
      BY <3>1, <3>2
  <2>7. QED
    BY <2>5, <2>6 DEF Over
<1>4. CASE RP!Narrowed
  BY <1>4, OverMeans DEF RP!Narrowed
<1>5. QED
  BY <1>0, <1>1, <1>2, <1>3, <1>4, RP!StepsNarrow, RP!MaxTokensTyped
     DEF RP!Next, RP!Handler, RP!vars, serverVars

(* A live token is the only one of its session: when it is revoked, the     *)
(* session is over.                                                         *)
LEMMA RevokedIsOver ==
  ASSUME ServerInv, NEW T, rows' = RP!Mark(T, "revoked"), NEW n \in DOMAIN rows, n \in T, Live(n),
         NEW f, f = rows[n].family,
         \A x \in Exchanges : \/ pc'[x] = pc[x] /\ tok'[x] = tok[x]
                              \/ pc'[x] # "issue"
  PROVE  Over(f)'
<1>1. f \in RP!Tokens /\ RP!OneHeirPerFamily /\ RP!TypeOK
  BY RowsTyped DEF ServerInv, RP!IInv
<1>2. n \in RP!LiveTokens(f)
  BY DEF RP!LiveTokens, RP!Live, Live
<1>3. (\A m \in RP!LiveTokens(f) : m = n) /\ \A x \in Exchanges : ~RP!Claims(x, f)
  BY <1>1, <1>2 DEF RP!OneHeirPerFamily, RP!Rotating
<1>4. /\ KeepsNames /\ DOMAIN rows' = DOMAIN rows
      /\ \A m \in DOMAIN rows : Live(m)' <=> Live(m) /\ m \notin T
  BY <1>1, MarkView, RP!MarkFacts, RP!MaxTokensTyped DEF RP!States
<1>5. \A m \in DOMAIN rows' : rows'[m].family = f => ~Live(m)'
  BY <1>3, <1>4 DEF KeepsNames, RP!LiveTokens, RP!Live, Live
<1>6. ASSUME NEW x \in Exchanges, pc'[x] = "issue" PROVE rows'[tok'[x]].family # f
  <2>1. pc[x] = "issue" /\ tok'[x] = tok[x] /\ tok[x] \in DOMAIN rows
    BY <1>6, PlacesTyped
  <2>2. QED
    BY <1>3, <1>4, <2>1 DEF RP!Claims, KeepsNames
<1>7. QED
  BY <1>5, <1>6 DEF Over

-----------------------------------------------------------------------------
(* Steps, by what they touch.                                               *)

OnlyCalls == UNCHANGED <<serverVars, jar, net, tabVars, out, excuse>>
Asks(c) == Rejected(c) /\ inFlight[TabOf[c]] = 0 /\ SendRefresh(TabOf[c])

LEMMA NextCases ==
  ASSUME [Next]_vars
  PROVE  \/ OnlyCalls
         \/ \E c \in Calls : Asks(c)
         \/ \E t \in Tabs : SignOut(t) \/ Mount(t)
         \/ \E t \in Tabs, u \in Users : Login(t, u)
         \/ \E x \in Exchanges : RefreshRefused(x) \/ LogoutFails(x)
         \/ \E x \in Exchanges : RotationStep(x)
         \/ \E x \in Exchanges : RotationFails(x)
         \/ \E x \in Exchanges : RotationDone(x)
         \/ \E x \in Exchanges : Logout(x)
         \/ \E x \in Exchanges : Deliver(x)
         \/ \E x \in Exchanges : ConnectionFails(x)
         \/ \E x \in Exchanges : Discard(x)
         \/ EndedElsewhere
<1>1. CASE UNCHANGED vars
  BY <1>1 DEF vars, OnlyCalls, tabVars
<1>2. CASE \E c \in Calls : Ask(c) \/ Accepted(c) \/ RejectedAgain(c) \/ CallFails(c)
  BY <1>2 DEF Ask, Accepted, RejectedAgain, CallFails, OnlyCalls
<1>3. CASE \E n \in Numbers : AccessExpires(n)
  BY <1>3 DEF AccessExpires, OnlyCalls
<1>4. CASE \E c \in Calls : Rejected(c)
  <2>1. PICK c \in Calls : Rejected(c)
    BY <1>4
  <2>2. CASE inFlight[TabOf[c]] # 0
    BY <2>1, <2>2 DEF Rejected, refreshOnce, OnlyCalls, tabVars
  <2>3. CASE inFlight[TabOf[c]] = 0
    BY <2>1, <2>3 DEF Rejected, refreshOnce, Asks
  <2>4. QED
    BY <2>2, <2>3
<1>5. QED
  BY <1>1, <1>2, <1>3, <1>4 DEF Next, ExchangeStep, CallStep, Serve

LEMMA ServerInvStep ==
  ASSUME ServerInv, RP!Next \/ UNCHANGED serverVars, UNCHANGED expired, NonePruned'
  PROVE  ServerInv'
<1>1. RP!IInv'
  BY RP!NextInv, RP!MaxTokensTyped DEF ServerInv, RP!vars, serverVars
<1>2. QED
  BY <1>1 DEF ServerInv, NonePruned

LEMMA ServerStep ==
  ASSUME ServerInv, NetTyped, [Next]_vars
  PROVE  ServerInv' /\ KeepsNames /\ (RP!Next \/ UNCHANGED serverVars)
<1>1. CASE UNCHANGED serverVars
  BY <1>1, SameView, ServerInvStep DEF serverVars
<1>2. ASSUME NEW x \in Exchanges, RotationStep(x)
      PROVE  KeepsNames /\ NonePruned' /\ RP!Next /\ UNCHANGED expired
  <2>1. Claims(x) \/ Misses(x) \/ Finds(x) \/ Kills(x)
    BY <1>2, RotationCases
  <2>2. KeepsNames /\ NonePruned'
    BY <2>1, MarkView, SameView DEF Claims, Misses, Finds, Kills
  <2>3. UNCHANGED expired
    BY <1>2 DEF RotationStep, R!Refresh, R!Lookup, R!Kill
  <2>4. QED
    BY <1>2, <2>2, <2>3, RotationCases
<1>3. ASSUME NEW x \in Exchanges, RotationFails(x)
      PROVE  KeepsNames /\ NonePruned' /\ RP!Next /\ UNCHANGED expired
  BY <1>3, FailureCases, SameView DEF RotationFails, R!CutOff
<1>4. ASSUME NEW x \in Exchanges, RotationDone(x)
      PROVE  KeepsNames /\ NonePruned' /\ RP!Next /\ UNCHANGED expired
  <2>1. PICK u \in Users, f \in RP!Tokens : RP!Insert(u, f)
    BY <1>4, SuccessCases, RowsTyped
  <2>2. QED
    BY <1>4, <2>1, SuccessCases, InsertView DEF RotationDone, R!Issue
<1>5. ASSUME NEW x \in Exchanges, Logout(x), ~UNCHANGED serverVars
      PROVE  KeepsNames /\ NonePruned' /\ RP!Next /\ UNCHANGED expired
  <2>1. rows' = RP!Mark({net[x].carried}, "revoked") /\ RP!Next
    BY <1>5, LogoutCases
  <2>2. QED
    BY <1>5, <2>1, MarkView DEF Logout, R!RevokeOne, serverVars
<1>6. ASSUME NEW t \in Tabs, NEW u \in Users, Login(t, u)
      PROVE  KeepsNames /\ NonePruned' /\ RP!Next /\ UNCHANGED expired
  <2>1. RP!Insert(u, Len(rows) + 1) /\ Len(rows) + 1 \in RP!Tokens
    BY <1>6, LoginCases, RowsTyped DEF RP!Insert, RP!Tokens
  <2>2. QED
    BY <1>6, <2>1, LoginCases, InsertView DEF Login, R!Open
<1>7. CASE EndedElsewhere
  <2>1. KeepsNames /\ NonePruned' /\ RP!Next
    BY <1>7, ElsewhereCases, MarkView
  <2>2. UNCHANGED expired
    BY <1>7 DEF EndedElsewhere, R!RevokeOne, R!EndAll
  <2>3. QED
    BY <2>1, <2>2, ServerInvStep
<1>8. QED
  BY <1>1, <1>2, <1>3, <1>4, <1>5, <1>6, <1>7, NextCases, ServerInvStep
     DEF OnlyCalls, Asks, Rejected, SignOut, Mount, RefreshRefused, LogoutFails, Deliver,
         ConnectionFails, Discard

-----------------------------------------------------------------------------
(* The network.                                                             *)

LEMMA FreeIsFree ==
  ASSUME Busy # Exchanges
  PROVE  Free \in Exchanges /\ Free \notin Busy
<1>1. \E x \in Exchanges \ Busy : TRUE
  BY DEF Busy
<1>2. QED
  BY <1>1 DEF Free

LEMMA OutgoingTyped ==
  ASSUME ServerInv, TabsTyped, NEW kind \in {"refresh", "logout"}, NEW t \in Tabs
  PROVE  Outgoing(kind, t) \in Exchange
<1>1. jar \in Numbers /\ 0 \in Numbers
  BY RowsTyped DEF TabsTyped, Numbers
<1>2. QED
  BY <1>1 DEF Exchange, Outgoing

(* Exchanges that stay as they are, over a table that grows.                *)
LEMMA NetKept ==
  ASSUME ServerInv, NetTyped, KeepsNames, NEW y \in Exchanges,
         net'[y] = net[y], pc'[y] = pc[y], tok'[y] = tok[y]
  PROVE  net'[y] \in Exchange /\ net'[y].carried <= Len(rows') /\ net'[y].token <= Len(rows')
         /\ Settling(y)'
<1>1. /\ net[y] \in Exchange
      /\ net[y].carried \in 0 .. Len(rows) /\ net[y].token \in 0 .. Len(rows)
      /\ Len(rows) \in Nat /\ Len(rows') \in Nat /\ Len(rows) <= Len(rows')
  BY CarriedTyped, RowsTyped DEF KeepsNames
<1>2. Settling(y)'
  BY DEF NetTyped, Settling, Pending
<1>3. QED
  BY <1>1, <1>2

LEMMA NetUnchanged ==
  ASSUME ServerInv, NetTyped, KeepsNames, UNCHANGED <<net, pc, tok>>
  PROVE  NetTyped'
BY NetKept DEF NetTyped

LEMMA NetOne ==
  ASSUME ServerInv, NetTyped, KeepsNames, NEW x \in Exchanges, NEW e \in Exchange,
         net' = [net EXCEPT ![x] = e],
         e.carried <= Len(rows'), e.token <= Len(rows'),
         pc'[x] # "idle" => e.kind = "refresh" /\ e.answer = "pending" /\ e.carried = tok'[x],
         e.kind = "none" => e = NoExchange,
         e.answer = "renewed" => e.kind = "refresh" /\ e.token # 0,
         \A y \in Exchanges : y # x => pc'[y] = pc[y] /\ tok'[y] = tok[y]
  PROVE  NetTyped'
<1>1. net \in [Exchanges -> Exchange]
  BY DEF NetTyped
<1>2. net'[x] = e /\ \A y \in Exchanges : y # x => net'[y] = net[y]
  BY <1>1
<1>3. \A y \in Exchanges : y # x =>
        net'[y].carried <= Len(rows') /\ net'[y].token <= Len(rows') /\ Settling(y)'
  BY <1>2, NetKept
<1>4. Settling(x)'
  BY <1>2 DEF Settling, Pending
<1>5. QED
  BY <1>1, <1>2, <1>3, <1>4 DEF NetTyped

(* An answer to a pending exchange.                                         *)
LEMMA AnswerFacts ==
  ASSUME NetTyped, NEW x \in Exchanges, NEW a \in {"renewed", "ended", "refused"},
         NEW n \in Numbers, Answer(x, a, n)
  PROVE  /\ net' = [net EXCEPT ![x] = [kind |-> net[x].kind, tab |-> net[x].tab,
                                       carried |-> net[x].carried, answer |-> a, token |-> n]]
         /\ [kind |-> net[x].kind, tab |-> net[x].tab, carried |-> net[x].carried,
             answer |-> a, token |-> n] \in Exchange
         /\ \A y \in Exchanges : y # x => net'[y] = net[y]
         /\ net'[x].kind = net[x].kind /\ net'[x].tab = net[x].tab
         /\ net'[x].carried = net[x].carried /\ net'[x].answer = a /\ net'[x].token = n
<1> DEFINE e == [kind |-> net[x].kind, tab |-> net[x].tab, carried |-> net[x].carried,
                 answer |-> a, token |-> n]
<1>1. net \in [Exchanges -> Exchange] /\ net[x] \in Exchange
  BY DEF NetTyped
<1>2. [[net[x] EXCEPT !.answer = a] EXCEPT !.token = n] = e
  <2> DEFINE d == [kind |-> net[x].kind, tab |-> net[x].tab, carried |-> net[x].carried,
                   answer |-> a, token |-> net[x].token]
  <2>1. [net[x] EXCEPT !.answer = a] = d
    BY <1>1 DEF Exchange
  <2>2. [d EXCEPT !.token = n] = e
    OBVIOUS
  <2>3. QED
    BY <2>1, <2>2
<1>3. e \in Exchange
  BY <1>1 DEF Exchange
<1>4. net' = [net EXCEPT ![x] = e]
  <2>1. net' = [[net EXCEPT ![x] = [net[x] EXCEPT !.answer = a]] EXCEPT ![x].token = n]
    BY <1>1 DEF Answer
  <2>2. [net EXCEPT ![x] = [net[x] EXCEPT !.answer = a]][x] = [net[x] EXCEPT !.answer = a]
    BY <1>1
  <2>3. net' = [net EXCEPT ![x] = [[net[x] EXCEPT !.answer = a] EXCEPT !.token = n]]
    BY <1>1, <2>1, <2>2
  <2>4. QED
    BY <1>2, <2>3
<1>5. net'[x] = e /\ \A y \in Exchanges : y # x => net'[y] = net[y]
  BY <1>1, <1>4
<1>6. QED
  BY <1>3, <1>4, <1>5

LEMMA AnswerTyped ==
  ASSUME ServerInv, NetTyped, KeepsNames, NEW x \in Exchanges,
         NEW a \in {"renewed", "ended", "refused"}, NEW n \in Numbers, Answer(x, a, n),
         net[x].kind # "none", n <= Len(rows'), a = "renewed" => net[x].kind = "refresh" /\ n # 0,
         pc'[x] = "idle", \A y \in Exchanges : y # x => pc'[y] = pc[y] /\ tok'[y] = tok[y]
  PROVE  NetTyped'
<1> DEFINE e == [kind |-> net[x].kind, tab |-> net[x].tab, carried |-> net[x].carried,
                 answer |-> a, token |-> n]
<1>1. net' = [net EXCEPT ![x] = e] /\ e \in Exchange
  BY AnswerFacts
<1>2. e.kind = net[x].kind /\ e.carried = net[x].carried /\ e.answer = a /\ e.token = n
  OBVIOUS
<1>3. net[x].carried <= Len(rows')
  BY CarriedTyped, RowsTyped DEF KeepsNames
<1> HIDE DEF e
<1>4. QED
  BY <1>1, <1>2, <1>3, NetOne

(* A handler that moves.                                                    *)
LEMMA PlaceFacts ==
  ASSUME ServerInv, NEW x \in Exchanges, NEW label, NEW n, Place(x, label, n)
  PROVE  /\ pc'[x] = label /\ tok'[x] = n
         /\ \A y \in Exchanges : y # x => pc'[y] = pc[y] /\ tok'[y] = tok[y]
BY PlacesTyped DEF Place

LEMMA SendTyped ==
  ASSUME ServerInv, NetTyped, TabsTyped, KeepsNames, UNCHANGED serverVars,
         NEW kind \in {"refresh", "logout"}, NEW t \in Tabs, SendFree(kind, t)
  PROVE  NetTyped'
<1>1. Free \in Exchanges /\ Free \notin Busy
  BY FreeIsFree DEF SendFree
<1>2. Outgoing(kind, t) \in Exchange /\ net' = [net EXCEPT ![Free] = Outgoing(kind, t)]
  BY OutgoingTyped DEF SendFree, Send
<1>3. jar <= Len(rows') /\ 0 <= Len(rows')
  BY RowsTyped DEF TabsTyped, serverVars
<1>4. pc'[Free] = "idle"
  BY <1>1 DEF NetTyped, Settling, Pending, Busy, serverVars
<1>5. /\ Outgoing(kind, t).kind = kind /\ Outgoing(kind, t).carried = jar
      /\ Outgoing(kind, t).answer = "pending" /\ Outgoing(kind, t).token = 0
  BY DEF Outgoing
<1> HIDE DEF Outgoing
<1>6. \A y \in Exchanges : pc'[y] = pc[y] /\ tok'[y] = tok[y]
  BY DEF serverVars
<1>7. QED
  BY <1>1, <1>2, <1>3, <1>4, <1>5, <1>6, NetOne

(* What Mount does to each exchange.                                        *)
LEMMA MountFacts ==
  ASSUME NEW t \in Tabs, Mount(t)
  PROVE  /\ Free \in Exchanges /\ Free \notin Busy
         /\ net' = [y \in Exchanges |-> net'[y]]
         /\ net'[Free] = Outgoing("refresh", t)
         /\ \A y \in Exchanges : y # Free =>
              net'[y] = IF y \in Busy /\ net[y].tab = t THEN [net[y] EXCEPT !.tab = NoTab] ELSE net[y]
         /\ Busy # {} => "overlap" \in excuse'
         /\ (\E y \in Busy : net[y].tab = t) => "lost" \in excuse'
         /\ excuse \subseteq excuse'
<1>1. Free \in Exchanges /\ Free \notin Busy
  BY FreeIsFree DEF Mount
<1>2. net' = [y \in Exchanges |->
        IF y = Free THEN Outgoing("refresh", t)
        ELSE IF y \in {z \in Busy : net[z].tab = t} THEN [net[y] EXCEPT !.tab = NoTab] ELSE net[y]]
  BY DEF Mount
<1>3. excuse' = excuse \cup (When({z \in Busy : net[z].tab = t} # {}, "lost")
                             \cup When(Busy # {}, "overlap"))
  BY DEF Mount, Excused
<1>4. QED
  BY <1>1, <1>2, <1>3 DEF When

LEMMA MountTyped ==
  ASSUME ServerInv, NetTyped, TabsTyped, KeepsNames, UNCHANGED serverVars,
         NEW t \in Tabs, Mount(t)
  PROVE  NetTyped'
<1> DEFINE Fine(y) == net'[y] \in Exchange /\ net'[y].carried <= Len(rows')
                      /\ net'[y].token <= Len(rows') /\ Settling(y)'
<1>1. PICK x \in Exchanges : x = Free /\ x \notin Busy
  BY MountFacts
<1>2. net'[x] = Outgoing("refresh", t) /\ Outgoing("refresh", t) \in Exchange
  BY <1>1, OutgoingTyped, MountFacts
<1>3. Fine(x)
  <2>1. /\ net'[x] \in Exchange
        /\ net'[x].kind = "refresh" /\ net'[x].carried = jar
        /\ net'[x].answer = "pending" /\ net'[x].token = 0
    BY <1>2 DEF Outgoing
  <2>2. net[x].kind = "none" /\ Settling(x)
    BY <1>1 DEF Busy, NetTyped
  <2>3. pc'[x] = "idle"
    BY <2>2 DEF Settling, Pending, serverVars
  <2>4. jar <= Len(rows') /\ 0 <= Len(rows')
    BY RowsTyped DEF TabsTyped, serverVars
  <2>5. Settling(x)'
    BY <2>1, <2>3 DEF Settling, Pending
  <2>6. QED
    BY <2>1, <2>4, <2>5
<1>4. ASSUME NEW y \in Exchanges, y # x, ~(y \in Busy /\ net[y].tab = t) PROVE Fine(y)
  BY <1>1, <1>4, MountFacts, NetKept DEF serverVars
<1>5. ASSUME NEW y \in Exchanges, y # x, y \in Busy, net[y].tab = t PROVE Fine(y)
  <2>1. net'[y] = [net[y] EXCEPT !.tab = NoTab]
    BY <1>1, <1>5, MountFacts
  <2>2. net[y] \in Exchange
    BY DEF NetTyped
  <2>3. /\ net'[y] \in Exchange /\ net'[y].kind = net[y].kind /\ net'[y].carried = net[y].carried
        /\ net'[y].answer = net[y].answer /\ net'[y].token = net[y].token
    BY <2>1, <2>2 DEF Exchange
  <2>4. Settling(y)'
    BY <1>5, <2>3 DEF NetTyped, Settling, Pending, Busy, serverVars
  <2>5. QED
    BY <2>3, <2>4 DEF NetTyped, serverVars
<1> HIDE DEF Fine
<1>6. \A y \in Exchanges : Fine(y)
  BY <1>3, <1>4, <1>5
<1>7. QED
  BY <1>6, MountFacts DEF NetTyped, Fine

(* What the client forgets, and what it no longer waits for.                *)
LEMMA ForgetTyped ==
  ASSUME ServerInv, NetTyped, KeepsNames, UNCHANGED serverVars,
         NEW x \in Exchanges, Forget(x), net[x].answer # "pending" \/ pc[x] = "idle"
  PROVE  NetTyped'
<1>1. NoExchange \in Exchange
  BY DEF Exchange, NoExchange, Numbers
<1>2. /\ NoExchange.kind = "none" /\ NoExchange.answer = "pending"
      /\ NoExchange.carried = 0 /\ NoExchange.token = 0
  BY DEF NoExchange
<1>3. pc'[x] = "idle"
  BY DEF NetTyped, Settling, Pending, serverVars
<1>4. 0 <= Len(rows')
  BY DEF KeepsNames
<1>5. \A y \in Exchanges : pc'[y] = pc[y] /\ tok'[y] = tok[y]
  BY DEF serverVars
<1>6. net' = [net EXCEPT ![x] = NoExchange]
  BY DEF Forget
<1> HIDE DEF NoExchange
<1>7. QED
  BY <1>1, <1>2, <1>3, <1>4, <1>5, <1>6, NetOne

LEMMA AbandonTyped ==
  ASSUME ServerInv, NetTyped, KeepsNames, UNCHANGED serverVars,
         NEW x \in Busy, net' = [net EXCEPT ![x].tab = NoTab]
  PROVE  /\ NetTyped'
         /\ net'[x].tab = NoTab /\ net'[x].kind = net[x].kind /\ net'[x].carried = net[x].carried
         /\ net'[x].answer = net[x].answer /\ net'[x].token = net[x].token
         /\ \A y \in Exchanges : y # x => net'[y] = net[y]
<1> DEFINE e == [net[x] EXCEPT !.tab = NoTab]
<1>1. x \in Exchanges /\ net[x] \in Exchange /\ net \in [Exchanges -> Exchange]
  BY DEF Busy, NetTyped
<1>2. /\ e \in Exchange /\ e.kind = net[x].kind /\ e.carried = net[x].carried
      /\ e.answer = net[x].answer /\ e.token = net[x].token /\ e.tab = NoTab
  BY <1>1 DEF Exchange
<1>3. net' = [net EXCEPT ![x] = e]
  OBVIOUS
<1> HIDE DEF e
<1>4. net'[x] = e /\ \A y \in Exchanges : y # x => net'[y] = net[y]
  BY <1>1, <1>3
<1>5. net[x].carried <= Len(rows') /\ net[x].token <= Len(rows')
  BY <1>1 DEF NetTyped, serverVars
<1>6. e.kind # "none"
  BY <1>2 DEF Busy
<1>7. /\ pc'[x] # "idle" => e.kind = "refresh" /\ e.answer = "pending" /\ e.carried = tok'[x]
      /\ e.answer = "renewed" => e.kind = "refresh" /\ e.token # 0
  BY <1>1, <1>2 DEF NetTyped, Settling, Pending, serverVars
<1>8. \A y \in Exchanges : pc'[y] = pc[y] /\ tok'[y] = tok[y]
  BY DEF serverVars
<1>9. NetTyped'
  BY <1>1, <1>2, <1>3, <1>5, <1>6, <1>7, <1>8, NetOne
<1>10. QED
  BY <1>2, <1>4, <1>9

(* A refresh whose handler moves and that is not answered yet.              *)
LEMMA HandledTyped ==
  ASSUME ServerInv, NetTyped, KeepsNames, NEW x \in Exchanges, Pending(x, "refresh"),
         NEW label, Place(x, label, net[x].carried), UNCHANGED net
  PROVE  NetTyped'
<1>1. net[x] \in Exchange /\ net \in [Exchanges -> Exchange] /\ net = [net EXCEPT ![x] = net[x]]
  BY DEF NetTyped
<1>2. net[x].carried <= Len(rows') /\ net[x].token <= Len(rows')
  BY CarriedTyped, RowsTyped DEF KeepsNames
<1>3. /\ pc'[x] = label /\ tok'[x] = net[x].carried
      /\ \A y \in Exchanges : y # x => pc'[y] = pc[y] /\ tok'[y] = tok[y]
  BY PlaceFacts
<1>4. net[x].kind = "refresh" /\ net[x].answer = "pending"
  BY DEF Pending
<1>5. net' = [net EXCEPT ![x] = net[x]]
  BY <1>1
<1>6. QED
  BY <1>1, <1>2, <1>3, <1>4, <1>5, NetOne

LEMMA NetStep ==
  ASSUME ServerInv, NetTyped, TabsTyped, [Next]_vars
  PROVE  NetTyped'
<1>1. KeepsNames
  BY ServerStep
<1>2. 0 \in Numbers /\ Len(rows') \in Nat
  BY <1>1 DEF Numbers, KeepsNames
<1>3. CASE OnlyCalls \/ EndedElsewhere \/ \E t \in Tabs, u \in Users : Login(t, u)
  <2>1. UNCHANGED <<net, pc, tok>>
    BY <1>3, ElsewhereCases, LoginCases DEF OnlyCalls, serverVars, EndedElsewhere, Login
  <2>2. QED
    BY <1>1, <2>1, NetUnchanged
<1>4. CASE (\E c \in Calls : Asks(c)) \/ \E t \in Tabs : SignOut(t)
  <2>1. \E t \in Tabs, kind \in {"refresh", "logout"} : SendFree(kind, t) /\ UNCHANGED serverVars
    BY <1>4, TabOfTyped DEF Asks, SendRefresh, Rejected, SignOut
  <2>2. QED
    BY <1>1, <2>1, SendTyped
<1>5. ASSUME NEW t \in Tabs, Mount(t) PROVE NetTyped'
  <2>1. UNCHANGED serverVars
    BY <1>5 DEF Mount
  <2>2. QED
    BY <1>1, <1>5, <2>1, MountTyped
<1>6. ASSUME NEW x \in Exchanges, RefreshRefused(x) \/ LogoutFails(x) PROVE NetTyped'
  <2>1. Answer(x, "refused", 0) /\ UNCHANGED serverVars /\ net[x].kind # "none"
    BY <1>6 DEF RefreshRefused, LogoutFails, Pending
  <2>2. pc[x] = "idle"
    BY <1>6 DEF RefreshRefused, LogoutFails, Pending, NetTyped, Settling
  <2>3. pc'[x] = "idle" /\ \A y \in Exchanges : pc'[y] = pc[y] /\ tok'[y] = tok[y]
    BY <2>1, <2>2 DEF serverVars
  <2>4. QED
    BY <1>1, <1>2, <2>1, <2>3, AnswerTyped
<1>7. ASSUME NEW x \in Exchanges, RotationStep(x) PROVE NetTyped'
  <2>1. Pending(x, "refresh") /\ net[x].kind # "none"
    BY <1>7 DEF RotationStep, Pending
  <2>2. CASE Claims(x) \/ Misses(x) \/ Finds(x)
    BY <1>1, <2>1, <2>2, HandledTyped DEF Claims, Misses, Finds
  <2>3. CASE Kills(x)
    <3>1. pc'[x] = "idle" /\ \A y \in Exchanges : y # x => pc'[y] = pc[y] /\ tok'[y] = tok[y]
      BY <2>3, PlaceFacts DEF Kills
    <3>2. QED
      BY <1>1, <1>2, <2>1, <2>3, <3>1, AnswerTyped DEF Kills
  <2>4. QED
    BY <1>7, <2>2, <2>3, RotationCases
<1>8. ASSUME NEW x \in Exchanges, RotationFails(x) PROVE NetTyped'
  <2>1. Answer(x, "ended", 0) /\ Place(x, "idle", 0) /\ net[x].kind # "none"
    BY <1>8, FailureCases DEF RotationFails, Pending
  <2>2. pc'[x] = "idle" /\ \A y \in Exchanges : y # x => pc'[y] = pc[y] /\ tok'[y] = tok[y]
    BY <2>1, PlaceFacts
  <2>3. QED
    BY <1>1, <1>2, <2>1, <2>2, AnswerTyped
<1>9. ASSUME NEW x \in Exchanges, RotationDone(x) PROVE NetTyped'
  <2>1. PICK n \in 0 .. Len(rows'), a \in {"renewed", "ended", "refused"} :
          Answer(x, a, n) /\ (a = "renewed" => n # 0)
    <3>1. Len(rows') # 0
      BY <1>9, SuccessCases, RowsTyped, <1>1 DEF KeepsNames
    <3>2. Len(rows') \in 0 .. Len(rows') /\ 0 \in 0 .. Len(rows')
      BY <1>2
    <3>3. Answer(x, "renewed", Len(rows')) \/ Answer(x, "ended", 0) \/ Answer(x, "refused", 0)
      BY <1>9 DEF RotationDone
    <3>4. QED
      BY <3>1, <3>2, <3>3
  <2>2. n \in Numbers /\ n <= Len(rows')
    <3>1. Len(rows') <= MaxTokens
      BY ServerStep DEF ServerInv, RP!IInv, RP!TypeOK
    <3>2. QED
      BY <1>2, <3>1 DEF Numbers
  <2>3. Place(x, "idle", 0) /\ net[x].kind = "refresh"
    BY <1>9, SuccessCases DEF RotationDone, Pending
  <2>4. pc'[x] = "idle" /\ \A y \in Exchanges : y # x => pc'[y] = pc[y] /\ tok'[y] = tok[y]
    BY <2>3, PlaceFacts
  <2>5. QED
    BY <1>1, <2>1, <2>2, <2>3, <2>4, AnswerTyped
<1>10. ASSUME NEW x \in Exchanges, Logout(x) PROVE NetTyped'
  <2>1. Answer(x, "ended", 0) /\ net[x].kind # "none" /\ UNCHANGED <<pc, tok>>
    BY <1>10, LogoutCases DEF Logout, Pending, serverVars
  <2>2. pc[x] = "idle"
    BY <1>10 DEF Logout, Pending, NetTyped, Settling
  <2>3. QED
    BY <1>1, <1>2, <2>1, <2>2, AnswerTyped
<1>11. ASSUME NEW x \in Exchanges, Deliver(x) \/ Discard(x) PROVE NetTyped'
  <2>1. Forget(x) /\ UNCHANGED serverVars /\ (net[x].answer # "pending" \/ pc[x] = "idle")
    BY <1>11 DEF Deliver, Discard
  <2>2. QED
    BY <1>1, <2>1, ForgetTyped
<1>12. ASSUME NEW x \in Exchanges, ConnectionFails(x) PROVE NetTyped'
  <2>1. x \in Busy /\ net' = [net EXCEPT ![x].tab = NoTab] /\ UNCHANGED serverVars
    BY <1>12 DEF ConnectionFails
  <2>2. QED
    BY <1>1, <2>1, AbandonTyped
<1>13. QED
  BY <1>3, <1>4, <1>5, <1>6, <1>7, <1>8, <1>9, <1>10, <1>11, <1>12, NextCases

-----------------------------------------------------------------------------
(* The tabs.                                                                *)

(* What a step writes into a tab's store: a token and a user, or nothing.   *)
StoreWrite(t) ==
  /\ access' = access \/ \E n \in 0 .. Len(rows') : access' = [access EXCEPT ![t] = n]
  /\ user' = user \/ \E u \in Users \cup {NoUser} : user' = [user EXCEPT ![t] = u]
(* And of its shared refresh.                                               *)
FlightWrite(t) ==
  /\ inFlight' = inFlight \/ \E n \in 0 .. MaxExchanges : inFlight' = [inFlight EXCEPT ![t] = n]
  /\ restoring' \subseteq restoring \cup {t}

LEMMA ClearWrites ==
  ASSUME KeepsNames, NEW t \in Tabs, clear(t)
  PROVE  StoreWrite(t)
<1>1. 0 \in 0 .. Len(rows')
  BY DEF KeepsNames
<1>2. QED
  BY <1>1 DEF StoreWrite, clear

LEMMA SettleWrites ==
  ASSUME NEW t \in Tabs, Settled(t)
  PROVE  FlightWrite(t)
<1>1. 0 \in 0 .. MaxExchanges
  OBVIOUS
<1>2. QED
  BY <1>1 DEF FlightWrite, Settled

LEMMA RenewedWrites ==
  ASSUME ServerInv, KeepsNames, NEW t \in Tabs, NEW n \in DOMAIN rows, Renewed(t, n)
  PROVE  StoreWrite(t) /\ FlightWrite(t)
<1>1. n \in 0 .. Len(rows') /\ rows[n].user \in Users
  BY RowsTyped DEF KeepsNames
<1>2. access' = [access EXCEPT ![t] = n]
  BY DEF Renewed
<1>3. user' = user \/ user' = [user EXCEPT ![t] = rows[n].user]
  BY DEF Renewed
<1>4. FlightWrite(t)
  BY SettleWrites DEF Renewed
<1>5. QED
  BY <1>1, <1>2, <1>3, <1>4 DEF StoreWrite

LEMMA NotRenewedWrites ==
  ASSUME KeepsNames, NEW t \in Tabs, NEW heard, NotRenewed(t, heard)
  PROVE  StoreWrite(t) /\ FlightWrite(t) /\ user' = [user EXCEPT ![t] = NoUser]
<1>1. FlightWrite(t)
  BY SettleWrites DEF NotRenewed
<1>2. user' = [user EXCEPT ![t] = NoUser]
  BY DEF NotRenewed, clear
<1>3. UNCHANGED access \/ clear(t)
  BY DEF NotRenewed
<1>4. QED
  BY <1>1, <1>2, <1>3, ClearWrites DEF StoreWrite

LEMMA DeliverWrites ==
  ASSUME ServerInv, NetTyped, KeepsNames, NEW x \in Exchanges, Deliver(x) \/ ConnectionFails(x)
  PROVE  net[x].tab \in Tabs /\ StoreWrite(net[x].tab) /\ FlightWrite(net[x].tab)
<1>1. net[x].tab \in Tabs /\ net[x] \in Exchange
  BY CarriedTyped DEF Deliver, ConnectionFails, Exchange
<1>2. CASE net[x].kind = "logout"
  <2>1. clear(net[x].tab) /\ UNCHANGED <<restoring, inFlight>>
    BY <1>2 DEF Deliver, ConnectionFails
  <2>2. QED
    BY <1>1, <2>1, ClearWrites DEF FlightWrite
<1>3. CASE net[x].kind # "logout" /\ Deliver(x) /\ net[x].answer = "renewed"
  <2>1. Renewed(net[x].tab, net[x].token)
    BY <1>3 DEF Deliver
  <2>2. net[x].token \in DOMAIN rows
    BY <1>3, CarriedTyped DEF NetTyped, Settling
  <2>3. QED
    BY <1>1, <2>1, <2>2, RenewedWrites
<1>4. CASE net[x].kind # "logout" /\ ~(Deliver(x) /\ net[x].answer = "renewed")
  <2>1. \E heard \in {TRUE, FALSE} : NotRenewed(net[x].tab, heard)
    BY <1>4 DEF Deliver, ConnectionFails
  <2>2. QED
    BY <1>1, <2>1, NotRenewedWrites
<1>5. QED
  BY <1>2, <1>3, <1>4

LEMMA SendWrites ==
  ASSUME NEW t \in Tabs, SendRefresh(t) \/ Mount(t)
  PROVE  /\ Free \in Exchanges /\ inFlight' = [inFlight EXCEPT ![t] = Free]
         /\ Mount(t) \/ UNCHANGED restoring => FlightWrite(t)
<1>1. Free \in Exchanges
  BY FreeIsFree DEF SendRefresh, SendFree, Mount
<1>2. inFlight' = [inFlight EXCEPT ![t] = Free]
  BY DEF SendRefresh, Mount
<1>3. Mount(t) \/ UNCHANGED restoring => restoring' \subseteq restoring \cup {t}
  BY DEF Mount
<1>4. Free \in 0 .. MaxExchanges
  BY <1>1 DEF Exchanges
<1>5. QED
  BY <1>1, <1>2, <1>3, <1>4 DEF FlightWrite

LEMMA StepWrites ==
  ASSUME ServerInv, NetTyped, TabsTyped, [Next]_vars
  PROVE  \/ UNCHANGED tabVars
         \/ \E t \in Tabs : StoreWrite(t) /\ FlightWrite(t)
<1>1. KeepsNames
  BY ServerStep
<1>2. ASSUME NEW c \in Calls, Asks(c) PROVE \E t \in Tabs : StoreWrite(t) /\ FlightWrite(t)
  <2>1. TabOf[c] \in Tabs /\ SendRefresh(TabOf[c]) /\ UNCHANGED <<access, user, restoring>>
    BY <1>2, TabOfTyped DEF Asks, Rejected
  <2>2. QED
    BY <2>1, SendWrites DEF StoreWrite
<1>3. ASSUME NEW t \in Tabs, Mount(t) PROVE StoreWrite(t) /\ FlightWrite(t)
  <2>1. 0 \in 0 .. Len(rows')
    BY <1>1 DEF KeepsNames
  <2>2. QED
    BY <1>3, <2>1, SendWrites DEF StoreWrite, Mount
<1>4. ASSUME NEW t \in Tabs, NEW u \in Users, Login(t, u) PROVE StoreWrite(t) /\ FlightWrite(t)
  <2>1. Len(rows') \in 0 .. Len(rows')
    BY <1>1 DEF KeepsNames
  <2>2. QED
    BY <1>4, <2>1 DEF StoreWrite, FlightWrite, Login, setSession
<1>5. CASE \E x \in Exchanges : Deliver(x) \/ ConnectionFails(x)
  BY <1>1, <1>5, DeliverWrites
<1>6. QED
  BY <1>2, <1>3, <1>4, <1>5, NextCases
     DEF OnlyCalls, SignOut, RefreshRefused, LogoutFails, RotationStep, RotationFails, RotationDone,
         Logout, Discard, EndedElsewhere, tabVars

(* The jar, the sessions that were logged out, the mishaps.                 *)
LEMMA JarStep ==
  ASSUME ServerInv, NetTyped, TabsTyped, [Next]_vars
  PROVE  jar' \in 0 .. Len(rows') /\ out' \subseteq DOMAIN rows'
<1>1. KeepsNames /\ Len(rows) \in Nat
  BY ServerStep, RowsTyped
<1>2. CASE UNCHANGED <<jar, out>>
  BY <1>1, <1>2 DEF KeepsNames, TabsTyped
<1>3. ASSUME NEW t \in Tabs, NEW u \in Users, Login(t, u)
      PROVE  jar' \in 0 .. Len(rows') /\ out' \subseteq DOMAIN rows'
  <2>1. jar' = Len(rows') /\ out' = out
    BY <1>3 DEF Login
  <2>2. QED
    BY <1>1, <2>1 DEF KeepsNames, TabsTyped
<1>4. ASSUME NEW x \in Exchanges, Deliver(x)
      PROVE  jar' \in 0 .. Len(rows') /\ out' \subseteq DOMAIN rows'
  <2>1. jar' \in {net[x].token, 0, jar}
    BY <1>4 DEF Deliver
  <2>2. jar' \in 0 .. Len(rows')
    BY <1>1, <2>1, CarriedTyped DEF KeepsNames, TabsTyped
  <2>3. out' = out \/ (net[x].carried # 0 /\ out' = out \cup {rows[net[x].carried].family})
    BY <1>4 DEF Deliver
  <2>4. net[x].carried # 0 => rows[net[x].carried].family \in DOMAIN rows
    BY CarriedTyped, RowsTyped
  <2>6. out' \subseteq DOMAIN rows
    BY <2>3, <2>4 DEF TabsTyped
  <2>7. QED
    BY <1>1, <2>2, <2>6 DEF KeepsNames
<1>5. QED
  BY <1>2, <1>3, <1>4, NextCases
     DEF OnlyCalls, Asks, Rejected, Mount, SignOut, RefreshRefused, LogoutFails, RotationStep,
         RotationFails, RotationDone, Logout, ConnectionFails, Discard, EndedElsewhere

Mishaps == {"lost", "refused", "overlap", "switched", "elsewhere"}

LEMMA ExcuseStep ==
  ASSUME [Next]_vars
  PROVE  \E why \in SUBSET Mishaps : excuse' = excuse \cup why
<1>1. CASE UNCHANGED excuse
  <2>1. excuse' = excuse \cup {} /\ {} \in SUBSET Mishaps
    BY <1>1
  <2>2. QED
    BY <2>1
<1>2. ASSUME NEW t \in Tabs, NEW kind, SendFree(kind, t)
      PROVE  \E why \in SUBSET Mishaps : excuse' = excuse \cup why
  BY <1>2 DEF SendFree, Send, Excused, When, Mishaps
<1>3. ASSUME NEW t \in Tabs, Mount(t)
      PROVE  \E why \in SUBSET Mishaps : excuse' = excuse \cup why
  <2>1. PICK a, b : excuse' = excuse \cup (When(a, "lost") \cup When(b, "overlap"))
    BY <1>3 DEF Mount, Excused
  <2>2. When(a, "lost") \cup When(b, "overlap") \in SUBSET Mishaps
    BY DEF When, Mishaps
  <2>3. QED
    BY <2>1, <2>2
<1>4. ASSUME NEW t \in Tabs, NEW u \in Users, Login(t, u)
      PROVE  \E why \in SUBSET Mishaps : excuse' = excuse \cup why
  <2>1. PICK a : excuse' = excuse \cup When(a, "switched")
    BY <1>4 DEF Login, Excused
  <2>2. QED
    BY <2>1 DEF When, Mishaps
<1>5. ASSUME NEW x \in Exchanges, RefreshRefused(x) \/ LogoutFails(x)
      PROVE  \E why \in SUBSET Mishaps : excuse' = excuse \cup why
  BY <1>5 DEF RefreshRefused, LogoutFails, Excused, When, Mishaps
<1>6. ASSUME NEW x \in Exchanges, RotationDone(x) \/ ConnectionFails(x)
      PROVE  \E why \in SUBSET Mishaps : excuse' = excuse \cup why
  <2>1. UNCHANGED excuse \/ Excused({"lost"})
    BY <1>6 DEF RotationDone, ConnectionFails
  <2>2. {"lost"} \in SUBSET Mishaps
    BY DEF Mishaps
  <2>3. QED
    BY <1>1, <2>1, <2>2 DEF Excused
<1>7. CASE EndedElsewhere
  BY <1>7 DEF EndedElsewhere, Excused, Mishaps
<1>8. QED
  BY <1>1, <1>2, <1>3, <1>4, <1>5, <1>6, <1>7, NextCases, TabOfTyped
     DEF OnlyCalls, Asks, SendRefresh, SignOut, RotationStep, RotationFails, Logout, Deliver, Discard

(* Calls wait only where their tab has a refresh under way.                 *)
LEMMA ReleaseFacts ==
  ASSUME TabsTyped, NEW t \in Tabs, NEW label \in {"idle", "retried"}, NEW n \in 0 .. Len(rows),
         Release(t, label, n), Settled(t), Shared
  PROVE  /\ call' \in [Calls -> {"idle", "sent", "waiting", "retried"}]
         /\ bearer' \in [Calls -> 0 .. Len(rows)]
         /\ \A c \in Calls : call'[c] = "waiting" => inFlight'[TabOf[c]] # 0
<1>1. call' \in [Calls -> {"idle", "sent", "waiting", "retried"}]
  BY DEF Release, TabsTyped
<1>2. bearer' \in [Calls -> 0 .. Len(rows)]
  BY DEF Release, TabsTyped
<1>3. ASSUME NEW c \in Calls, call'[c] = "waiting" PROVE inFlight'[TabOf[c]] # 0
  <2>1. c \notin Waiting(t) /\ call[c] = "waiting"
    BY <1>3 DEF Release
  <2>2. TabOf[c] # t /\ TabOf[c] \in Tabs
    BY <2>1, TabOfTyped DEF Waiting, CallsOf
  <2>3. inFlight'[TabOf[c]] = inFlight[TabOf[c]]
    BY <2>2 DEF Settled, TabsTyped
  <2>4. QED
    BY <2>1, <2>3 DEF Shared
<1>4. QED
  BY <1>1, <1>2, <1>3

LEMMA BackFacts ==
  ASSUME TabsTyped, NEW c \in Calls, NEW label \in {"idle", "sent", "waiting"}, NEW n \in 0 .. Len(rows),
         call' = [call EXCEPT ![c] = label], bearer' = [bearer EXCEPT ![c] = n],
         \A t \in Tabs : inFlight'[t] = inFlight[t] \/ inFlight'[t] # 0,
         label = "waiting" => inFlight'[TabOf[c]] # 0, Shared
  PROVE  /\ call' \in [Calls -> {"idle", "sent", "waiting", "retried"}]
         /\ bearer' \in [Calls -> 0 .. Len(rows)]
         /\ \A d \in Calls : call'[d] = "waiting" => inFlight'[TabOf[d]] # 0
<1>1. call' \in [Calls -> {"idle", "sent", "waiting", "retried"}] /\ bearer' \in [Calls -> 0 .. Len(rows)]
  BY DEF TabsTyped
<1>2. \A d \in Calls : TabOf[d] \in Tabs /\ (d # c => call'[d] = call[d]) /\ (d = c => call'[d] = label)
  BY TabOfTyped DEF TabsTyped
<1>3. QED
  BY <1>1, <1>2 DEF Shared

LEMMA CallsStep ==
  ASSUME ServerInv, NetTyped, TabsTyped, Shared, [Next]_vars
  PROVE  /\ call' \in [Calls -> {"idle", "sent", "waiting", "retried"}]
         /\ bearer' \in [Calls -> 0 .. Len(rows')]
         /\ \A c \in Calls : call'[c] = "waiting" => inFlight'[TabOf[c]] # 0
<1> DEFINE Goal == /\ call' \in [Calls -> {"idle", "sent", "waiting", "retried"}]
                   /\ bearer' \in [Calls -> 0 .. Len(rows)]
                   /\ \A c \in Calls : call'[c] = "waiting" => inFlight'[TabOf[c]] # 0
<1>1. KeepsNames /\ 0 \in 0 .. Len(rows) /\ 0 .. Len(rows) \subseteq 0 .. Len(rows')
  BY ServerStep, RowsTyped DEF KeepsNames
<1>2. ASSUME UNCHANGED <<inFlight, call, bearer>> PROVE Goal
  BY <1>2 DEF TabsTyped, Shared
<1>3. ASSUME NEW c \in Calls, Ask(c) \/ Accepted(c) \/ RejectedAgain(c) \/ CallFails(c)
      PROVE  Goal
  <2>1. UNCHANGED inFlight
    BY <1>3 DEF Ask, Accepted, RejectedAgain, CallFails, tabVars
  <2>2. PICK label \in {"idle", "sent", "waiting"}, n \in 0 .. Len(rows) :
          /\ label # "waiting"
          /\ call' = [call EXCEPT ![c] = label] /\ bearer' = [bearer EXCEPT ![c] = n]
    <3>1. access[TabOf[c]] \in 0 .. Len(rows)
      BY TabOfTyped DEF TabsTyped
    <3>2. CASE Ask(c)
      BY <3>1, <3>2 DEF Ask
    <3>3. CASE ~Ask(c)
      BY <1>1, <1>3, <3>3 DEF Accepted, RejectedAgain, CallFails, Back
    <3>4. QED
      BY <3>2, <3>3
  <2>3. QED
    BY <2>1, <2>2, BackFacts
<1>4. ASSUME NEW c \in Calls, Rejected(c) PROVE Goal
  <2>1. TabOf[c] \in Tabs
    BY TabOfTyped
  <2>2. /\ \A t \in Tabs : inFlight'[t] = inFlight[t] \/ inFlight'[t] # 0
        /\ inFlight'[TabOf[c]] # 0
    <3>1. CASE inFlight[TabOf[c]] # 0
      BY <1>4, <3>1 DEF Rejected, refreshOnce
    <3>2. CASE inFlight[TabOf[c]] = 0
      <4>1. SendRefresh(TabOf[c])
        BY <1>4, <3>2 DEF Rejected, refreshOnce
      <4>2. inFlight' = [inFlight EXCEPT ![TabOf[c]] = Free] /\ Free # 0
        BY <2>1, <4>1, SendWrites DEF Exchanges
      <4>3. QED
        BY <2>1, <4>2 DEF TabsTyped
    <3>3. QED
      BY <3>1, <3>2
  <2>3. call' = [call EXCEPT ![c] = "waiting"] /\ bearer' = [bearer EXCEPT ![c] = 0]
    BY <1>4 DEF Rejected
  <2>4. QED
    BY <1>1, <2>2, <2>3, BackFacts
<1>5. ASSUME NEW t \in Tabs, Mount(t) PROVE Goal
  <2>1. /\ call' = [c \in Calls |-> IF c \in CallsOf(t) THEN "idle" ELSE call[c]]
        /\ bearer' = [c \in Calls |-> IF c \in CallsOf(t) THEN 0 ELSE bearer[c]]
    BY <1>5 DEF Mount
  <2>2. inFlight' = [inFlight EXCEPT ![t] = Free]
    BY <1>5 DEF Mount
  <2>3. \A c \in Calls : call'[c] = "waiting" =>
          call[c] = "waiting" /\ TabOf[c] # t /\ TabOf[c] \in Tabs
    BY <2>1, TabOfTyped DEF CallsOf
  <2>4. \A c \in Calls : call'[c] = "waiting" => inFlight'[TabOf[c]] # 0
    BY <2>2, <2>3 DEF Shared, TabsTyped
  <2>5. QED
    BY <1>1, <2>1, <2>4 DEF TabsTyped
<1>6. ASSUME NEW x \in Exchanges, Deliver(x) \/ ConnectionFails(x) PROVE Goal
  <2>1. CASE net[x].kind = "logout"
    BY <1>2, <1>6, <2>1 DEF Deliver, ConnectionFails, callVars
  <2>2. CASE net[x].kind # "logout"
    <3>1. \E label \in {"idle", "retried"}, n \in {0, net[x].token} :
            Release(net[x].tab, label, n) /\ Settled(net[x].tab)
      BY <1>6, <2>2 DEF Deliver, ConnectionFails, Renewed, NotRenewed
    <3>2. net[x].token \in 0 .. Len(rows) /\ net[x].tab \in Tabs
      BY <1>1, <1>6, CarriedTyped, DeliverWrites
    <3>3. QED
      BY <1>1, <3>1, <3>2, ReleaseFacts
  <2>3. QED
    BY <2>1, <2>2
<1>7. ASSUME \E t \in Tabs : SignOut(t) \/ \E u \in Users : Login(t, u) PROVE Goal
  BY <1>2, <1>7 DEF SignOut, Login, tabVars, callVars
<1>8. ASSUME \E x \in Exchanges : Serve(x) \/ Discard(x) PROVE Goal
  BY <1>2, <1>8 DEF Serve, RefreshRefused, LogoutFails, RotationStep, RotationFails, RotationDone,
     Logout, Discard, tabVars, callVars
<1>9. ASSUME (\E n \in Numbers : AccessExpires(n)) \/ EndedElsewhere \/ UNCHANGED vars PROVE Goal
  BY <1>2, <1>9 DEF AccessExpires, EndedElsewhere, vars, tabVars, callVars
<1>10. Goal
  BY <1>3, <1>4, <1>5, <1>6, <1>7, <1>8, <1>9 DEF Next, ExchangeStep, CallStep
<1>11. QED
  BY <1>1, <1>10

LEMMA TabsStep ==
  ASSUME Typed, [Next]_vars
  PROVE  TabsTyped'
<1>1. KeepsNames /\ Len(rows) \in Nat
  BY ServerStep, RowsTyped DEF Typed
<1>2. stale' \subseteq DOMAIN rows'
  <2>1. CASE UNCHANGED stale
    BY <1>1, <2>1 DEF Typed, TabsTyped, KeepsNames
  <2>2. ASSUME NEW n \in Numbers, AccessExpires(n) PROVE stale' \subseteq DOMAIN rows'
    <3>1. n \in 0 .. Len(rows) /\ n # 0 /\ stale' = stale \cup {n}
      BY <2>2, TabOfTyped DEF AccessExpires, Typed, TabsTyped
    <3>2. n \in DOMAIN rows
      BY <3>1, RowsTyped DEF Typed
    <3>3. QED
      BY <1>1, <3>1, <3>2 DEF Typed, TabsTyped, KeepsNames
  <2>3. QED
    BY <2>1, <2>2 DEF Next, vars, ExchangeStep, CallStep, Serve, RefreshRefused, RotationStep,
       RotationFails, RotationDone, Logout, LogoutFails, Deliver, ConnectionFails, Discard, Ask,
       Accepted, Rejected, RejectedAgain, CallFails, Mount, SignOut, Login, EndedElsewhere
<1>3. /\ access' \in [Tabs -> 0 .. Len(rows')] /\ user' \in [Tabs -> Users \cup {NoUser}]
      /\ restoring' \subseteq Tabs /\ inFlight' \in [Tabs -> 0 .. MaxExchanges]
  <2>1. 0 .. Len(rows) \subseteq 0 .. Len(rows')
    BY <1>1 DEF KeepsNames
  <2>2. CASE UNCHANGED tabVars
    BY <2>1, <2>2 DEF tabVars, Typed, TabsTyped
  <2>3. ASSUME NEW t \in Tabs, StoreWrite(t), FlightWrite(t)
        PROVE  /\ access' \in [Tabs -> 0 .. Len(rows')] /\ user' \in [Tabs -> Users \cup {NoUser}]
               /\ restoring' \subseteq Tabs /\ inFlight' \in [Tabs -> 0 .. MaxExchanges]
    <3>1. access' \in [Tabs -> 0 .. Len(rows')] /\ user' \in [Tabs -> Users \cup {NoUser}]
      BY <2>1, <2>3 DEF StoreWrite, Typed, TabsTyped
    <3>2. restoring' \subseteq Tabs /\ inFlight' \in [Tabs -> 0 .. MaxExchanges]
      BY <2>3 DEF FlightWrite, Typed, TabsTyped
    <3>3. QED
      BY <3>1, <3>2
  <2>4. QED
    BY <2>2, <2>3, StepWrites DEF Typed
<1>4. jar' \in 0 .. Len(rows') /\ out' \subseteq DOMAIN rows'
  BY JarStep DEF Typed
<1>5. excuse' \subseteq Mishaps
  BY ExcuseStep DEF Typed, TabsTyped, Mishaps
<1>6. /\ call' \in [Calls -> {"idle", "sent", "waiting", "retried"}]
      /\ bearer' \in [Calls -> 0 .. Len(rows')]
  BY CallsStep DEF Typed
<1>7. QED
  BY <1>2, <1>3, <1>4, <1>5, <1>6 DEF TabsTyped, Mishaps

(* A tab's refresh stays the one on the network until it settles.           *)
LEMMA SharedKept ==
  ASSUME Typed,
         \A t \in Tabs :
           \/ inFlight'[t] = 0
           \/ /\ inFlight'[t] = inFlight[t]
              /\ inFlight[t] # 0 => /\ net'[inFlight[t]].kind = net[inFlight[t]].kind
                                    /\ net'[inFlight[t]].tab = net[inFlight[t]].tab
           \/ net'[inFlight'[t]].kind = "refresh" /\ net'[inFlight'[t]].tab = t
  PROVE  \A t \in Tabs : inFlight'[t] # 0 =>
           net'[inFlight'[t]].kind = "refresh" /\ net'[inFlight'[t]].tab = t
BY DEF Typed, Shared

LEMMA FlightFacts ==
  ASSUME Typed, NEW t \in Tabs, inFlight[t] # 0
  PROVE  inFlight[t] \in Exchanges /\ inFlight[t] \in Busy
         /\ net[inFlight[t]].kind = "refresh" /\ net[inFlight[t]].tab = t
<1>1. inFlight[t] \in Exchanges
  BY DEF Typed, TabsTyped, Exchanges
<1>2. net[inFlight[t]].kind = "refresh" /\ net[inFlight[t]].tab = t
  BY DEF Typed, Shared
<1>3. QED
  BY <1>1, <1>2 DEF Busy

(* An exchange that is sent, answered or handled leaves the others alone.   *)
LEMMA SendFacts ==
  ASSUME NetTyped, NEW t \in Tabs, NEW kind \in {"refresh", "logout"}, SendFree(kind, t)
  PROVE  \E x \in Exchanges :
           /\ x = Free /\ x \notin Busy
           /\ net'[x] = Outgoing(kind, t) /\ net'[x].kind = kind /\ net'[x].tab = t
           /\ \A y \in Exchanges : y # x => net'[y] = net[y]
<1>1. PICK x \in Exchanges : x = Free /\ x \notin Busy
  BY FreeIsFree DEF SendFree
<1>2. net' = [net EXCEPT ![x] = Outgoing(kind, t)]
  BY <1>1 DEF SendFree, Send
<1>3. net'[x] = Outgoing(kind, t) /\ \A y \in Exchanges : y # x => net'[y] = net[y]
  BY <1>2 DEF NetTyped
<1>4. QED
  BY <1>1, <1>3 DEF Outgoing

Answers(x) == \E a \in {"renewed", "ended", "refused"}, n \in Numbers : Answer(x, a, n)

LEMMA ServeAnswers ==
  ASSUME Typed, NEW x \in Exchanges,
         RefreshRefused(x) \/ LogoutFails(x) \/ RotationStep(x) \/ RotationFails(x)
           \/ RotationDone(x) \/ Logout(x)
  PROVE  /\ Answers(x) \/ UNCHANGED net
         /\ UNCHANGED <<jar, out, access, user, restoring, inFlight, call, bearer>>
<1>1. 0 \in Numbers
  BY DEF Numbers
<1>2. CASE RotationDone(x)
  <2>1. Len(rows') \in Numbers
    <3>1. Len(rows) < MaxTokens /\ \E u \in Users, f \in RP!Tokens : RP!Insert(u, f)
      BY <1>2, SuccessCases, RowsTyped DEF RP!Insert, Typed
    <3>2. Len(rows') = Len(rows) + 1
      BY <3>1, InsertView DEF Typed
    <3>3. QED
      BY <3>1, <3>2, RowsTyped DEF Numbers, Typed
  <2>2. Answer(x, "renewed", Len(rows')) \/ Answer(x, "ended", 0) \/ Answer(x, "refused", 0)
    BY <1>2 DEF RotationDone
  <2>3. QED
    BY <1>1, <1>2, <2>1, <2>2 DEF Answers, RotationDone, tabVars, callVars
<1>3. CASE ~RotationDone(x)
  <2>1. Answer(x, "ended", 0) \/ Answer(x, "refused", 0) \/ UNCHANGED net
    BY <1>3 DEF RefreshRefused, LogoutFails, RotationStep, RotationFails, Logout
  <2>2. UNCHANGED <<jar, out, tabVars, callVars>>
    BY <1>3 DEF RefreshRefused, LogoutFails, RotationStep, RotationFails, Logout
  <2>3. QED
    BY <1>1, <2>1, <2>2 DEF Answers, tabVars, callVars
<1>4. QED
  BY <1>2, <1>3

LEMMA AnswersKeep ==
  ASSUME NetTyped, NEW x \in Exchanges, Answers(x) \/ UNCHANGED net
  PROVE  \A y \in Exchanges : /\ net'[y].kind = net[y].kind /\ net'[y].tab = net[y].tab
                              /\ net'[y].carried = net[y].carried
                              /\ y # x => net'[y] = net[y]
<1>1. ASSUME NEW a \in {"renewed", "ended", "refused"}, NEW n \in Numbers, Answer(x, a, n)
      PROVE  \A y \in Exchanges : /\ net'[y].kind = net[y].kind /\ net'[y].tab = net[y].tab
                                  /\ net'[y].carried = net[y].carried
                                  /\ y # x => net'[y] = net[y]
  BY <1>1, AnswerFacts
<1>2. QED
  BY <1>1 DEF Answers

LEMMA ForgetFacts ==
  ASSUME NetTyped, NEW x \in Exchanges, Forget(x)
  PROVE  net'[x] = NoExchange /\ \A y \in Exchanges : y # x => net'[y] = net[y]
BY DEF Forget, NetTyped

(* Once an exchange is over for its tab, its number is free there too.      *)
LEMMA SettledFacts ==
  ASSUME Typed, NEW x \in Exchanges, Deliver(x) \/ ConnectionFails(x)
  PROVE  /\ \A t \in Tabs : inFlight'[t] = 0 \/ (inFlight'[t] = inFlight[t] /\ inFlight[t] # x)
         /\ \A y \in Exchanges : y # x => net'[y] = net[y]
<1>1. x \in Busy /\ net[x].tab \in Tabs
  BY DeliverWrites, ServerStep DEF Typed, Deliver, ConnectionFails, Exchange, NetTyped
<1>2. \A y \in Exchanges : y # x => net'[y] = net[y]
  BY <1>1, ForgetFacts, AbandonTyped, SameView
     DEF Typed, Deliver, ConnectionFails, serverVars
<1>3. CASE net[x].kind = "logout"
  <2>1. inFlight' = inFlight
    BY <1>3 DEF Deliver, ConnectionFails
  <2>2. \A t \in Tabs : inFlight[t] # 0 => inFlight[t] # x
    BY <1>3, FlightFacts
  <2>3. QED
    BY <1>2, <2>1, <2>2
<1>4. CASE net[x].kind # "logout"
  <2>1. Settled(net[x].tab)
    BY <1>4 DEF Deliver, ConnectionFails, Renewed, NotRenewed
  <2>2. inFlight' = [inFlight EXCEPT ![net[x].tab] = 0]
    BY <2>1 DEF Settled
  <2>3. \A t \in Tabs : t # net[x].tab => inFlight[t] = 0 \/ inFlight[t] # x
    BY FlightFacts
  <2>4. QED
    BY <1>1, <1>2, <2>2, <2>3 DEF Typed, TabsTyped
<1>5. QED
  BY <1>3, <1>4

LEMMA SharedStep ==
  ASSUME Typed, [Next]_vars
  PROVE  Shared'
<1> DEFINE Goal == \A t \in Tabs : inFlight'[t] # 0 =>
                     net'[inFlight'[t]].kind = "refresh" /\ net'[inFlight'[t]].tab = t
<1>1. ASSUME NEW t \in Tabs, NEW x \in Exchanges, x \notin Busy, net'[x].tab = t,
             net'[x].kind = "refresh", inFlight' = [inFlight EXCEPT ![t] = x],
             \A y \in Busy : net[y].tab # t => net'[y] = net[y]
      PROVE  Goal
  <2>1. inFlight'[t] = x /\ \A s \in Tabs : s # t => inFlight'[s] = inFlight[s]
    BY <1>1 DEF Typed, TabsTyped
  <2>2. \A s \in Tabs : s # t /\ inFlight[s] # 0 => net'[inFlight[s]] = net[inFlight[s]]
    BY <1>1, FlightFacts
  <2>3. QED
    BY <1>1, <2>1, <2>2, SharedKept
<1>2. ASSUME NEW c \in Calls, Asks(c) PROVE Goal
  <2>1. TabOf[c] \in Tabs /\ SendFree("refresh", TabOf[c])
        /\ inFlight' = [inFlight EXCEPT ![TabOf[c]] = Free]
    BY <1>2, TabOfTyped DEF Asks, SendRefresh
  <2>2. PICK x \in Exchanges :
          /\ x = Free /\ x \notin Busy /\ net'[x].kind = "refresh" /\ net'[x].tab = TabOf[c]
          /\ \A y \in Exchanges : y # x => net'[y] = net[y]
    BY <2>1, SendFacts DEF Typed
  <2>3. \A y \in Busy : net'[y] = net[y]
    BY <2>2 DEF Busy
  <2>4. QED
    BY <1>1, <2>1, <2>2, <2>3
<1>3. ASSUME NEW t \in Tabs, Mount(t) PROVE Goal
  <2>1. PICK x \in Exchanges : x = Free /\ x \notin Busy
    BY <1>3, MountFacts
  <2>2. net'[x] = Outgoing("refresh", t)
    BY <1>3, <2>1, MountFacts
  <2>3. \A y \in Busy : net[y].tab # t => net'[y] = net[y]
    BY <1>3, <2>1, MountFacts DEF Busy
  <2>4. inFlight' = [inFlight EXCEPT ![t] = x]
    BY <1>3, <2>1 DEF Mount
  <2>5. net'[x].tab = t /\ net'[x].kind = "refresh"
    BY <2>2 DEF Outgoing
  <2>6. QED
    BY <1>1, <2>1, <2>3, <2>4, <2>5
<1>4. ASSUME NEW t \in Tabs, SignOut(t) PROVE Goal
  <2>1. SendFree("logout", t) /\ UNCHANGED inFlight
    BY <1>4 DEF SignOut, tabVars
  <2>2. PICK x \in Exchanges :
          x \notin Busy /\ \A y \in Exchanges : y # x => net'[y] = net[y]
    BY <2>1, SendFacts DEF Typed
  <2>3. \A y \in Busy : net'[y] = net[y]
    BY <2>2 DEF Busy
  <2>4. QED
    BY <2>1, <2>3, SharedKept, FlightFacts
<1>5. ASSUME NEW x \in Exchanges, Deliver(x) \/ ConnectionFails(x) PROVE Goal
  BY <1>5, SettledFacts, SharedKept, FlightFacts
<1>6. ASSUME NEW x \in Exchanges, Discard(x) PROVE Goal
  <2>1. \A y \in Exchanges : y # x => net'[y] = net[y]
    BY <1>6, ForgetFacts DEF Discard, Typed
  <2>2. UNCHANGED inFlight /\ net[x].tab = NoTab
    BY <1>6 DEF Discard, tabVars
  <2>3. \A t \in Tabs : inFlight[t] # 0 => inFlight[t] # x /\ inFlight[t] \in Exchanges
    BY <2>2, FlightFacts, NoneIsNone
  <2>4. QED
    BY <2>1, <2>2, <2>3, SharedKept
<1>7. ASSUME NEW x \in Exchanges,
             RefreshRefused(x) \/ LogoutFails(x) \/ RotationStep(x) \/ RotationFails(x)
               \/ RotationDone(x) \/ Logout(x)
      PROVE  Goal
  <2>1. /\ \A y \in Exchanges : net'[y].kind = net[y].kind /\ net'[y].tab = net[y].tab
        /\ UNCHANGED inFlight
    BY <1>7, ServeAnswers, AnswersKeep DEF Typed
  <2>2. QED
    BY <2>1, SharedKept, FlightFacts
<1>8. ASSUME UNCHANGED <<net, inFlight>> PROVE Goal
  BY <1>8, SharedKept
<1>9. Goal
  BY <1>2, <1>3, <1>4, <1>5, <1>6, <1>7, <1>8, NextCases DEF OnlyCalls, tabVars, Login, EndedElsewhere
<1>10. QED
  BY <1>9, CallsStep DEF Shared, Typed

LEMMA TypedStep ==
  ASSUME Typed, [Next]_vars
  PROVE  Typed'
BY ServerStep, NetStep, TabsStep, SharedStep DEF Typed

LEMMA TypedInit ==
  ASSUME Init
  PROVE  Typed
<1>1. RP!Init
  BY DEF Init, R!Init, RP!Init, R!Tokens, RP!Tokens
<1>2. ServerInv
  <2>1. RP!IInv
    BY <1>1, RP!InitInv, RP!MaxTokensTyped
  <2>2. expired = {} /\ rows = <<>>
    BY <1>1 DEF RP!Init
  <2>3. QED
    BY <2>1, <2>2 DEF ServerInv
<1>3. Len(rows) = 0 /\ DOMAIN rows = {}
  BY <1>1 DEF RP!Init
<1>4. NoExchange \in Exchange /\ NoExchange.carried = 0 /\ NoExchange.token = 0
      /\ NoExchange.answer = "pending" /\ NoExchange.kind = "none"
  BY DEF NoExchange, Exchange, Numbers
<1>5. net = [x \in Exchanges |-> NoExchange] /\ \A x \in Exchanges : pc[x] = "idle"
  BY <1>1 DEF Init, RP!Init
<1>6. NetTyped
  <2> HIDE DEF NoExchange
  <2>1. QED
    BY <1>3, <1>4, <1>5 DEF NetTyped, Settling
<1>7. TabsTyped
  BY <1>3 DEF Init, TabsTyped
<1>8. Shared
  BY DEF Init, Shared
<1>9. QED
  BY <1>2, <1>6, <1>7, <1>8 DEF Typed

(* Typed states are those of the type invariant.                            *)
LEMMA TypedIsTypeOK ==
  ASSUME Typed
  PROVE  TypeOK
<1>1. R!TypeOK
  <2>1. RP!TypeOK
    BY DEF Typed, ServerInv, RP!IInv
  <2>2. QED
    BY <2>1 DEF RP!TypeOK, R!TypeOK, RP!Row, R!Row, RP!Tokens, R!Tokens
<1>2. 0 .. Len(rows) \subseteq Numbers
  BY RowsTyped DEF Typed, Numbers
<1>3. access \in [Tabs -> Numbers] /\ bearer \in [Calls -> Numbers]
  BY <1>2 DEF Typed, TabsTyped
<1>4. QED
  BY <1>1, <1>3 DEF Typed, NetTyped, TabsTyped, Shared, TypeOK

(* Every variable keeps its type, a tab's shared refresh is the one on the  *)
(* network, and a caller that waits has one to wait for, whatever is lost,  *)
(* abandoned or answered late: no promise of refreshOnce is left behind.    *)
THEOREM TypeCorrect == Spec => []TypeOK
<1>1. Spec => []Typed
  BY TypedInit, TypedStep, PTL DEF Spec
<1>2. QED
  BY <1>1, TypedIsTypeOK, PTL

LEMMA HandlerIsHandler ==
  ASSUME NEW x \in Exchanges, RP!Handler(x)
  PROVE  R!Handler(x)
<1>1. ASSUME NEW n \in RP!Tokens, RP!Refresh(x, n) PROVE n \in R!Tokens /\ R!Refresh(x, n)
  BY <1>1 DEF R!Refresh, R!AfterClaim, R!NotClaimed, R!Goto, R!Live, R!Mark, R!Tokens,
     RP!Refresh, RP!AfterClaim, RP!NotClaimed, RP!Goto, RP!Live, RP!Mark, RP!Tokens
<1>2. RP!Lookup(x) => R!Lookup(x)
  BY DEF R!Lookup, R!Goto, R!Done, RP!Lookup, RP!Goto, RP!Done
<1>3. RP!Kill(x) => R!Kill(x)
  BY DEF R!Kill, R!End, R!Done, R!Goto, R!Mark, R!Live, R!Rotating, R!Claims, R!Tokens,
     RP!Kill, RP!End, RP!Done, RP!Goto, RP!Mark, RP!Live, RP!Rotating, RP!Claims, RP!Tokens
<1>4. RP!Issue(x) => R!Issue(x)
  BY DEF R!Issue, R!Insert, R!Done, R!Goto, RP!Issue, RP!Insert, RP!Done, RP!Goto
<1>5. RP!CutOff(x) => R!CutOff(x)
  BY DEF R!CutOff, R!Done, R!Goto, RP!CutOff, RP!Done, RP!Goto
<1>6. QED
  BY <1>1, <1>2, <1>3, <1>4, <1>5 DEF RP!Handler, R!Handler

LEMMA NextIsNext ==
  ASSUME RP!Next
  PROVE  R!Next
<1>1. ASSUME NEW u \in Users, RP!Open(u) PROVE R!Open(u)
  BY <1>1 DEF R!Open, R!Insert, RP!Open, RP!Insert
<1>2. ASSUME NEW u \in Users, RP!EndAll(u) PROVE R!EndAll(u)
  BY <1>2 DEF R!EndAll, R!End, R!Live, R!Mark, R!Rotating, R!Claims, R!Tokens,
     RP!EndAll, RP!End, RP!Live, RP!Mark, RP!Rotating, RP!Claims, RP!Tokens
<1>3. ASSUME NEW t \in DOMAIN rows, RP!RevokeOne(t) PROVE R!RevokeOne(t)
  BY <1>3 DEF R!RevokeOne, R!Live, R!Mark, RP!RevokeOne, RP!Live, RP!Mark
<1>4. ASSUME NEW t \in DOMAIN rows, RP!Expire(t) PROVE R!Expire(t)
  BY <1>4 DEF R!Expire, RP!Expire
<1>5. RP!Prune => R!Prune
  BY DEF R!Prune, R!Mark, RP!Prune, RP!Mark
<1>6. RP!Crash => R!Crash
  BY DEF R!Crash, RP!Crash
<1>7. QED
  BY <1>1, <1>2, <1>3, <1>4, <1>5, <1>6, HandlerIsHandler DEF RP!Next, R!Next

(* What the client does to the server, with mishaps, abandoned handlers and *)
(* sessions that are ended elsewhere, is a behaviour of RefreshTokens, so   *)
(* that the rotation's guarantees hold under it.                            *)
THEOREM ServerIsRefreshTokens == Spec => R!Spec
<1>1. Init => R!Init
  BY DEF Init
<1>2. Spec => []Typed
  BY TypedInit, TypedStep, PTL DEF Spec
<1>3. Typed /\ [Next]_vars => [R!Next]_(R!vars)
  <2>1. SUFFICES ASSUME Typed, [Next]_vars PROVE R!Next \/ UNCHANGED R!vars
    OBVIOUS
  <2>2. RP!Next \/ UNCHANGED serverVars
    BY <2>1, ServerStep DEF Typed
  <2>3. QED
    BY <2>2, NextIsNext DEF serverVars, R!vars
<1>4. QED
  BY <1>1, <1>2, <1>3, PTL DEF Spec, R!Spec

-----------------------------------------------------------------------------
(* As long as no answer is lost and no two requests overlap, at most one    *)
(* exchange is under way and its tab waits for it.  Every token that is     *)
(* still in play - in the jar, carried, on its way back - is live, or its   *)
(* session was ended elsewhere and is over; the one in the jar may also be  *)
(* the one that the exchange under way has just spent.                      *)
Calm == excuse \cap {"lost", "overlap"} = {}
Finished(n) == Over(rows[n].family)
Good(n) == Live(n) \/ ("elsewhere" \in excuse /\ Finished(n))
Spends(x) == net[x].answer \in {"renewed", "ended"} \/ pc[x] = "issue"

Alone == \A x, y \in Busy : x = y
Awaited(x) ==
  net[x].tab # NoTab /\ (net[x].kind = "refresh" => inFlight[net[x].tab] = x)
Faithful(x) ==
  /\ \A n \in RP!Tokens :
       /\ net[x].carried = n /\ ~Spends(x) => Good(n)
       /\ net[x].token = n /\ net[x].answer = "renewed" => Good(n)
       /\ net[x].carried = n /\ net[x].kind = "logout" /\ net[x].answer = "ended" => Finished(n)
  /\ pc[x] \in {"lookup", "kill"} => "elsewhere" \in excuse
JarGood ==
  \A n \in RP!Tokens : jar = n =>
    Good(n) \/ \E x \in Busy : net[x].carried = n /\ Spends(x)
OutOver == \A f \in out : Over(f)

Quiet ==
  Calm => /\ Alone /\ \A x \in Busy : Awaited(x) /\ Faithful(x)
          /\ JarGood /\ OutOver

LEMMA FinishedMeans ==
  ASSUME KeepsNames, NEW n \in DOMAIN rows, NEW f, f = rows[n].family
  PROVE  (Finished(n) <=> Over(f)) /\ (Finished(n)' <=> Over(f)')
<1>1. rows'[n].family = f
  BY DEF KeepsNames
<1>2. QED
  BY <1>1 DEF Finished, Over

LEMMA StepFacts ==
  ASSUME Typed, [Next]_vars
  PROVE  /\ KeepsNames /\ excuse \subseteq excuse' /\ (RP!Next \/ UNCHANGED serverVars)
         /\ DOMAIN rows \subseteq RP!Tokens /\ 0 \notin RP!Tokens
         /\ DOMAIN rows' \subseteq RP!Tokens
         /\ \A n \in RP!Tokens : jar = n => n \in DOMAIN rows
         /\ \A n \in RP!Tokens, x \in Exchanges :
              net[x].carried = n \/ net[x].token = n => n \in DOMAIN rows
<1>1. KeepsNames /\ (RP!Next \/ UNCHANGED serverVars)
  BY ServerStep DEF Typed
<1>2. excuse \subseteq excuse'
  BY ExcuseStep
<1>3. DOMAIN rows \subseteq RP!Tokens /\ 0 \notin RP!Tokens
  BY RowsTyped DEF Typed, RP!Tokens
<1>4. DOMAIN rows' \subseteq RP!Tokens
  <2>1. rows' \in Seq(RP!Row) /\ Len(rows') <= MaxTokens
    BY ServerStep DEF Typed, ServerInv, RP!IInv, RP!TypeOK
  <2>2. DOMAIN rows' = 1 .. Len(rows') /\ Len(rows') \in Nat
    BY <2>1
  <2>3. QED
    BY <2>1, <2>2 DEF RP!Tokens
<1>5. ASSUME NEW n \in RP!Tokens, NEW x \in Exchanges,
             net[x].carried = n \/ net[x].token = n
      PROVE  n \in DOMAIN rows
  BY <1>3, <1>5, CarriedTyped DEF Typed
<1>6. ASSUME NEW n \in RP!Tokens, jar = n PROVE n \in DOMAIN rows
  BY <1>3, <1>6, RowsTyped DEF Typed, TabsTyped
<1>7. QED
  BY <1>1, <1>2, <1>3, <1>4, <1>5, <1>6

LEMMA FinishedStays ==
  ASSUME Typed, [Next]_vars, NEW n \in DOMAIN rows, Finished(n)
  PROVE  Finished(n)'
<1>1. PICK f \in RP!Tokens : f = rows[n].family /\ f \in DOMAIN rows
  BY RowsTyped DEF Typed
<1>2. QED
  BY <1>1, StepFacts, FinishedMeans, OverStays DEF Typed

LEMMA OutStays ==
  ASSUME Typed, [Next]_vars, OutOver
  PROVE  \A f \in out : Over(f)'
<1>1. \A f \in out : f \in DOMAIN rows /\ f \in RP!Tokens /\ Over(f)
  BY StepFacts DEF Typed, TabsTyped, OutOver
<1>2. QED
  BY <1>1, StepFacts, OverStays DEF Typed

LEMMA GoodStays ==
  ASSUME Typed, [Next]_vars, NEW n \in DOMAIN rows, Good(n), Live(n) => Live(n)'
  PROVE  Good(n)'
BY StepFacts, FinishedStays DEF Good

(* A token is spent by a claim, a logout, or the revocation of its session. *)
LEMMA RevokedFinishes ==
  ASSUME Typed, [Next]_vars, NEW T, rows' = RP!Mark(T, "revoked"), UNCHANGED <<pc, tok>>,
         NEW n \in DOMAIN rows, n \in T, Live(n)
  PROVE  Finished(n)'
<1>1. PICK f : f = rows[n].family
  OBVIOUS
<1>2. Over(f)'
  BY <1>1, RevokedIsOver DEF Typed
<1>3. QED
  BY <1>1, <1>2, StepFacts, FinishedMeans

LEMMA GoodStep ==
  ASSUME Typed, [Next]_vars, NEW n \in DOMAIN rows, Good(n)
  PROVE  \/ Good(n)'
         \/ \E x \in Exchanges : n = net[x].carried /\ (Claims(x) \/ Logout(x))
         \/ \E x \in Exchanges : Kills(x) /\ Live(n) /\ rows[n].family = rows[net[x].carried].family
<1>1. CASE UNCHANGED rows
  BY <1>1, GoodStays, SameView DEF Typed
<1>2. ASSUME NEW x \in Exchanges, RotationStep(x), ~UNCHANGED rows
      PROVE  \/ Good(n)'
             \/ n = net[x].carried /\ Claims(x)
             \/ Kills(x) /\ Live(n) /\ rows[n].family = rows[net[x].carried].family
  <2>1. CASE Claims(x)
    <3>1. n # net[x].carried => (Live(n) => Live(n)')
      BY <2>1, MarkView DEF Claims, Typed
    <3>2. QED
      BY <2>1, <3>1, GoodStays
  <2>2. CASE Kills(x)
    <3>1. Live(n)' <=> Live(n) /\ n \notin OfFamily(rows[net[x].carried].family)
      BY <2>2, MarkView DEF Kills, Typed
    <3>2. QED
      BY <2>2, <3>1, GoodStays DEF OfFamily
  <2>3. QED
    BY <1>2, <2>1, <2>2, RotationCases DEF Misses, Finds, Typed
<1>3. ASSUME NEW x \in Exchanges, RotationDone(x) PROVE Good(n)'
  <2>1. PICK u \in Users, f \in RP!Tokens : RP!Insert(u, f)
    BY <1>3, SuccessCases, RowsTyped DEF Typed
  <2>2. Live(n)' <=> Live(n)
    BY <2>1, InsertView DEF Typed
  <2>3. QED
    BY <2>2, GoodStays
<1>4. ASSUME NEW x \in Exchanges, Logout(x), ~UNCHANGED rows, n # net[x].carried
      PROVE  Good(n)'
  <2>1. rows' = RP!Mark({net[x].carried}, "revoked")
    BY <1>4, LogoutCases DEF Typed, serverVars
  <2>2. Live(n)' <=> Live(n)
    BY <1>4, <2>1, MarkView DEF Typed
  <2>3. QED
    BY <2>2, GoodStays
<1>5. ASSUME NEW t \in Tabs, NEW u \in Users, Login(t, u) PROVE Good(n)'
  <2>1. RP!Insert(u, Len(rows) + 1) /\ Len(rows) + 1 \in RP!Tokens
    BY <1>5, LoginCases, RowsTyped DEF RP!Insert, RP!Tokens, Typed
  <2>2. Live(n)' <=> Live(n)
    BY <2>1, InsertView DEF Typed
  <2>3. QED
    BY <2>2, GoodStays
<1>6. CASE EndedElsewhere
  <2>1. PICK T : rows' = RP!Mark(T, "revoked") /\ UNCHANGED <<pc, tok>>
    BY <1>6, ElsewhereCases DEF Typed
  <2>2. Live(n)' <=> Live(n) /\ n \notin T
    BY <2>1, MarkView DEF Typed
  <2>3. "elsewhere" \in excuse'
    BY <1>6 DEF EndedElsewhere, Excused
  <2>4. CASE Live(n) /\ n \in T
    BY <2>1, <2>3, <2>4, RevokedFinishes DEF Good
  <2>5. CASE ~(Live(n) /\ n \in T)
    BY <2>2, <2>5, GoodStays
  <2>6. QED
    BY <2>4, <2>5
<1>7. QED
  BY <1>1, <1>2, <1>3, <1>4, <1>5, <1>6, NextCases, FailureCases
     DEF Typed, serverVars, OnlyCalls, Asks, Rejected, SignOut, Mount, RefreshRefused, LogoutFails,
         Deliver, ConnectionFails, Discard

(* The one exchange under way is served; the tabs do not move.              *)
LEMMA ServedQuiet ==
  ASSUME Typed, [Next]_vars, Quiet, Calm, NEW x \in Busy,
         Answers(x) \/ UNCHANGED net, UNCHANGED <<jar, out, inFlight>>,
         \A n \in DOMAIN rows :
           /\ net[x].carried = n => Spends(x)' \/ Good(n)'
           /\ net[x].carried = n /\ net[x].kind = "logout" /\ net'[x].answer = "ended" => Finished(n)'
           /\ jar = n => Good(n)' \/ (net[x].carried = n /\ Spends(x)'),
         \A n \in RP!Tokens : net'[x].answer = "renewed" /\ net'[x].token = n => Good(n)',
         pc'[x] \in {"lookup", "kill"} => "elsewhere" \in excuse'
  PROVE  Quiet'
<1>1. /\ x \in Exchanges
      /\ net'[x].kind = net[x].kind /\ net'[x].tab = net[x].tab /\ net'[x].carried = net[x].carried
  BY AnswersKeep DEF Typed, Busy
<1>2. Busy' = Busy
  BY <1>1, AnswersKeep DEF Typed, Busy
<1>3. Alone /\ Awaited(x) /\ OutOver
  BY DEF Quiet
<1>4. Busy' = {x}
  BY <1>2, <1>3 DEF Alone
<1>5. Awaited(x)'
  BY <1>1, <1>3 DEF Awaited
<1>6. Faithful(x)'
  BY <1>1, StepFacts DEF Faithful
<1>7. JarGood'
  BY <1>1, <1>4, StepFacts DEF JarGood
<1>8. OutOver'
  BY <1>3, OutStays DEF OutOver
<1>9. Alone'
  BY <1>4 DEF Alone
<1>10. QED
  BY <1>4, <1>5, <1>6, <1>7, <1>8, <1>9 DEF Quiet

(* Where it stood: a token that was not spent is good, and the jar's token  *)
(* is good or just spent.                                                   *)
LEMMA QuietFacts ==
  ASSUME Typed, Quiet, Calm, NEW x \in Busy, NEW n \in DOMAIN rows
  PROVE  /\ net[x].carried = n /\ ~Spends(x) => Good(n)
         /\ jar = n => Good(n) \/ (net[x].carried = n /\ Spends(x))
         /\ pc[x] \in {"lookup", "kill"} => "elsewhere" \in excuse
<1>1. n \in RP!Tokens
  BY RowsTyped DEF Typed, RP!Tokens
<1>2. Faithful(x) /\ JarGood /\ \A y \in Busy : y = x
  BY DEF Quiet, Alone
<1>3. QED
  BY <1>1, <1>2 DEF Faithful, JarGood

LEMMA PendingIsBusy ==
  ASSUME Typed, NEW x \in Exchanges, Pending(x, "refresh") \/ Pending(x, "logout")
  PROVE  x \in Busy /\ (pc[x] # "issue" => ~Spends(x)) /\ (net[x].kind = "logout" => pc[x] = "idle")
BY DEF Typed, NetTyped, Settling, Pending, Busy, Spends

LEMMA ClaimQuiet ==
  ASSUME Typed, [Next]_vars, Quiet, Calm, NEW x \in Exchanges, RotationStep(x), Claims(x)
  PROVE  Quiet'
<1>1. x \in Busy /\ ~Spends(x) /\ net[x].kind = "refresh" /\ net[x].answer = "pending"
  BY PendingIsBusy DEF RotationStep, Claims, Pending
<1>2. pc'[x] = "issue" /\ UNCHANGED net
  BY PlaceFacts DEF Claims, Typed
<1>3. Spends(x)'
  BY <1>2 DEF Spends
<1>4. UNCHANGED <<jar, out, inFlight>>
  BY DEF RotationStep, tabVars
<1>5. ASSUME NEW n \in DOMAIN rows, jar = n, n # net[x].carried PROVE Good(n)'
  <2>1. Good(n)
    BY <1>1, <1>5, QuietFacts
  <2>2. Live(n) => Live(n)'
    BY <1>5, MarkView DEF Claims, Typed
  <2>3. QED
    BY <2>1, <2>2, GoodStays
<1>6. net'[x].answer = "pending"
  BY <1>1, <1>2
<1>7. QED
  BY <1>1, <1>2, <1>3, <1>4, <1>5, <1>6, ServedQuiet

LEMMA ReadQuiet ==
  ASSUME Typed, [Next]_vars, Quiet, Calm, NEW x \in Exchanges, RotationStep(x), Misses(x) \/ Finds(x)
  PROVE  Quiet'
<1>1. x \in Busy /\ ~Spends(x) /\ net[x].kind = "refresh" /\ net[x].answer = "pending"
  BY PendingIsBusy DEF RotationStep, Misses, Finds, Pending
<1>2. pc'[x] \in {"lookup", "kill"} /\ UNCHANGED <<net, rows>>
  BY PlaceFacts DEF Misses, Finds, Typed
<1>3. UNCHANGED <<jar, out, inFlight, excuse>>
  BY DEF RotationStep, tabVars
<1>4. \A n \in DOMAIN rows : Good(n) => Good(n)'
  BY <1>2, GoodStays, SameView DEF Typed
<1>5. "elsewhere" \in excuse
  <2>1. net[x].carried \in DOMAIN rows
    BY RotationCases DEF Typed
  <2>2. QED
    BY <1>1, <2>1, QuietFacts DEF Misses, Finds, Good
<1>6. QED
  BY <1>1, <1>2, <1>3, <1>4, <1>5, QuietFacts, ServedQuiet

LEMMA KillQuiet ==
  ASSUME Typed, [Next]_vars, Quiet, Calm, NEW x \in Exchanges, RotationStep(x), Kills(x)
  PROVE  Quiet'
<1>1. x \in Busy /\ ~Spends(x) /\ net[x].kind = "refresh"
  BY PendingIsBusy DEF RotationStep, Kills, Pending
<1>2. pc'[x] = "idle" /\ net'[x].answer = "ended" /\ Answers(x)
  <2>1. 0 \in Numbers
    BY DEF Numbers
  <2>2. QED
    BY <2>1, AnswerFacts, PlaceFacts DEF Kills, Answers, Typed
<1>3. Spends(x)'
  BY <1>2 DEF Spends
<1>4. UNCHANGED <<jar, out, inFlight>>
  BY DEF RotationStep, tabVars
<1>5. ASSUME NEW n \in DOMAIN rows, jar = n, n # net[x].carried PROVE Good(n)'
  <2>1. Good(n)
    BY <1>1, <1>5, QuietFacts
  <2>2. PICK m \in DOMAIN rows : m = net[x].carried
    BY RotationCases DEF Typed
  <2>3. Good(m)
    BY <1>1, <2>2, QuietFacts
  <2>4. ~(Live(n) /\ rows[n].family = rows[m].family)
    <3>1. SUFFICES ASSUME Live(n), rows[n].family = rows[m].family PROVE FALSE
      OBVIOUS
    <3>2. CASE Live(m)
      <4>1. n \in RP!LiveTokens(rows[n].family) /\ m \in RP!LiveTokens(rows[n].family)
        BY <3>1, <3>2 DEF RP!LiveTokens, RP!Live, Live
      <4>2. rows[n].family \in RP!Tokens /\ RP!OneHeirPerFamily
        BY RowsTyped DEF Typed, ServerInv, RP!IInv
      <4>3. QED
        BY <1>5, <2>2, <4>1, <4>2 DEF RP!OneHeirPerFamily
    <3>3. CASE Finished(m)
      BY <3>1, <3>3 DEF Finished, Over
    <3>4. QED
      BY <2>3, <3>2, <3>3 DEF Good
  <2>5. Live(n)' <=> Live(n) /\ n \notin OfFamily(rows[net[x].carried].family)
    BY MarkView DEF Kills, Typed
  <2>6. Live(n) => Live(n)'
    BY <2>2, <2>4, <2>5 DEF OfFamily
  <2>7. QED
    BY <2>1, <2>6, GoodStays
<1>6. QED
  BY <1>1, <1>2, <1>3, <1>4, <1>5, ServedQuiet

LEMMA FailQuiet ==
  ASSUME Typed, [Next]_vars, Quiet, Calm, NEW x \in Exchanges, RotationFails(x)
  PROVE  Quiet'
<1>1. x \in Busy /\ net[x].kind = "refresh"
  BY PendingIsBusy DEF RotationFails, Pending
<1>2. pc'[x] = "idle" /\ net'[x].answer = "ended" /\ Answers(x)
  <2>1. 0 \in Numbers
    BY DEF Numbers
  <2>2. QED
    BY <2>1, AnswerFacts, PlaceFacts, FailureCases DEF Answers, Typed
<1>3. Spends(x)'
  BY <1>2 DEF Spends
<1>4. UNCHANGED <<jar, out, inFlight>>
  BY DEF RotationFails, tabVars
<1>5. \A n \in DOMAIN rows : Good(n) => Good(n)'
  BY FailureCases, GoodStays, SameView DEF Typed
<1>6. QED
  BY <1>1, <1>2, <1>3, <1>4, <1>5, QuietFacts, ServedQuiet

LEMMA DoneQuiet ==
  ASSUME Typed, [Next]_vars, Quiet, Calm', NEW x \in Exchanges, RotationDone(x)
  PROVE  Quiet'
<1>0. Calm
  BY StepFacts DEF Calm
<1>1. x \in Busy /\ net[x].kind = "refresh" /\ UNCHANGED <<jar, out, inFlight>> /\ Answers(x)
  <2>1. net[x].answer = "pending" /\ net[x].kind = "refresh" /\ UNCHANGED <<jar, out, inFlight>>
    BY DEF RotationDone, Pending, tabVars
  <2>2. Answers(x)
    <3>1. Len(rows') \in Numbers /\ 0 \in Numbers
      BY ServerStep, TypedStep, RowsTyped DEF Typed, TabsTyped, Numbers, ServerInv, RP!IInv, RP!TypeOK,
         KeepsNames
    <3>2. QED
      BY <3>1 DEF RotationDone, Answers
  <2>3. QED
    BY <2>1, <2>2 DEF Busy
<1>2. PICK n0 \in RP!Tokens : /\ n0 = Len(rows') /\ n0 \in DOMAIN rows' /\ Live(n0)'
                              /\ \A n \in DOMAIN rows : Live(n)' <=> Live(n)
  <2>1. PICK u \in Users, f \in RP!Tokens : RP!Insert(u, f)
    BY SuccessCases, RowsTyped DEF Typed
  <2>2. Len(rows') \in DOMAIN rows' /\ rows'[Len(rows')].state = "live"
        /\ \A n \in DOMAIN rows : Live(n)' <=> Live(n)
    BY <2>1, InsertView DEF Typed
  <2>3. QED
    BY <2>2, StepFacts DEF Live
<1>3. Spends(x)' /\ pc'[x] = "idle"
      /\ (net'[x].answer = "renewed" => net'[x].token = n0)
      /\ net'[x].answer \in {"renewed", "ended"}
  <2>1. Answer(x, "renewed", n0) \/ Answer(x, "ended", 0)
    BY <1>2 DEF RotationDone, Excused, Calm
  <2>2. n0 \in Numbers /\ 0 \in Numbers
    BY DEF RP!Tokens, Numbers
  <2>3. \/ net'[x].answer = "renewed" /\ net'[x].token = n0
        \/ net'[x].answer = "ended"
    BY <2>1, <2>2, AnswerFacts DEF Typed
  <2>4. pc'[x] = "idle"
    BY SuccessCases, PlaceFacts DEF Typed
  <2>5. QED
    BY <2>3, <2>4 DEF Spends
<1>4. \A n \in DOMAIN rows : Good(n) => Good(n)'
  BY <1>2, GoodStays
<1>5. Good(n0)'
  BY <1>2 DEF Good
<1>6. QED
  BY <1>0, <1>1, <1>3, <1>4, <1>5, QuietFacts, ServedQuiet

LEMMA RefusedQuiet ==
  ASSUME Typed, [Next]_vars, Quiet, Calm, NEW x \in Exchanges, RefreshRefused(x) \/ LogoutFails(x)
  PROVE  Quiet'
<1>1. x \in Busy /\ ~Spends(x) /\ pc[x] = "idle" /\ UNCHANGED serverVars
  BY PendingIsBusy DEF RefreshRefused, LogoutFails, Pending
<1>2. net'[x].answer = "refused" /\ Answers(x)
  <2>1. 0 \in Numbers
    BY DEF Numbers
  <2>2. QED
    BY <2>1, AnswerFacts DEF RefreshRefused, LogoutFails, Answers, Typed
<1>3. pc'[x] = "idle"
  BY <1>1 DEF serverVars
<1>4. UNCHANGED <<jar, out, inFlight>>
  BY DEF RefreshRefused, LogoutFails, tabVars
<1>5. \A n \in DOMAIN rows : Good(n) => Good(n)'
  BY <1>1, GoodStays, SameView DEF Typed, serverVars
<1>6. QED
  BY <1>1, <1>2, <1>3, <1>4, <1>5, QuietFacts, ServedQuiet

LEMMA LogoutQuiet ==
  ASSUME Typed, [Next]_vars, Quiet, Calm, NEW x \in Exchanges, Logout(x)
  PROVE  Quiet'
<1>1. x \in Busy /\ ~Spends(x) /\ pc[x] = "idle" /\ net[x].kind = "logout"
  BY PendingIsBusy DEF Logout, Pending
<1>2. net'[x].answer = "ended" /\ Answers(x)
  <2>1. 0 \in Numbers
    BY DEF Numbers
  <2>2. QED
    BY <2>1, AnswerFacts DEF Logout, Answers, Typed
<1>3. pc'[x] = "idle" /\ Spends(x)' /\ UNCHANGED <<pc, tok>>
  BY <1>1, <1>2, LogoutCases DEF Typed, serverVars, Spends
<1>4. UNCHANGED <<jar, out, inFlight>>
  BY DEF Logout, tabVars
<1>5. ASSUME NEW n \in DOMAIN rows, jar = n, n # net[x].carried PROVE Good(n)'
  <2>1. Good(n)
    BY <1>1, <1>5, QuietFacts
  <2>2. Live(n) => Live(n)'
    <3>1. CASE rows' = RP!Mark({net[x].carried}, "revoked")
      BY <1>5, <3>1, MarkView DEF Typed
    <3>2. CASE UNCHANGED rows
      BY <3>2, SameView DEF Typed
    <3>3. QED
      BY <3>1, <3>2, LogoutCases DEF Typed, serverVars
  <2>3. QED
    BY <2>1, <2>2, GoodStays
<1>6. ASSUME NEW n \in DOMAIN rows, n = net[x].carried PROVE Finished(n)'
  <2>1. CASE Live(n)
    <3>1. rows' = RP!Mark({n}, "revoked")
      BY <1>6, <2>1, LogoutCases, StepFacts DEF Typed
    <3>2. QED
      BY <1>3, <2>1, <3>1, RevokedFinishes
  <2>2. CASE ~Live(n)
    <3>1. Finished(n)
      BY <1>1, <1>6, <2>2, QuietFacts DEF Good
    <3>2. QED
      BY <3>1, FinishedStays
  <2>3. QED
    BY <2>1, <2>2
<1>7. QED
  BY <1>1, <1>2, <1>3, <1>4, <1>5, <1>6, ServedQuiet

(* A request is sent while nothing is under way.                            *)
LEMMA SentQuiet ==
  ASSUME Typed, [Next]_vars, Quiet, Calm, Busy = {}, UNCHANGED <<serverVars, jar, out>>,
         NEW x \in Exchanges, NEW t \in Tabs, NEW kind \in {"refresh", "logout"},
         net'[x] = Outgoing(kind, t), \A y \in Exchanges : y # x => net'[y] = net[y],
         kind = "refresh" => inFlight'[t] = x
  PROVE  Quiet'
<1>1. /\ net'[x].kind = kind /\ net'[x].tab = t /\ net'[x].carried = jar
      /\ net'[x].answer = "pending" /\ t # NoTab
  BY NoneIsNone DEF Outgoing
<1>2. Busy' = {x}
  BY <1>1 DEF Busy
<1>3. pc'[x] = "idle"
  BY DEF Typed, NetTyped, Settling, Pending, Busy, serverVars
<1>4. ASSUME NEW n \in RP!Tokens, jar = n PROVE Good(n)'
  <2>1. n \in DOMAIN rows
    BY <1>4, StepFacts
  <2>2. Good(n)
    BY <1>4 DEF Quiet, JarGood
  <2>3. QED
    BY <2>1, <2>2, GoodStays, SameView DEF Typed, serverVars
<1>5. Awaited(x)' /\ Faithful(x)'
  BY <1>1, <1>3, <1>4 DEF Awaited, Faithful
<1>6. JarGood'
  BY <1>4 DEF JarGood
<1>7. OutOver'
  BY OutStays DEF Quiet, OutOver
<1>8. QED
  BY <1>2, <1>5, <1>6, <1>7 DEF Quiet, Alone

LEMMA SendQuiet ==
  ASSUME Typed, [Next]_vars, Quiet, Calm',
         (\E c \in Calls : Asks(c)) \/ \E t \in Tabs : SignOut(t) \/ Mount(t)
  PROVE  Quiet' /\ Busy = {}
<1>0. Calm
  BY StepFacts DEF Calm
<1>1. ASSUME NEW kind \in {"refresh", "logout"}, NEW t \in Tabs, SendFree(kind, t), NEW y \in Busy
      PROVE  net[y].tab = t /\ net[y].kind # "logout" /\ kind # "logout"
  BY <1>1 DEF SendFree, Send, Excused, When, Calm
<1>2. ASSUME NEW c \in Calls, Asks(c) PROVE Quiet' /\ Busy = {}
  <2>1. PICK t \in Tabs : /\ t = TabOf[c] /\ SendFree("refresh", t) /\ inFlight[t] = 0
                          /\ inFlight' = [inFlight EXCEPT ![t] = Free]
    BY <1>2, TabOfTyped DEF Asks, SendRefresh
  <2>2. UNCHANGED <<serverVars, jar, out>>
    BY <1>2 DEF Asks, Rejected
  <2>3. Busy = {}
    <3>1. SUFFICES ASSUME NEW y \in Busy PROVE FALSE
      OBVIOUS
    <3>2. net[y].tab = t /\ net[y].kind = "refresh" /\ y \in Exchanges
      BY <1>1, <2>1 DEF Typed, NetTyped, Exchange, Busy
    <3>3. inFlight[t] = y
      BY <1>0, <3>2 DEF Quiet, Awaited
    <3>4. QED
      BY <2>1, <3>2, <3>3 DEF Exchanges
  <2>4. PICK x \in Exchanges :
          /\ x = Free /\ net'[x] = Outgoing("refresh", t)
          /\ \A y \in Exchanges : y # x => net'[y] = net[y]
    BY <2>1, SendFacts DEF Typed
  <2>5. inFlight'[t] = x
    BY <2>1, <2>4 DEF Typed, TabsTyped
  <2>6. QED
    BY <1>0, <2>2, <2>3, <2>4, <2>5, SentQuiet
<1>3. ASSUME NEW t \in Tabs, SignOut(t) PROVE Quiet' /\ Busy = {}
  <2>1. SendFree("logout", t) /\ UNCHANGED <<serverVars, jar, out>>
    BY <1>3 DEF SignOut
  <2>2. Busy = {}
    BY <1>1, <2>1
  <2>3. PICK x \in Exchanges :
          /\ net'[x] = Outgoing("logout", t)
          /\ \A y \in Exchanges : y # x => net'[y] = net[y]
    BY <2>1, SendFacts DEF Typed
  <2>4. QED
    BY <1>0, <2>1, <2>2, <2>3, SentQuiet
<1>4. ASSUME NEW t \in Tabs, Mount(t) PROVE Quiet' /\ Busy = {}
  <2>1. Busy = {}
    BY <1>4, MountFacts DEF Calm
  <2>2. UNCHANGED <<serverVars, jar, out>> /\ inFlight' = [inFlight EXCEPT ![t] = Free]
    BY <1>4 DEF Mount
  <2>3. PICK x \in Exchanges : x = Free /\ net'[x] = Outgoing("refresh", t)
    BY <1>4, MountFacts
  <2>4. \A y \in Exchanges : y # x => net'[y] = net[y]
    BY <1>4, <2>1, <2>3, MountFacts
  <2>5. inFlight'[t] = x
    BY <2>2, <2>3 DEF Typed, TabsTyped
  <2>6. QED
    BY <1>0, <2>1, <2>2, <2>3, <2>4, <2>5, SentQuiet
<1>5. QED
  BY <1>2, <1>3, <1>4

(* The answer arrives: nothing is left under way.                           *)
LEMMA DeliverQuiet ==
  ASSUME Typed, [Next]_vars, Quiet, Calm, NEW x \in Exchanges, Deliver(x)
  PROVE  Quiet' /\ Busy' = {}
<1>1. x \in Busy /\ net[x].answer # "pending" /\ UNCHANGED serverVars
      /\ net'[x] = NoExchange /\ \A y \in Exchanges : y # x => net'[y] = net[y]
  BY ForgetFacts DEF Deliver, Typed
<1>2. Busy' = {}
  BY <1>1 DEF Quiet, Alone, Busy, NoExchange
<1>3. pc[x] = "idle" /\ Faithful(x)
  BY <1>1 DEF Typed, NetTyped, Settling, Pending, Quiet
<1>4. \A n \in DOMAIN rows : (Good(n) => Good(n)') /\ (Finished(n) => Finished(n)')
  BY <1>1, GoodStays, FinishedStays, SameView DEF Typed, serverVars
<1>5. JarGood'
  <2>1. SUFFICES ASSUME NEW n \in RP!Tokens, jar' = n PROVE Good(n)'
    BY DEF JarGood
  <2>2. n # 0
    BY StepFacts
  <2>3. CASE net[x].answer = "renewed"
    <3>1. net[x].token = n /\ n \in DOMAIN rows
      BY <2>1, <2>3, StepFacts DEF Deliver
    <3>2. QED
      BY <1>3, <1>4, <2>3, <3>1 DEF Faithful
  <2>4. CASE net[x].answer # "renewed"
    <3>1. jar = n /\ net[x].answer # "ended" /\ n \in DOMAIN rows
      BY <2>1, <2>2, <2>4, StepFacts DEF Deliver
    <3>2. ~Spends(x)
      BY <1>3, <2>4, <3>1 DEF Spends
    <3>3. QED
      BY <1>1, <1>4, <3>1, <3>2, QuietFacts
  <2>5. QED
    BY <2>3, <2>4
<1>6. OutOver'
  <2>1. SUFFICES ASSUME NEW f \in out' PROVE Over(f)'
    BY DEF OutOver
  <2>2. CASE f \in out
    BY <2>2, OutStays DEF Quiet
  <2>3. CASE f \notin out
    <3>1. PICK n \in DOMAIN rows : /\ n = net[x].carried /\ f = rows[n].family
                                   /\ net[x].answer = "ended" /\ net[x].kind = "logout"
      BY <2>1, <2>3, CarriedTyped DEF Deliver, Typed
    <3>2. Finished(n)'
      BY <1>3, <1>4, <3>1, StepFacts DEF Faithful
    <3>3. QED
      BY <3>1, <3>2, StepFacts, FinishedMeans
  <2>4. QED
    BY <2>2, <2>3
<1>7. QED
  BY <1>2, <1>5, <1>6 DEF Quiet, Alone

LEMMA LoginQuiet ==
  ASSUME Typed, [Next]_vars, Quiet, Calm, NEW t \in Tabs, NEW u \in Users, Login(t, u)
  PROVE  Quiet'
<1>1. PICK n0 \in RP!Tokens : n0 = Len(rows') /\ Live(n0)' /\ UNCHANGED <<pc, tok>>
                              /\ \A n \in DOMAIN rows : Live(n)' <=> Live(n)
  <2>1. /\ RP!Insert(u, Len(rows) + 1) /\ Len(rows) + 1 \in RP!Tokens
        /\ UNCHANGED <<pc, tok>>
    BY LoginCases, RowsTyped DEF RP!Insert, RP!Tokens, Typed
  <2>2. Len(rows') \in DOMAIN rows' /\ rows'[Len(rows')].state = "live"
        /\ \A n \in DOMAIN rows : Live(n)' <=> Live(n)
    BY <2>1, InsertView DEF Typed
  <2>3. QED
    BY <2>1, <2>2, StepFacts DEF Live
<1>2. jar' = n0 /\ UNCHANGED <<net, inFlight, out>> /\ excuse \subseteq excuse'
  BY <1>1, StepFacts DEF Login
<1>3. \A n \in DOMAIN rows : (Good(n) => Good(n)') /\ (Finished(n) => Finished(n)')
  BY <1>1, GoodStays, FinishedStays
<1>4. \A x \in Busy : Awaited(x)' /\ Faithful(x)'
  BY <1>1, <1>2, <1>3, StepFacts DEF Quiet, Awaited, Faithful, Spends, Busy
<1>5. JarGood'
  BY <1>1, <1>2 DEF JarGood, Good
<1>6. OutOver'
  BY <1>2, OutStays DEF Quiet, OutOver
<1>7. Busy' = Busy /\ Alone'
  BY <1>2 DEF Quiet, Alone, Busy
<1>8. QED
  BY <1>4, <1>5, <1>6, <1>7 DEF Quiet

LEMMA ElsewhereQuiet ==
  ASSUME Typed, [Next]_vars, Quiet, Calm, EndedElsewhere
  PROVE  Quiet'
<1>1. UNCHANGED <<pc, tok, net, jar, inFlight, out>> /\ excuse \subseteq excuse'
  BY ElsewhereCases, StepFacts DEF EndedElsewhere, tabVars, Typed
<1>2. \A n \in DOMAIN rows : Good(n) => Good(n)'
  <2>1. PICK T : rows' = RP!Mark(T, "revoked")
    BY ElsewhereCases DEF Typed
  <2>2. "elsewhere" \in excuse'
    BY DEF EndedElsewhere, Excused
  <2>3. ASSUME NEW n \in DOMAIN rows, Good(n) PROVE Good(n)'
    <3>1. CASE Live(n) /\ n \in T
      BY <1>1, <2>1, <2>2, <3>1, RevokedFinishes DEF Good
    <3>2. CASE ~(Live(n) /\ n \in T)
      BY <2>1, <2>3, <3>2, MarkView, GoodStays DEF Typed
    <3>3. QED
      BY <3>1, <3>2
  <2>4. QED
    BY <2>3
<1>3. \A n \in DOMAIN rows : Finished(n) => Finished(n)'
  BY FinishedStays
<1>4. ASSUME NEW x \in Busy PROVE Awaited(x)' /\ Faithful(x)'
  <2>1. Awaited(x) /\ Faithful(x) /\ x \in Exchanges
    BY DEF Quiet, Busy
  <2>2. Awaited(x)' /\ (Spends(x)' <=> Spends(x))
    BY <1>1, <2>1 DEF Awaited, Spends
  <2>3. QED
    BY <1>1, <1>2, <1>3, <2>1, <2>2, StepFacts DEF Faithful
<1>5. Busy' = Busy /\ Alone'
  BY <1>1 DEF Quiet, Alone, Busy
<1>6. JarGood'
  <2>1. SUFFICES ASSUME NEW n \in RP!Tokens, jar = n
                 PROVE  Good(n)' \/ \E x \in Busy' : net'[x].carried = n /\ Spends(x)'
    BY <1>1 DEF JarGood
  <2>2. n \in DOMAIN rows /\ (Good(n) \/ \E x \in Busy : net[x].carried = n /\ Spends(x))
    BY <2>1, StepFacts DEF Quiet, JarGood
  <2>3. \A x \in Busy : net'[x].carried = net[x].carried /\ (Spends(x)' <=> Spends(x))
    BY <1>1 DEF Spends
  <2>4. QED
    BY <1>2, <1>5, <2>2, <2>3
<1>7. OutOver'
  BY <1>1, OutStays DEF Quiet, OutOver
<1>8. QED
  BY <1>4, <1>5, <1>6, <1>7 DEF Quiet

LEMMA QuietStep ==
  ASSUME Typed, [Next]_vars, Quiet
  PROVE  Quiet'
<1>1. SUFFICES ASSUME Calm' PROVE Quiet'
  BY DEF Quiet
<1>2. Calm
  BY <1>1, StepFacts DEF Calm
<1>3. CASE OnlyCalls
  BY <1>2, <1>3 DEF Quiet, Calm, Alone, Awaited, Faithful, JarGood, OutOver, Good, Finished, Over, Live,
     Spends, Busy, OnlyCalls, serverVars, tabVars
<1>4. CASE \E x \in Exchanges : RotationStep(x)
  BY <1>2, <1>4, ClaimQuiet, ReadQuiet, KillQuiet, RotationCases DEF Typed
<1>5. ASSUME NEW x \in Exchanges, ConnectionFails(x) PROVE FALSE
  BY <1>1, <1>5 DEF ConnectionFails, Excused, Calm
<1>6. ASSUME NEW x \in Exchanges, Discard(x) PROVE FALSE
  BY <1>2, <1>6 DEF Discard, Quiet, Awaited
<1>7. QED
  BY <1>1, <1>2, <1>3, <1>4, <1>5, <1>6, FailQuiet, DoneQuiet, RefusedQuiet, LogoutQuiet, SendQuiet,
     DeliverQuiet, LoginQuiet, ElsewhereQuiet, NextCases

LEMMA QuietInit ==
  ASSUME Init
  PROVE  Quiet
<1>1. Busy = {} /\ jar = 0 /\ out = {}
  BY DEF Init, Busy, NoExchange
<1>2. \A n \in RP!Tokens : jar # n
  BY <1>1 DEF RP!Tokens
<1>3. QED
  BY <1>1, <1>2 DEF Quiet, Alone, JarGood, OutOver

LEMMA QuietAlways == Spec => [](Typed /\ Quiet)
<1>1. Init => Typed /\ Quiet
  BY TypedInit, QuietInit
<1>2. (Typed /\ Quiet) /\ [Next]_vars => (Typed /\ Quiet)'
  BY TypedStep, QuietStep
<1>3. QED
  BY <1>1, <1>2, PTL DEF Spec

(* The client never brings reuse detection down on its own user: as long as *)
(* no answer was lost, no requests overlapped and the session was not ended *)
(* elsewhere, no handler of rotateRefreshToken gets as far as revokeFamily. *)
THEOREM FalseAlarmNeedsAMishap == Spec => []NoFalseAlarm
<1>1. Typed /\ Quiet => NoFalseAlarm
  <2>1. SUFFICES ASSUME Typed, Quiet, NEW x \in Exchanges, pc[x] = "kill",
                        excuse \cap {"lost", "overlap", "elsewhere"} = {}
                 PROVE  FALSE
    BY DEF NoFalseAlarm
  <2>2. x \in Busy
    BY <2>1 DEF Typed, NetTyped, Settling, Pending, Busy
  <2>3. Calm
    BY <2>1 DEF Calm
  <2>4. Faithful(x)
    BY <2>1, <2>2, <2>3 DEF Quiet
  <2>5. QED
    BY <2>1, <2>4 DEF Faithful
<1>2. QED
  BY <1>1, QuietAlways, PTL

(* Who has logged out stays out: no token of the session is live, unless a  *)
(* refresh overlapped or an answer was lost, so that POST /logout named an  *)
(* older token.                                                             *)
THEOREM LogoutEndsTheSession == Spec => []LogoutWins
<1>1. Typed /\ Quiet => LogoutWins
  <2>1. SUFFICES ASSUME Typed, Quiet, excuse \cap {"lost", "overlap"} = {}, NEW f \in out
                 PROVE  R!LiveTokens(f) = {}
    BY DEF LogoutWins
  <2>2. Over(f)
    BY <2>1 DEF Quiet, Calm, OutOver
  <2>3. QED
    BY <2>2 DEF Over, Live, R!LiveTokens, R!Live
<1>2. QED
  BY <1>1, QuietAlways, PTL

-----------------------------------------------------------------------------
(* Whose tokens are in play: the users the tabs show, the owners of the     *)
(* tokens in the jar and on the network.                                    *)
Held(n) == jar = n \/ \E x \in Busy : net[x].carried = n \/ net[x].token = n
Acts(u) ==
  \/ \E t \in Tabs : user[t] = u
  \/ \E n \in RP!Tokens : Held(n) /\ rows[n].user = u
OneUser == "switched" \notin excuse => \A u, v \in Users : Acts(u) /\ Acts(v) => u = v
Match ==
  "switched" \notin excuse =>
    \A t \in Tabs, n \in RP!Tokens : user[t] # NoUser /\ access[t] = n => rows[n].user = user[t]

LEMMA HeldIsIssued ==
  ASSUME Typed, [Next]_vars, NEW n \in RP!Tokens, Held(n)
  PROVE  n \in DOMAIN rows /\ rows[n].user \in Users /\ rows'[n].user = rows[n].user
<1>1. n \in DOMAIN rows
  BY StepFacts DEF Held, Busy
<1>2. QED
  BY <1>1, StepFacts, RowsTyped DEF KeepsNames, Typed

(* No step but a login brings a token into play, except the successor of    *)
(* one that was.                                                            *)
LEMMA HeldStep ==
  ASSUME Typed, [Next]_vars, NEW n \in RP!Tokens, Held(n)',
         ~\E t \in Tabs, u \in Users : Login(t, u)
  PROVE  Held(n) \/ \E m \in RP!Tokens : Held(m) /\ rows'[n].user = rows[m].user
<1>0. n # 0 /\ NoExchange.carried = 0 /\ NoExchange.token = 0 /\ NoExchange.kind = "none"
  BY StepFacts DEF NoExchange
<1>1. CASE UNCHANGED <<jar, net>>
  BY <1>1 DEF Held, Busy
<1>2. ASSUME NEW x \in Exchanges, UNCHANGED jar, x \notin Busy, net'[x].carried = jar, net'[x].token = 0,
             \A y \in Exchanges : y # x => net'[y].carried = net[y].carried
                                           /\ net'[y].token = net[y].token /\ net'[y].kind = net[y].kind
      PROVE  Held(n)
  BY <1>0, <1>2 DEF Held, Busy
<1>3. CASE (\E c \in Calls : Asks(c)) \/ \E t \in Tabs : SignOut(t)
  <2>1. PICK t \in Tabs, kind \in {"refresh", "logout"} : SendFree(kind, t) /\ UNCHANGED jar
    BY <1>3, TabOfTyped DEF Asks, SendRefresh, Rejected, SignOut
  <2>2. PICK x \in Exchanges : /\ x \notin Busy /\ net'[x] = Outgoing(kind, t)
                               /\ \A y \in Exchanges : y # x => net'[y] = net[y]
    BY <2>1, SendFacts DEF Typed
  <2>3. net'[x].carried = jar /\ net'[x].token = 0
    BY <2>2 DEF Outgoing
  <2>4. QED
    BY <1>2, <2>1, <2>2, <2>3
<1>4. ASSUME NEW t \in Tabs, Mount(t) PROVE Held(n)
  <2>1. PICK x \in Exchanges : x = Free /\ x \notin Busy /\ net'[x] = Outgoing("refresh", t)
    BY <1>4, MountFacts
  <2>2. net'[x].carried = jar /\ net'[x].token = 0 /\ UNCHANGED jar
    BY <1>4, <2>1 DEF Outgoing, Mount
  <2>3. ASSUME NEW y \in Exchanges, y # x
        PROVE  net'[y].carried = net[y].carried /\ net'[y].token = net[y].token
               /\ net'[y].kind = net[y].kind
    <3>1. net'[y] = [net[y] EXCEPT !.tab = NoTab] \/ net'[y] = net[y]
      BY <1>4, <2>1, <2>3, MountFacts
    <3>2. net[y] \in Exchange
      BY DEF Typed, NetTyped
    <3>3. QED
      BY <3>1, <3>2 DEF Exchange
  <2>4. QED
    BY <1>2, <2>1, <2>2, <2>3
<1>5. ASSUME NEW x \in Exchanges, Answer(x, "ended", 0) \/ Answer(x, "refused", 0), UNCHANGED jar,
             net[x].kind # "none"
      PROVE  Held(n)
  <2>1. 0 \in Numbers
    BY DEF Numbers
  <2>2. /\ net'[x].carried = net[x].carried /\ net'[x].token = 0
        /\ \A y \in Exchanges : y # x => net'[y] = net[y]
    BY <1>5, <2>1, AnswerFacts DEF Typed
  <2>3. QED
    BY <1>0, <1>5, <2>2 DEF Held, Busy
<1>6. ASSUME NEW x \in Exchanges, RotationDone(x), Answer(x, "renewed", Len(rows'))
      PROVE  Held(n) \/ \E m \in RP!Tokens : Held(m) /\ rows'[n].user = rows[m].user
  <2>1. PICK m \in DOMAIN rows : /\ m = net[x].carried
                                 /\ RP!Insert(rows[m].user, rows[m].family)
    BY <1>6, SuccessCases DEF Typed
  <2>2. rows'[Len(rows')].user = rows[m].user
    BY <2>1, RowsTyped, InsertView DEF Typed
  <2>3. m \in RP!Tokens /\ Held(m) /\ x \in Busy
    BY <1>6, <2>1, StepFacts DEF Held, Busy, RotationDone, Pending
  <2>4. Len(rows') \in Numbers
    BY TypedStep DEF Typed, ServerInv, RP!IInv, RP!TypeOK, Numbers, KeepsNames
  <2>5. /\ net'[x].carried = net[x].carried /\ net'[x].token = Len(rows')
        /\ \A y \in Exchanges : y # x => net'[y] = net[y]
    BY <1>6, <2>4, AnswerFacts DEF Typed
  <2>6. Held(n) \/ n = Len(rows')
    <3>1. UNCHANGED jar
      BY <1>6 DEF RotationDone
    <3>2. QED
      BY <2>3, <2>5, <3>1 DEF Held, Busy
  <2>7. QED
    BY <2>2, <2>3, <2>6
<1>7. ASSUME NEW x \in Exchanges, Deliver(x) PROVE Held(n)
  <2>1. x \in Busy /\ jar' \in {net[x].token, 0, jar} /\ Forget(x)
    BY <1>7 DEF Deliver
  <2>2. net'[x] = NoExchange /\ \A y \in Exchanges : y # x => net'[y] = net[y]
    BY <2>1, ForgetFacts DEF Typed
  <2>3. QED
    BY <1>0, <2>1, <2>2 DEF Held, Busy
<1>8. ASSUME NEW x \in Exchanges, Discard(x) PROVE Held(n)
  <2>1. net'[x] = NoExchange /\ UNCHANGED jar /\ \A y \in Exchanges : y # x => net'[y] = net[y]
    BY <1>8, ForgetFacts DEF Discard, Typed
  <2>2. QED
    BY <1>0, <2>1 DEF Held, Busy
<1>9. ASSUME NEW x \in Exchanges, ConnectionFails(x) PROVE Held(n)
  <2>1. x \in Busy /\ net' = [net EXCEPT ![x].tab = NoTab] /\ UNCHANGED <<serverVars, jar>>
    BY <1>9 DEF ConnectionFails
  <2>2. /\ net'[x].carried = net[x].carried /\ net'[x].token = net[x].token
        /\ \A y \in Exchanges : y # x => net'[y] = net[y]
    BY <2>1, AbandonTyped, StepFacts DEF Typed
  <2>3. QED
    BY <2>1, <2>2 DEF Held, Busy
<1>10. CASE \E x \in Exchanges : RefreshRefused(x) \/ LogoutFails(x) \/ RotationFails(x) \/ Logout(x)
  BY <1>5, <1>10 DEF RefreshRefused, LogoutFails, RotationFails, Logout, Pending
<1>11. ASSUME NEW x \in Exchanges, RotationDone(x)
       PROVE  Held(n) \/ \E m \in RP!Tokens : Held(m) /\ rows'[n].user = rows[m].user
  <2>1. net[x].kind # "none" /\ UNCHANGED jar
    BY <1>11 DEF RotationDone, Pending
  <2>2. Answer(x, "renewed", Len(rows')) \/ Answer(x, "ended", 0) \/ Answer(x, "refused", 0)
    BY <1>11 DEF RotationDone
  <2>3. QED
    BY <1>5, <1>6, <1>11, <2>1, <2>2
<1>12. ASSUME NEW x \in Exchanges, RotationStep(x) PROVE Held(n)
  <2>1. net[x].kind # "none" /\ UNCHANGED jar
    BY <1>12 DEF RotationStep, Pending
  <2>2. CASE UNCHANGED net
    BY <2>1, <2>2 DEF Held, Busy
  <2>3. CASE Answer(x, "ended", 0)
    BY <1>5, <2>1, <2>3
  <2>4. QED
    BY <1>12, <2>2, <2>3 DEF RotationStep
<1>13. QED
  BY <1>1, <1>3, <1>4, <1>7, <1>8, <1>9, <1>10, <1>11, <1>12, NextCases
     DEF OnlyCalls, EndedElsewhere

(* A tab goes on showing its user, or shows none, or the owner of a token   *)
(* that was in play.                                                        *)
LEMMA ShownStep ==
  ASSUME Typed, [Next]_vars, ~\E t \in Tabs, u \in Users : Login(t, u), NEW t \in Tabs
  PROVE  \/ user'[t] \in {user[t], NoUser} /\ access'[t] \in {access[t], 0}
         \/ \E n \in RP!Tokens : /\ Held(n) /\ access'[t] = n
                                 /\ user'[t] = user[t] \/ user'[t] = rows[n].user
<1> DEFINE Goal == \/ user'[t] \in {user[t], NoUser} /\ access'[t] \in {access[t], 0}
                   \/ \E n \in RP!Tokens : /\ Held(n) /\ access'[t] = n
                                           /\ user'[t] = user[t] \/ user'[t] = rows[n].user
<1>0. access \in [Tabs -> 0 .. Len(rows)] /\ user \in [Tabs -> Users \cup {NoUser}]
  BY DEF Typed, TabsTyped
<1>1. ASSUME UNCHANGED <<access, user>> PROVE Goal
  BY <1>1
<1>2. ASSUME NEW s \in Tabs, access' = access \/ access' = [access EXCEPT ![s] = 0],
             user' = [user EXCEPT ![s] = NoUser]
      PROVE  Goal
  BY <1>0, <1>2
<1>3. ASSUME NEW x \in Exchanges, Deliver(x) \/ ConnectionFails(x) PROVE Goal
  <2>1. net[x].tab \in Tabs
    BY <1>3, DeliverWrites, StepFacts DEF Typed
  <2>2. CASE Deliver(x) /\ net[x].kind = "refresh" /\ net[x].answer = "renewed"
    <3>1. PICK n \in RP!Tokens : n = net[x].token /\ Held(n)
      <4>1. net[x].token \in DOMAIN rows /\ x \in Busy
        BY <2>2, CarriedTyped DEF Typed, NetTyped, Settling, Deliver
      <4>2. QED
        BY <4>1, StepFacts DEF Held
    <3>2. Renewed(net[x].tab, n)
      BY <2>2, <3>1 DEF Deliver
    <3>3. /\ access' = [access EXCEPT ![net[x].tab] = n]
          /\ user' = user \/ user' = [user EXCEPT ![net[x].tab] = rows[n].user]
      BY <3>2 DEF Renewed
    <3>4. QED
      BY <1>0, <2>1, <3>1, <3>3
  <2>3. CASE ~(Deliver(x) /\ net[x].kind = "refresh" /\ net[x].answer = "renewed")
    <3>1. clear(net[x].tab) \/ \E heard \in {TRUE, FALSE} : NotRenewed(net[x].tab, heard)
      BY <1>3, <2>3 DEF Deliver, ConnectionFails
    <3>2. /\ access' = access \/ access' = [access EXCEPT ![net[x].tab] = 0]
          /\ user' = [user EXCEPT ![net[x].tab] = NoUser]
      BY <3>1 DEF clear, NotRenewed
    <3>3. QED
      BY <1>2, <2>1, <3>2
  <2>4. QED
    BY <2>2, <2>3
<1>4. ASSUME NEW s \in Tabs, Mount(s) PROVE Goal
  BY <1>2, <1>4 DEF Mount
<1>5. Goal
  BY <1>1, <1>3, <1>4, NextCases
     DEF OnlyCalls, Asks, Rejected, SignOut, RefreshRefused, LogoutFails, RotationStep, RotationFails,
         RotationDone, Logout, Discard, EndedElsewhere, tabVars
<1>6. QED
  BY <1>5

LEMMA ActsStep ==
  ASSUME Typed, [Next]_vars, NEW v \in Users, Acts(v)',
         ~\E t \in Tabs, u \in Users : Login(t, u)
  PROVE  Acts(v)
<1>1. ASSUME NEW t \in Tabs, user'[t] = v PROVE Acts(v)
  BY <1>1, ShownStep, NoneIsNone DEF Acts
<1>2. ASSUME NEW n \in RP!Tokens, Held(n)', rows'[n].user = v PROVE Acts(v)
  BY <1>2, HeldStep, HeldIsIssued DEF Acts
<1>3. QED
  BY <1>1, <1>2 DEF Acts

(* A login that finds other users, or an exchange under way, is excused.    *)
LEMMA LoginFacts ==
  ASSUME Typed, [Next]_vars, NEW t \in Tabs, NEW u \in Users, Login(t, u), "switched" \notin excuse'
  PROVE  /\ Busy = {} /\ UNCHANGED net
         /\ \A s \in Tabs : user'[s] \in {u, NoUser} /\ (s # t => access'[s] = access[s] /\ user'[s] = user[s])
         /\ user'[t] = u /\ access'[t] = jar' /\ rows'[jar'].user = u
<1>1. Busy = {} /\ \A s \in Tabs \ {t} : user[s] \in {u, NoUser}
  BY DEF Login, Excused, When
<1>2. access' = [access EXCEPT ![t] = Len(rows')] /\ user' = [user EXCEPT ![t] = u]
      /\ jar' = Len(rows') /\ UNCHANGED net
  BY DEF Login, setSession
<1>3. RP!Insert(u, Len(rows) + 1) /\ Len(rows) + 1 \in RP!Tokens
  BY LoginCases, RowsTyped DEF RP!Insert, RP!Tokens, Typed
<1>4. rows'[Len(rows')].user = u
  BY <1>3, InsertView DEF Typed
<1>5. /\ access'[t] = Len(rows') /\ user'[t] = u
      /\ \A s \in Tabs : s # t => access'[s] = access[s] /\ user'[s] = user[s]
  BY <1>2 DEF Typed, TabsTyped
<1>6. QED
  BY <1>1, <1>2, <1>4, <1>5

LEMMA OneUserStep ==
  ASSUME Typed, [Next]_vars, OneUser
  PROVE  OneUser'
<1>1. SUFFICES ASSUME "switched" \notin excuse', NEW v \in Users, NEW w \in Users, Acts(v)', Acts(w)'
               PROVE  v = w
  BY DEF OneUser
<1>2. CASE \E t \in Tabs, u \in Users : Login(t, u)
  <2>1. PICK t \in Tabs, u \in Users : Login(t, u)
    BY <1>2
  <2>2. /\ Busy = {} /\ UNCHANGED net /\ rows'[jar'].user = u
        /\ \A s \in Tabs : user'[s] \in {u, NoUser}
    BY <1>1, <2>1, LoginFacts
  <2>3. \A n \in RP!Tokens : Held(n)' => n = jar'
    BY <2>2 DEF Held, Busy
  <2>4. QED
    BY <1>1, <2>2, <2>3, NoneIsNone DEF Acts
<1>3. CASE ~\E t \in Tabs, u \in Users : Login(t, u)
  <2>1. Acts(v) /\ Acts(w)
    BY <1>1, <1>3, ActsStep
  <2>2. "switched" \notin excuse
    BY <1>1, StepFacts
  <2>3. QED
    BY <2>1, <2>2 DEF OneUser
<1>4. QED
  BY <1>2, <1>3

LEMMA MatchStep ==
  ASSUME Typed, [Next]_vars, OneUser, Match
  PROVE  Match'
<1>1. SUFFICES ASSUME "switched" \notin excuse', NEW t \in Tabs, NEW n \in RP!Tokens,
                      user'[t] # NoUser, access'[t] = n
               PROVE  rows'[n].user = user'[t]
  BY DEF Match
<1>2. n # 0 /\ "switched" \notin excuse
  BY <1>1, StepFacts
<1>3. ASSUME user'[t] = user[t], access'[t] = access[t] PROVE rows'[n].user = user'[t]
  <2>1. n \in DOMAIN rows
    BY <1>1, <1>2, <1>3, RowsTyped DEF Typed, TabsTyped
  <2>2. QED
    BY <1>1, <1>2, <1>3, <2>1, StepFacts DEF Match, KeepsNames
<1>4. CASE \E s \in Tabs, u \in Users : Login(s, u)
  <2>1. PICK s \in Tabs, u \in Users : Login(s, u)
    BY <1>4
  <2>2. CASE t = s
    BY <1>1, <2>1, <2>2, LoginFacts
  <2>3. CASE t # s
    BY <1>1, <1>3, <2>1, <2>3, LoginFacts
  <2>4. QED
    BY <2>2, <2>3
<1>5. CASE ~\E s \in Tabs, u \in Users : Login(s, u)
  <2>1. CASE user'[t] \in {user[t], NoUser} /\ access'[t] \in {access[t], 0}
    BY <1>1, <1>2, <1>3, <2>1
  <2>2. CASE Held(n) /\ (user'[t] = user[t] \/ user'[t] = rows[n].user)
    <3>1. rows[n].user \in Users /\ rows'[n].user = rows[n].user
      BY <2>2, HeldIsIssued
    <3>2. CASE user'[t] = user[t]
      <4>1. user[t] \in Users /\ Acts(user[t]) /\ Acts(rows[n].user)
        BY <1>1, <2>2, <3>2 DEF Acts, Typed, TabsTyped
      <4>2. QED
        BY <1>2, <3>1, <3>2, <4>1 DEF OneUser
    <3>3. QED
      BY <2>2, <3>1, <3>2
  <2>3. QED
    BY <1>1, <1>5, <2>1, <2>2, ShownStep
<1>6. QED
  BY <1>4, <1>5

(* A tab shows the user it acts for, unless somebody else logged in in      *)
(* another tab or while an answer was under way.                            *)
THEOREM TabsShowTheirUser == Spec => []TabShowsItsUser
<1>1. Init => OneUser /\ Match
  <2>1. ASSUME Init PROVE OneUser /\ Match
    <3>1. /\ \A t \in Tabs : user[t] = NoUser
          /\ jar = 0 /\ Busy = {}
      BY <2>1 DEF Init, Busy, NoExchange
    <3>2. \A n \in RP!Tokens : ~Held(n)
      BY <3>1 DEF Held, RP!Tokens
    <3>3. QED
      BY <3>1, <3>2, NoneIsNone DEF OneUser, Match, Acts
  <2>2. QED
    BY <2>1
<1>2. (Typed /\ OneUser /\ Match) /\ [Next]_vars => (OneUser /\ Match)'
  BY OneUserStep, MatchStep
<1>3. Spec => [](Typed /\ Quiet)
  BY QuietAlways
<1>4. Typed /\ Match => TabShowsItsUser
  <2>1. SUFFICES ASSUME Typed, Match, NEW t \in Tabs, user[t] # NoUser, access[t] # 0,
                        "switched" \notin excuse
                 PROVE  rows[access[t]].user = user[t]
    BY DEF TabShowsItsUser
  <2>2. access[t] \in RP!Tokens
    BY <2>1, RowsTyped DEF Typed, TabsTyped, RP!Tokens
  <2>3. QED
    BY <2>1, <2>2 DEF Match
<1>5. QED
  BY <1>1, <1>2, <1>3, <1>4, PTL DEF Spec

-----------------------------------------------------------------------------
(* A refresh without a cookie is sent when the jar is empty, which stays so *)
(* while it is under way; one that is refused with a cookie has its reason. *)
Plain == excuse \subseteq {"elsewhere"}
CookieLess ==
  Plain => \A x \in Busy : net[x].kind = "refresh" /\ net[x].carried = 0 => jar = 0
Refusal ==
  \A x \in Busy : net[x].kind = "refresh" /\ net[x].answer = "refused" /\ net[x].carried # 0
    => excuse \cap {"refused", "lost"} # {}

LEMMA PlainIsCalm == Plain => Calm
BY DEF Plain, Calm

LEMMA CookieLessStep ==
  ASSUME Typed, [Next]_vars, Quiet, CookieLess
  PROVE  CookieLess'
<1>1. SUFFICES ASSUME Plain', NEW x \in Busy', net'[x].kind = "refresh", net'[x].carried = 0
               PROVE  jar' = 0
  BY DEF CookieLess
<1>2. Plain /\ Calm /\ Calm' /\ x \in Exchanges
  BY <1>1, StepFacts DEF Plain, Calm, Busy
<1>3. CASE UNCHANGED jar /\ x \in Busy /\ net'[x].kind = net[x].kind /\ net'[x].carried = net[x].carried
  BY <1>1, <1>2, <1>3 DEF CookieLess
<1>4. CASE UNCHANGED jar /\ net'[x].carried = jar
  BY <1>1, <1>4
<1>5. CASE (\E c \in Calls : Asks(c)) \/ \E t \in Tabs : SignOut(t) \/ Mount(t)
  <2>1. Busy = {} /\ UNCHANGED jar
    BY <1>2, <1>5, SendQuiet DEF Asks, Rejected, SignOut, Mount
  <2>2. PICK t \in Tabs : (\E kind \in {"refresh", "logout"} : SendFree(kind, t)) \/ Mount(t)
    BY <1>5, TabOfTyped DEF Asks, SendRefresh, SignOut
  <2>3. CASE \E kind \in {"refresh", "logout"} : SendFree(kind, t)
    <3>1. PICK kind \in {"refresh", "logout"} : SendFree(kind, t)
      BY <2>3
    <3>2. PICK z \in Exchanges : /\ net'[z] = Outgoing(kind, t)
                                 /\ \A y \in Exchanges : y # z => net'[y] = net[y]
      BY <3>1, SendFacts DEF Typed
    <3>3. x = z
      BY <1>1, <1>2, <2>1, <3>2 DEF Busy
    <3>4. QED
      BY <1>4, <2>1, <3>2, <3>3 DEF Outgoing
  <2>4. CASE Mount(t)
    <3>1. PICK z \in Exchanges : z = Free /\ net'[z] = Outgoing("refresh", t)
      BY <2>4, MountFacts
    <3>2. \A y \in Exchanges : y # z => net'[y] = net[y]
      BY <2>1, <2>4, <3>1, MountFacts
    <3>3. x = z
      BY <1>1, <1>2, <2>1, <3>2 DEF Busy
    <3>4. QED
      BY <1>4, <2>1, <3>1, <3>3 DEF Outgoing
  <2>5. QED
    BY <2>2, <2>3, <2>4
<1>6. ASSUME NEW t \in Tabs, NEW u \in Users, Login(t, u) PROVE FALSE
  <2>1. "switched" \notin excuse'
    BY <1>1 DEF Plain
  <2>2. Busy = {} /\ UNCHANGED net
    BY <1>6, <2>1, LoginFacts
  <2>3. QED
    BY <1>1, <2>2 DEF Busy
<1>7. ASSUME NEW z \in Exchanges, Deliver(z) PROVE FALSE
  BY <1>1, <1>2, <1>7, DeliverQuiet
<1>8. ASSUME NEW z \in Exchanges, ConnectionFails(z) PROVE FALSE
  BY <1>1, <1>8 DEF ConnectionFails, Excused, Plain
<1>9. ASSUME NEW z \in Exchanges, Discard(z) PROVE FALSE
  BY <1>2, <1>9 DEF Discard, Quiet, Awaited
<1>10. CASE \E z \in Exchanges : \/ RefreshRefused(z) \/ LogoutFails(z) \/ RotationStep(z)
                                 \/ RotationFails(z) \/ RotationDone(z) \/ Logout(z)
  <2>1. /\ UNCHANGED jar
        /\ \A y \in Exchanges : net'[y].kind = net[y].kind /\ net'[y].carried = net[y].carried
    BY <1>10, ServeAnswers, AnswersKeep DEF Typed
  <2>2. QED
    BY <1>1, <1>2, <1>3, <2>1 DEF Busy
<1>11. CASE OnlyCalls \/ EndedElsewhere
  BY <1>1, <1>3, <1>11 DEF OnlyCalls, EndedElsewhere, Busy
<1>12. QED
  BY <1>5, <1>6, <1>7, <1>8, <1>9, <1>10, <1>11, NextCases

LEMMA RefusalStep ==
  ASSUME Typed, [Next]_vars, Refusal
  PROVE  Refusal'
<1>1. SUFFICES ASSUME NEW x \in Busy', net'[x].kind = "refresh", net'[x].answer = "refused",
                      net'[x].carried # 0
               PROVE  excuse' \cap {"refused", "lost"} # {}
  BY DEF Refusal
<1>2. x \in Exchanges /\ excuse \subseteq excuse'
  BY StepFacts DEF Busy
<1>3. ASSUME net'[x].kind = net[x].kind, net'[x].answer = net[x].answer, net'[x].carried = net[x].carried
      PROVE  excuse' \cap {"refused", "lost"} # {}
  BY <1>1, <1>2, <1>3 DEF Refusal, Busy
<1>4. CASE (\E c \in Calls : Asks(c)) \/ \E t \in Tabs : SignOut(t)
  <2>1. PICK t \in Tabs, kind \in {"refresh", "logout"} : SendFree(kind, t)
    BY <1>4, TabOfTyped DEF Asks, SendRefresh, SignOut
  <2>2. PICK z \in Exchanges : /\ net'[z] = Outgoing(kind, t)
                               /\ \A y \in Exchanges : y # z => net'[y] = net[y]
    BY <2>1, SendFacts DEF Typed
  <2>3. x # z
    BY <1>1, <2>2 DEF Outgoing
  <2>4. QED
    BY <1>2, <1>3, <2>2, <2>3
<1>5. ASSUME NEW t \in Tabs, Mount(t) PROVE excuse' \cap {"refused", "lost"} # {}
  <2>1. PICK z \in Exchanges : z = Free /\ net'[z] = Outgoing("refresh", t)
    BY <1>5, MountFacts
  <2>2. x # z
    BY <1>1, <2>1 DEF Outgoing
  <2>3. net'[x] = [net[x] EXCEPT !.tab = NoTab] \/ net'[x] = net[x]
    BY <1>2, <1>5, <2>1, <2>2, MountFacts
  <2>4. net[x] \in Exchange
    BY <1>2 DEF Typed, NetTyped
  <2>5. QED
    BY <1>3, <2>3, <2>4 DEF Exchange
<1>6. ASSUME NEW z \in Exchanges, \/ RefreshRefused(z) \/ LogoutFails(z) \/ RotationStep(z)
                                  \/ RotationFails(z) \/ RotationDone(z) \/ Logout(z)
      PROVE  excuse' \cap {"refused", "lost"} # {}
  <2>1. \A y \in Exchanges : /\ net'[y].kind = net[y].kind /\ net'[y].carried = net[y].carried
                             /\ y # z => net'[y] = net[y]
    BY <1>6, ServeAnswers, AnswersKeep DEF Typed
  <2>2. CASE x # z
    BY <1>2, <1>3, <2>1, <2>2
  <2>3. CASE UNCHANGED net
    BY <1>3, <2>3
  <2>4. CASE RefreshRefused(x) \/ LogoutFails(x)
    <3>1. Excused(When(net[x].carried # 0, "refused")) \/ Excused({"refused"})
      BY <2>4 DEF RefreshRefused, LogoutFails
    <3>2. net[x].carried # 0
      BY <1>1, <1>2, <2>1
    <3>3. QED
      BY <3>1, <3>2 DEF Excused, When
  <2>5. CASE Answer(x, "ended", 0)
    <3>1. 0 \in Numbers
      BY DEF Numbers
    <3>2. net'[x].answer = "ended"
      BY <1>2, <2>5, <3>1, AnswerFacts DEF Typed
    <3>3. QED
      BY <1>1, <3>2
  <2>6. CASE RotationDone(x)
    <3>1. CASE Excused({"lost"})
      BY <3>1 DEF Excused
    <3>2. CASE Answer(x, "renewed", Len(rows'))
      <4>1. Len(rows') \in Numbers
        BY TypedStep DEF Typed, ServerInv, RP!IInv, RP!TypeOK, Numbers, KeepsNames
      <4>2. net'[x].answer = "renewed"
        BY <1>2, <3>2, <4>1, AnswerFacts DEF Typed
      <4>3. QED
        BY <1>1, <4>2
    <3>3. QED
      BY <2>5, <2>6, <3>1, <3>2 DEF RotationDone
  <2>7. QED
    BY <1>6, <2>2, <2>3, <2>4, <2>5, <2>6 DEF RotationStep, RotationFails, Logout
<1>7. ASSUME NEW z \in Exchanges, Deliver(z) \/ Discard(z) PROVE excuse' \cap {"refused", "lost"} # {}
  <2>1. net'[z] = NoExchange /\ \A y \in Exchanges : y # z => net'[y] = net[y]
    BY <1>7, ForgetFacts DEF Deliver, Discard, Typed
  <2>2. x # z
    BY <1>1, <2>1 DEF NoExchange
  <2>3. QED
    BY <1>2, <1>3, <2>1, <2>2
<1>8. ASSUME NEW z \in Exchanges, ConnectionFails(z) PROVE excuse' \cap {"refused", "lost"} # {}
  BY <1>8 DEF ConnectionFails, Excused
<1>9. CASE UNCHANGED net
  BY <1>3, <1>9
<1>10. QED
  BY <1>4, <1>5, <1>6, <1>7, <1>8, <1>9, NextCases DEF OnlyCalls, Login, EndedElsewhere

(* A tab that turns to the login page by itself has no session left to      *)
(* return to, unless the refresh was refused or failed on its way, or the   *)
(* user logged in while it was.                                             *)
THEOREM OutOnlyWhenOver == Spec => OutMeansOver
<1> DEFINE Leaves(t) ==
      user[t] # NoUser /\ user'[t] = NoUser /\ t \notin restoring'
        /\ ~(\E x \in Busy : net[x].kind = "logout" /\ net[x].tab = t)
<1>1. Spec => [](Typed /\ Quiet /\ CookieLess /\ Refusal)
  <2>1. Init => CookieLess /\ Refusal
    BY DEF Init, CookieLess, Refusal, Busy, NoExchange
  <2>2. (Typed /\ Quiet) /\ (CookieLess /\ Refusal) /\ [Next]_vars => (CookieLess /\ Refusal)'
    BY CookieLessStep, RefusalStep
  <2>3. QED
    BY <2>1, <2>2, QuietAlways, PTL DEF Spec
<1>2. (Typed /\ Quiet /\ CookieLess /\ Refusal) /\ [Next]_vars =>
        [\A t \in Tabs : Leaves(t) => SessionIsOver' \/ excuse' \ {"elsewhere"} # {}]_vars
  <2>1. SUFFICES ASSUME Typed, Quiet, CookieLess, Refusal, [Next]_vars, NEW t \in Tabs, Leaves(t), Plain'
                 PROVE  SessionIsOver'
    BY DEF Plain
  <2>2. Plain /\ Calm /\ excuse' \cap {"refused", "lost"} = {}
    BY <2>1, StepFacts DEF Plain, Calm
  <2>3. user \in [Tabs -> Users \cup {NoUser}]
    BY <2>1 DEF Typed, TabsTyped
  <2>4. ASSUME NEW s \in Tabs, Mount(s) PROVE FALSE
    BY <2>1, <2>3, <2>4 DEF Mount
  <2>5. ASSUME NEW s \in Tabs, NEW u \in Users, Login(s, u) PROVE FALSE
    <3>1. user' = [user EXCEPT ![s] = u]
      BY <2>5 DEF Login, setSession
    <3>2. QED
      BY <2>1, <2>3, <3>1, NoneIsNone
  <2>6. ASSUME NEW x \in Exchanges, ConnectionFails(x) PROVE FALSE
    BY <2>2, <2>6 DEF ConnectionFails, Excused
  <2>7. ASSUME NEW x \in Exchanges, Deliver(x) PROVE SessionIsOver'
    <3>1. net[x].tab = t /\ x \in Busy
      <4>1. net[x].tab \in Tabs /\ StoreWrite(net[x].tab)
        BY <2>1, <2>7, DeliverWrites, StepFacts DEF Typed
      <4>2. QED
        BY <2>1, <2>3, <2>7, <4>1 DEF StoreWrite, Deliver
    <3>2. net[x].kind = "refresh"
      BY <2>1, <2>7, <3>1 DEF Deliver
    <3>3. net[x].answer # "renewed"
      <4>1. SUFFICES ASSUME net[x].answer = "renewed" PROVE FALSE
        OBVIOUS
      <4>2. Renewed(t, net[x].token)
        BY <2>7, <3>1, <3>2, <4>1 DEF Deliver
      <4>3. net[x].token \in DOMAIN rows
        BY <2>1, <4>1, CarriedTyped DEF Typed, NetTyped, Settling
      <4>4. rows[net[x].token].user \in Users
        BY <2>1, <4>3, RowsTyped DEF Typed
      <4>5. QED
        BY <2>1, <2>3, <4>2, <4>4, NoneIsNone DEF Renewed
    <3>4. CASE net[x].answer = "ended"
      BY <2>7, <3>4 DEF Deliver, SessionIsOver
    <3>5. CASE net[x].answer = "refused"
      <4>1. excuse' = excuse /\ jar' = jar
        BY <2>7, <3>5 DEF Deliver
      <4>2. net[x].carried = 0
        BY <2>1, <2>2, <3>1, <3>2, <3>5, <4>1 DEF Refusal
      <4>3. jar = 0
        BY <2>1, <2>2, <3>1, <3>2, <4>2 DEF CookieLess
      <4>4. QED
        BY <4>1, <4>3 DEF SessionIsOver
    <3>6. net[x].answer \in {"renewed", "ended", "refused"}
      BY <2>1, <2>7, CarriedTyped DEF Typed, Exchange, Deliver
    <3>7. QED
      BY <3>3, <3>4, <3>5, <3>6
  <2>8. CASE UNCHANGED user
    BY <2>1, <2>8
  <2>9. QED
    BY <2>1, <2>4, <2>5, <2>6, <2>7, <2>8, NextCases
       DEF OnlyCalls, Asks, Rejected, SignOut, RefreshRefused, LogoutFails, RotationStep, RotationFails,
           RotationDone, Logout, Discard, EndedElsewhere, tabVars
<1>3. QED
  BY <1>1, <1>2, PTL DEF Spec, OutMeansOver
=============================================================================
