--------------------------- MODULE RateLimits_proofs ---------------------------
(***************************************************************************)
(* What holds of RateLimits for any limiters and keys, any number of        *)
(* requests at once and any number of broken connections.                   *)
(***************************************************************************)
EXTENDS RateLimits, FiniteSetTheorems, TLAPS

(* Points of a window: no more requests got one than were counted, and no   *)
(* more than the limiter has.                                               *)
Window(i, k) ==
  /\ IsFiniteSet(took[i][k])
  /\ Cardinality(took[i][k]) <= used[i][k]
  /\ Cardinality(took[i][k]) <= Specs[i].points

(* The limiter i has had its say on r.                                      *)
Settled(r, i) == i \in passed[r] \/ keys[r][i] = NoKey

(* A request on its way has been settled by the limiters before its next.   *)
OnItsWay(r) ==
  /\ at[r] = "new" => next[r] = 1
  /\ at[r] = "sent" => keys[r][next[r]] \in Keys
  /\ at[r] \in {"resolve", "sent"} => \A i \in 1 .. (next[r] - 1) : Settled(r, i)
  /\ at[r] = "admitted" /\ RateLimitEnabled /\ r \notin open => \A i \in Limiters : Settled(r, i)

IInv ==
  /\ TypeOK
  /\ \A i \in Limiters, k \in Keys : Window(i, k)
  /\ \A r \in Requests : OnItsWay(r)

-----------------------------------------------------------------------------
USE DEF vars, Key, Go

LEMMA SeqElement ==
  ASSUME NEW S, NEW s \in Seq(S), NEW i \in 1 .. Len(s) PROVE s[i] \in S
OBVIOUS

LEMMA Chain ==
  /\ Len(Specs) \in Nat \ {0} /\ Limiters = 1 .. Len(Specs) /\ 1 \in Limiters
  /\ \A i \in Limiters : Specs[i].points \in Nat \ {0}
<1>1. Specs \in Seq([points : Nat \ {0}, by : By]) /\ Specs # <<>>
  BY SpecsTyped
<1>2. Len(Specs) \in Nat \ {0} /\ DOMAIN Specs = 1 .. Len(Specs)
  BY <1>1
<1>3. \A i \in 1 .. Len(Specs) : Specs[i] \in [points : Nat \ {0}, by : By]
  BY <1>1, SeqElement
<1>4. QED
  BY <1>2, <1>3 DEF Limiters

LEMMA InitInvariant == Init => IInv
<1> SUFFICES ASSUME Init PROVE IInv
  OBVIOUS
<1>1. TypeOK
  BY SpecsTyped, Chain DEF Init, TypeOK, Answers
<1>2. \A i \in Limiters, k \in Keys : Window(i, k)
  BY FS_EmptySet, Chain DEF Init, Window
<1>3. \A r \in Requests : OnItsWay(r)
  BY DEF Init, OnItsWay
<1>4. QED
  BY <1>1, <1>2, <1>3 DEF IInv

-----------------------------------------------------------------------------
(* Helpers.                                                                 *)

(* Where the loop goes after a limiter.                                     *)
LEMMA NextTyped ==
  ASSUME TypeOK, NEW r \in Requests, NextLimiter(r)
  PROVE  /\ at' \in [Requests -> {"new", "resolve", "sent"} \cup Answers]
         /\ next' \in [Requests -> Limiters]
         /\ \A q \in Requests : q # r => at'[q] = at[q] /\ next'[q] = next[q]
         /\ \/ at'[r] = "admitted" /\ next[r] = Len(Specs)
            \/ at'[r] = "resolve" /\ next'[r] = next[r] + 1
<1>1. next[r] \in 1 .. Len(Specs) /\ Len(Specs) \in Nat
  BY Chain DEF TypeOK
<1>2. CASE next[r] = Len(Specs)
  BY <1>2 DEF NextLimiter, TypeOK, Answers
<1>3. CASE next[r] # Len(Specs)
  <2>1. next[r] + 1 \in Limiters
    BY <1>1, <1>3, Chain
  <2>2. QED
    BY <1>3, <2>1 DEF NextLimiter, TypeOK, Answers
<1>4. QED
  BY <1>2, <1>3

(* Counting a point raises one counter.                                     *)
LEMMA Counted ==
  ASSUME TypeOK, NEW r \in Requests, keys[r][next[r]] \in Keys, CountPoint(r)
  PROVE  /\ used' \in [Limiters -> [Keys -> Nat]]
         /\ used'[next[r]][keys[r][next[r]]] = used[next[r]][keys[r][next[r]]] + 1
         /\ \A i \in Limiters, k \in Keys :
              <<i, k>> # <<next[r], keys[r][next[r]]>> => used'[i][k] = used[i][k]
<1> DEFINE n == next[r]
           x == keys[r][next[r]]
<1>1. n \in Limiters /\ x \in Keys /\ used \in [Limiters -> [Keys -> Nat]]
  BY DEF TypeOK
<1>2. used' = [used EXCEPT ![n][x] = @ + 1]
  BY DEF CountPoint
<1> HIDE DEF n, x
<1>3. /\ used' \in [Limiters -> [Keys -> Nat]]
      /\ used'[n][x] = used[n][x] + 1
      /\ \A i \in Limiters, k \in Keys : <<i, k>> # <<n, x>> => used'[i][k] = used[i][k]
  BY <1>1, <1>2
<1>4. QED
  BY <1>3 DEF n, x

LEMMA WayKept ==
  ASSUME NEW r \in Requests, OnItsWay(r), at'[r] = at[r], next'[r] = next[r],
         keys'[r] = keys[r], passed[r] \subseteq passed'[r], open \subseteq open'
  PROVE  OnItsWay(r)'
<1>1. \A i : Settled(r, i) => Settled(r, i)'
  BY DEF Settled
<1>2. QED
  BY <1>1 DEF OnItsWay

(* A request that has passed its limiter goes on.                           *)
LEMMA WayOn ==
  ASSUME TypeOK, NEW r \in Requests, OnItsWay(r), NextLimiter(r), at[r] \in {"resolve", "sent"},
         keys'[r] = keys[r], passed[r] \subseteq passed'[r], NEW n, n = next[r], Settled(r, n)'
  PROVE  OnItsWay(r)'
<1> USE NextTyped
<1>1. next[r] \in 1 .. Len(Specs) /\ Len(Specs) \in Nat
  BY Chain DEF TypeOK
<1>2. \A i : Settled(r, i) => Settled(r, i)'
  BY DEF Settled
<1>3. \A i \in 1 .. (next[r] - 1) : Settled(r, i)'
  BY <1>2 DEF OnItsWay
<1>4. \A i \in 1 .. next[r] : Settled(r, i)'
  <2> SUFFICES ASSUME NEW i \in 1 .. next[r] PROVE Settled(r, i)'
    OBVIOUS
  <2>1. i = next[r] \/ i \in 1 .. (next[r] - 1)
    BY <1>1
  <2>2. CASE i = next[r]
    BY <2>2
  <2>3. QED
    BY <1>3, <2>1, <2>2
<1>5. CASE at'[r] = "admitted" /\ next[r] = Len(Specs)
  <2>1. \A i \in Limiters : Settled(r, i)'
    BY <1>4, <1>5, Chain
  <2>2. QED
    BY <1>5, <2>1 DEF OnItsWay
<1>6. CASE at'[r] = "resolve" /\ next'[r] = next[r] + 1
  <2>1. next'[r] - 1 = next[r]
    BY <1>1, <1>6
  <2>2. QED
    BY <1>4, <1>6, <2>1 DEF OnItsWay
<1>7. QED
  BY <1>5, <1>6

-----------------------------------------------------------------------------
(* One step.                                                                *)

LEMMA NextCases ==
  ASSUME [Next]_vars
  PROVE  \/ \E r \in Requests : Arrive(r) \/ Skip(r) \/ Send(r) \/ ResolveFails(r) \/ FailOpen(r)
         \/ \E r \in Requests : Consume(r)
         \/ \E r \in Requests : ReplyLost(r)
         \/ \E i \in Limiters, k \in Keys : WindowEnds(i, k)
         \/ GoDown \/ Reconnect \/ UNCHANGED vars
BY DEF Next, Step, Fails

(* A point is given only where a limiter has one left, and then counted.    *)
LEMMA Granted ==
  ASSUME IInv, NEW r \in Requests, Consume(r),
         used[next[r]][Key(r)] < Specs[next[r]].points
  PROVE  /\ took' \in [Limiters -> [Keys -> SUBSET Requests]]
         /\ took'[next[r]][keys[r][next[r]]] = took[next[r]][keys[r][next[r]]] \cup {r}
         /\ \A i \in Limiters, k \in Keys :
              <<i, k>> # <<next[r], keys[r][next[r]]>> => took'[i][k] = took[i][k]
         /\ passed' \in [Requests -> SUBSET Limiters]
         /\ passed'[r] = passed[r] \cup {next[r]}
         /\ \A q \in Requests : q # r => passed'[q] = passed[q]
<1> DEFINE n == next[r]
           x == keys[r][next[r]]
<1>1. /\ n \in Limiters /\ x \in Keys /\ took \in [Limiters -> [Keys -> SUBSET Requests]]
      /\ passed \in [Requests -> SUBSET Limiters]
  BY DEF IInv, TypeOK, OnItsWay, Consume
<1>2. /\ took' = [took EXCEPT ![n][x] = @ \cup {r}]
      /\ passed' = [passed EXCEPT ![r] = @ \cup {n}]
  BY DEF Consume, Point
<1> HIDE DEF n, x
<1>3. /\ took' \in [Limiters -> [Keys -> SUBSET Requests]]
      /\ took'[n][x] = took[n][x] \cup {r}
      /\ \A i \in Limiters, k \in Keys : <<i, k>> # <<n, x>> => took'[i][k] = took[i][k]
  BY <1>1, <1>2
<1>4. /\ passed' \in [Requests -> SUBSET Limiters]
      /\ passed'[r] = passed[r] \cup {n}
      /\ \A q \in Requests : q # r => passed'[q] = passed[q]
  BY <1>1, <1>2
<1>5. QED
  BY <1>3, <1>4 DEF n, x

LEMMA WindowStep ==
  ASSUME IInv, [Next]_vars, NEW i \in Limiters, NEW k \in Keys
  PROVE  Window(i, k)'
<1>0. /\ Window(i, k) /\ used[i][k] \in Nat /\ Specs[i].points \in Nat
      /\ IsFiniteSet(took[i][k]) => Cardinality(took[i][k]) \in Nat
  BY Chain, FS_CardinalityType DEF IInv, TypeOK
<1>1. ASSUME took'[i][k] = took[i][k], used'[i][k] \in {used[i][k], used[i][k] + 1}
      PROVE  Window(i, k)'
  BY <1>0, <1>1 DEF Window
<1>2. ASSUME NEW r \in Requests,
             Arrive(r) \/ Skip(r) \/ Send(r) \/ ResolveFails(r) \/ FailOpen(r)
      PROVE  Window(i, k)'
  <2>1. UNCHANGED <<used, took>>
    BY <1>2 DEF Arrive, Skip, Send, ResolveFails, FailOpen
  <2>2. QED
    BY <1>1, <2>1
<1>3. ASSUME NEW r \in Requests, Consume(r) PROVE Window(i, k)'
  <2> DEFINE n == next[r]
             x == keys[r][next[r]]
  <2>1. n \in Limiters /\ x \in Keys /\ CountPoint(r)
    BY <1>3 DEF IInv, TypeOK, OnItsWay, Consume
  <2>2. /\ used'[n][x] = used[n][x] + 1
        /\ <<i, k>> # <<n, x>> => used'[i][k] = used[i][k]
    BY <2>1, Counted DEF IInv
  <2>3. CASE used[n][x] < Specs[n].points
    <3>1. /\ took'[n][x] = took[n][x] \cup {r}
          /\ <<i, k>> # <<n, x>> => took'[i][k] = took[i][k]
      BY <1>3, <2>3, Granted
    <3>2. CASE <<i, k>> = <<n, x>>
      <4>1. took'[i][k] = took[i][k] \cup {r} /\ used'[i][k] = used[i][k] + 1
        BY <2>2, <3>1, <3>2
      <4>2. used[i][k] < Specs[i].points
        BY <2>3, <3>2
      <4>3. /\ IsFiniteSet(took'[i][k])
            /\ Cardinality(took'[i][k]) \in {Cardinality(took[i][k]), Cardinality(took[i][k]) + 1}
        <5>1. /\ IsFiniteSet(took[i][k] \cup {r})
              /\ Cardinality(took[i][k] \cup {r}) = IF r \in took[i][k]
                   THEN Cardinality(took[i][k]) ELSE Cardinality(took[i][k]) + 1
          BY <1>0, FS_AddElement DEF Window
        <5>2. QED
          BY <4>1, <5>1
      <4>4. QED
        BY <1>0, <4>1, <4>2, <4>3 DEF Window
    <3>3. CASE <<i, k>> # <<n, x>>
      BY <1>1, <2>2, <3>1, <3>3
    <3>4. QED
      BY <3>2, <3>3
  <2>4. CASE ~(used[n][x] < Specs[n].points)
    <3>1. took' = took
      BY <1>3, <2>4 DEF Consume
    <3>2. used'[i][k] \in {used[i][k], used[i][k] + 1}
      BY <2>2
    <3>3. QED
      BY <1>1, <3>1, <3>2
  <2>5. QED
    BY <2>3, <2>4
<1>4. ASSUME NEW r \in Requests, ReplyLost(r) PROVE Window(i, k)'
  <2>1. took' = took /\ CountPoint(r) /\ keys[r][next[r]] \in Keys
    BY <1>4 DEF ReplyLost, IInv, OnItsWay
  <2>2. used'[i][k] \in {used[i][k], used[i][k] + 1}
    BY <2>1, Counted DEF IInv
  <2>3. QED
    BY <1>1, <2>1, <2>2
<1>5. ASSUME NEW j \in Limiters, NEW h \in Keys, WindowEnds(j, h) PROVE Window(i, k)'
  <2>1. /\ used' = [used EXCEPT ![j][h] = 0] /\ took' = [took EXCEPT ![j][h] = {}]
        /\ used \in [Limiters -> [Keys -> Nat]]
        /\ took \in [Limiters -> [Keys -> SUBSET Requests]]
    BY <1>5 DEF WindowEnds, IInv, TypeOK
  <2>2. CASE <<i, k>> = <<j, h>>
    <3>1. used'[i][k] = 0 /\ took'[i][k] = {}
      BY <2>1, <2>2
    <3>2. QED
      BY <1>0, <3>1, FS_EmptySet DEF Window
  <2>3. CASE <<i, k>> # <<j, h>>
    <3>1. used'[i][k] = used[i][k] /\ took'[i][k] = took[i][k]
      BY <2>1, <2>3
    <3>2. QED
      BY <1>1, <3>1
  <2>4. QED
    BY <2>2, <2>3
<1>6. CASE UNCHANGED <<used, took>>
  BY <1>1, <1>6
<1>7. QED
  BY <1>2, <1>3, <1>4, <1>5, <1>6, NextCases DEF GoDown, Reconnect, Break

LEMMA WayStep ==
  ASSUME IInv, [Next]_vars, NEW r \in Requests
  PROVE  OnItsWay(r)'
<1>0. /\ OnItsWay(r) /\ next[r] \in Limiters /\ TypeOK
      /\ at \in [Requests -> {"new", "resolve", "sent"} \cup Answers]
      /\ keys \in [Requests -> [Limiters -> Keys \cup {NoKey}]]
      /\ next \in [Requests -> Limiters]
  BY DEF IInv, TypeOK
<1>1. ASSUME NEW q \in Requests, Arrive(q) PROVE OnItsWay(r)'
  <2>1. /\ UNCHANGED <<next, passed, open>> /\ at[q] = "new"
        /\ at' = [at EXCEPT ![q] = IF RateLimitEnabled THEN "resolve" ELSE "admitted"]
        /\ \E f : keys' = [keys EXCEPT ![q] = f]
    BY <1>1 DEF Arrive
  <2>2. CASE q = r
    <3>1. /\ next'[r] = 1
          /\ at'[r] = IF RateLimitEnabled THEN "resolve" ELSE "admitted"
      BY <1>0, <2>1, <2>2 DEF OnItsWay
    <3>2. QED
      BY <3>1 DEF OnItsWay
  <2>3. CASE q # r
    BY <1>0, <2>1, <2>3, WayKept
  <2>4. QED
    BY <2>2, <2>3
<1>2. ASSUME NEW q \in Requests, Skip(q) PROVE OnItsWay(r)'
  <2>1. /\ UNCHANGED <<keys, passed, open>> /\ at[q] = "resolve" /\ NextLimiter(q)
        /\ keys[q][next[q]] = NoKey
    BY <1>2 DEF Skip
  <2>2. CASE q = r
    <3>1. Settled(r, next[r])
      BY <2>1, <2>2 DEF Settled
    <3>2. PICK n \in Limiters : n = next[r]
      BY <1>0
    <3>3. Settled(r, n)'
      BY <2>1, <3>1, <3>2 DEF Settled
    <3>4. QED
      BY <1>0, <2>1, <2>2, <3>2, <3>3, WayOn
  <2>3. CASE q # r
    BY <1>0, <2>1, <2>3, NextTyped, WayKept
  <2>4. QED
    BY <2>2, <2>3
<1>3. ASSUME NEW q \in Requests, Send(q) \/ ResolveFails(q) \/ FailOpen(q) PROVE OnItsWay(r)'
  <2>1. /\ UNCHANGED <<next, keys, passed>> /\ open \subseteq open'
        /\ \/ at[q] = "resolve" /\ keys[q][next[q]] # NoKey /\ at' = [at EXCEPT ![q] = "sent"]
           \/ at' = [at EXCEPT ![q] = "error"]
           \/ at' = [at EXCEPT ![q] = "admitted"] /\ q \in open'
    BY <1>3 DEF Send, ResolveFails, FailOpen
  <2>2. CASE q = r
    <3>1. \/ at[r] = "resolve" /\ keys[r][next[r]] \in Keys /\ at'[r] = "sent"
          \/ at'[r] = "error"
          \/ at'[r] = "admitted" /\ r \in open'
      BY <1>0, <2>1, <2>2
    <3>2. QED
      BY <1>0, <2>1, <3>1 DEF OnItsWay, Settled
  <2>3. CASE q # r
    BY <1>0, <2>1, <2>3, WayKept
  <2>4. QED
    BY <2>2, <2>3
<1>4. ASSUME NEW q \in Requests, Consume(q) PROVE OnItsWay(r)'
  <2>1. UNCHANGED <<keys, open>> /\ at[q] = "sent"
    BY <1>4 DEF Consume
  <2>2. CASE used[next[q]][Key(q)] < Specs[next[q]].points
    <3>1. /\ NextLimiter(q) /\ passed'[q] = passed[q] \cup {next[q]}
          /\ \A p \in Requests : p # q => passed'[p] = passed[p]
      BY <1>4, <2>2, Granted DEF Consume
    <3>2. CASE q = r
      <4>1. PICK n \in Limiters : n = next[r]
        BY <1>0
      <4>2. Settled(r, n)'
        BY <3>1, <3>2, <4>1 DEF Settled
      <4>3. QED
        BY <1>0, <2>1, <3>1, <3>2, <4>1, <4>2, WayOn
    <3>3. CASE q # r
      BY <1>0, <2>1, <3>1, <3>3, NextTyped, WayKept
    <3>4. QED
      BY <3>2, <3>3
  <2>3. CASE ~(used[next[q]][Key(q)] < Specs[next[q]].points)
    <3>1. UNCHANGED <<next, passed>> /\ at' = [at EXCEPT ![q] = "refused"]
      BY <1>4, <2>3 DEF Consume
    <3>2. CASE q = r
      BY <1>0, <3>1, <3>2 DEF OnItsWay
    <3>3. CASE q # r
      BY <1>0, <2>1, <3>1, <3>3, WayKept
    <3>4. QED
      BY <3>2, <3>3
  <2>4. QED
    BY <2>2, <2>3
<1>5. CASE UNCHANGED <<at, next, keys, passed, open>>
  BY <1>0, <1>5, WayKept
<1>6. QED
  BY <1>1, <1>2, <1>3, <1>4, <1>5, NextCases DEF ReplyLost, WindowEnds, GoDown, Reconnect

LEMMA TypeStep ==
  ASSUME IInv, [Next]_vars
  PROVE  TypeOK'
<1>0. TypeOK
  BY DEF IInv
<1>1. ASSUME NEW r \in Requests, Arrive(r) PROVE TypeOK'
  <2>1. PICK f \in KeyChoices : keys' = [keys EXCEPT ![r] = f]
    BY <1>1 DEF Arrive
  <2>2. f \in [Limiters -> Keys \cup {NoKey}]
    BY DEF KeyChoices
  <2>3. QED
    BY <1>0, <1>1, <2>1, <2>2 DEF Arrive, TypeOK, Answers
<1>2. ASSUME NEW r \in Requests, Skip(r) PROVE TypeOK'
  <2>1. NextLimiter(r) /\ UNCHANGED <<keys, used, redis, drops, took, passed, open>>
    BY <1>2 DEF Skip
  <2>2. QED
    BY <1>0, <2>1, NextTyped DEF TypeOK
<1>3. ASSUME NEW r \in Requests, Send(r) \/ ResolveFails(r) \/ FailOpen(r) PROVE TypeOK'
  BY <1>0, <1>3 DEF Send, ResolveFails, FailOpen, TypeOK, Answers
<1>4. ASSUME NEW r \in Requests, Consume(r) PROVE TypeOK'
  <2>1. /\ CountPoint(r) /\ keys[r][next[r]] \in Keys
        /\ UNCHANGED <<keys, redis, drops, open>>
    BY <1>4 DEF Consume, IInv, OnItsWay
  <2>2. used' \in [Limiters -> [Keys -> Nat]]
    BY <1>0, <2>1, Counted
  <2>3. CASE used[next[r]][Key(r)] < Specs[next[r]].points
    <3>1. NextLimiter(r)
      BY <1>4, <2>3 DEF Consume
    <3>2. /\ took' \in [Limiters -> [Keys -> SUBSET Requests]]
          /\ passed' \in [Requests -> SUBSET Limiters]
      BY <1>4, <2>3, Granted
    <3>3. QED
      BY <1>0, <2>1, <2>2, <3>1, <3>2, NextTyped DEF TypeOK
  <2>4. CASE ~(used[next[r]][Key(r)] < Specs[next[r]].points)
    <3>1. UNCHANGED <<next, took, passed>> /\ at' = [at EXCEPT ![r] = "refused"]
      BY <1>4, <2>4 DEF Consume
    <3>2. QED
      BY <1>0, <2>1, <2>2, <3>1 DEF TypeOK, Answers
  <2>5. QED
    BY <2>3, <2>4
<1>5. ASSUME NEW r \in Requests, ReplyLost(r) PROVE TypeOK'
  <2>1. /\ CountPoint(r) /\ keys[r][next[r]] \in Keys /\ Break
        /\ UNCHANGED <<at, next, keys, took, passed, open>>
    BY <1>5 DEF ReplyLost, IInv, OnItsWay
  <2>2. used' \in [Limiters -> [Keys -> Nat]]
    BY <1>0, <2>1, Counted
  <2>3. QED
    BY <1>0, <2>1, <2>2, SpecsTyped DEF TypeOK, Break
<1>6. ASSUME NEW i \in Limiters, NEW k \in Keys, WindowEnds(i, k) PROVE TypeOK'
  BY <1>0, <1>6 DEF WindowEnds, TypeOK
<1>7. CASE GoDown \/ Reconnect
  BY <1>0, <1>7, SpecsTyped DEF GoDown, Reconnect, Break, TypeOK
<1>8. CASE UNCHANGED vars
  BY <1>0, <1>8 DEF TypeOK
<1>9. QED
  BY <1>1, <1>2, <1>3, <1>4, <1>5, <1>6, <1>7, <1>8, NextCases

-----------------------------------------------------------------------------
(* The theorems.                                                            *)

LEMMA Invariant == Spec => []IInv
<1>1. IInv /\ [Next]_vars => IInv'
  <2> SUFFICES ASSUME IInv, [Next]_vars PROVE IInv'
    OBVIOUS
  <2>1. TypeOK' /\ (\A i \in Limiters, k \in Keys : Window(i, k)')
                /\ (\A r \in Requests : OnItsWay(r)')
    BY TypeStep, WindowStep, WayStep
  <2>2. QED
    BY <2>1 DEF IInv
<1>2. QED
  BY <1>1, InitInvariant, PTL DEF Spec

(* Counters, keys and the place of a request in the loop are what the code  *)
(* takes them for.                                                          *)
THEOREM TypeCorrect == Spec => []TypeOK
<1>1. IInv => TypeOK
  BY DEF IInv
<1>2. QED
  BY <1>1, Invariant, PTL

(* No window lets more requests through than it has points, and no request  *)
(* gets past a limiter that could key it, however many are under way at     *)
(* once and whatever is sent twice; the one exception is an error from      *)
(* Redis.                                                                   *)
THEOREM LimitsAreKept == Spec => []LimitsHold
<1>1. IInv => LimitsHold
  <2> SUFFICES ASSUME IInv PROVE LimitsHold
    OBVIOUS
  <2>1. ASSUME NEW i \in Limiters, NEW k \in Keys
        PROVE  Cardinality({r \in took[i][k] : at[r] = "admitted"}) <= Specs[i].points
    <3> DEFINE A == {r \in took[i][k] : at[r] = "admitted"}
    <3>1. A \subseteq took[i][k]
      OBVIOUS
    <3>2. /\ IsFiniteSet(took[i][k]) /\ Cardinality(took[i][k]) <= Specs[i].points
      BY DEF IInv, Window
    <3>3. IsFiniteSet(A) /\ Cardinality(A) <= Cardinality(took[i][k])
      BY <3>1, <3>2, FS_Subset
    <3> HIDE DEF A
    <3>4. Cardinality(A) \in Nat /\ Cardinality(took[i][k]) \in Nat /\ Specs[i].points \in Nat
      BY <3>2, <3>3, FS_CardinalityType, Chain
    <3>5. Cardinality(A) <= Specs[i].points
      BY <3>2, <3>3, <3>4
    <3>6. QED
      BY <3>5 DEF A
  <2>2. \A r \in Requests : at[r] = "admitted" /\ RateLimitEnabled /\ r \notin open =>
          \A i \in Limiters : i \in passed[r] \/ keys[r][i] = NoKey
    BY DEF IInv, OnItsWay, Settled
  <2>3. QED
    BY <2>1, <2>2 DEF LimitsHold
<1>2. QED
  BY <1>1, Invariant, PTL
=============================================================================
