-------------------------- MODULE ScanRequests_proofs --------------------------
(***************************************************************************)
(* What holds of the quota and the website rows for any users, hosts and    *)
(* limits, however many requests are in flight, that no row is left         *)
(* unsettled without a word but in the cases the module names, and that     *)
(* what follows the INSERT is ScanLifecycle and nothing else.               *)
(***************************************************************************)
EXTENDS ScanRequests, FiniteSetTheorems, SequenceTheorems, TLAPS

Typed ==
  /\ front \in [Scans -> Fronts]
  /\ asker \in [Scans -> Users]
  /\ host \in [Scans -> Hosts \cup {NoHost}]
  /\ \A s \in Scans : front[s] # "idle" => host[s] \in Hosts
  /\ websites \subseteq [id : Scans, host : Hosts]
  /\ site \in [Scans -> SUBSET Scans]
  /\ recent \in Seq(Scans)

(* A user whose requests never overlapped has one at most before its INSERT, *)
(* and once it was counted there is room for its row.                       *)
Alone(u) == \A s, t \in OpenOf(u) : s = t
Within(u) ==
  /\ Cardinality(Recent(u)) <= DailyLimit
  /\ \A s \in OpenOf(u) : front[s] # "count" => Cardinality(Recent(u)) < DailyLimit
Quota(u) ==
  /\ IsFiniteSet(Recent(u))
  /\ u \notin overlap => Alone(u)
  /\ u \notin PaidUsers \cup overlap => Within(u)

(* From upsertWebsite on, a request has the row of its host; where it found *)
(* a conflict, there is a row to look up.                                   *)
Hung(s) ==
  /\ front[s] \in {"insert", "passed"} =>
       \E w \in websites : site[s] = {w.id} /\ w.host = host[s]
  /\ front[s] = "lookup" => Known(host[s]) # {}
Websites ==
  /\ \A v, w \in websites : v.host = w.host => v = w
  /\ \A s \in Scans : Hung(s)

IInv == Typed /\ (\A u \in Users : Quota(u)) /\ Websites

-----------------------------------------------------------------------------
USE DEF vars, scanVars, frontVars

LEMMA NextCases ==
  ASSUME [Next]_vars
  PROVE  \/ \E s \in Scans, h \in Hosts : Post(s, h)
         \/ \E s \in Scans : Count(s)
         \/ \E s \in Scans : Resolve(s)
         \/ \E s \in Scans : InsertWebsite(s)
         \/ \E s \in Scans : LookupWebsite(s)
         \/ \E s \in Scans : Insert(s)
         \/ \E s \in Scans : Fails(s)
         \/ ApiCrash
         \/ DayPasses
         \/ \E s \in Scans : EnqueueStep(s)
         \/ \E s \in Scans : Cancel(s)
         \/ \E s \in Scans, k \in L!Runs : RunStep(s, k)
         \/ UNCHANGED vars
BY DEF Next, FrontStep

LEMMA FrontCases ==
  ASSUME [Next]_vars
  PROVE  \/ \E s \in Scans, h \in Hosts : Post(s, h)
         \/ \E s \in Scans : Count(s)
         \/ \E s \in Scans : Resolve(s)
         \/ \E s \in Scans : InsertWebsite(s)
         \/ \E s \in Scans : LookupWebsite(s)
         \/ \E s \in Scans : Insert(s)
         \/ \E s \in Scans : Fails(s)
         \/ ApiCrash
         \/ DayPasses
         \/ UNCHANGED frontVars
BY NextCases DEF EnqueueStep, Cancel, RunStep

LEMMA TypedStep ==
  ASSUME Typed, [Next]_vars
  PROVE  Typed'
<1>0. /\ front \in [Scans -> Fronts] /\ asker \in [Scans -> Users]
      /\ host \in [Scans -> Hosts \cup {NoHost}] /\ site \in [Scans -> SUBSET Scans]
      /\ recent \in Seq(Scans) /\ websites \subseteq [id : Scans, host : Hosts]
      /\ \A s \in Scans : front[s] # "idle" => host[s] \in Hosts
  BY DEF Typed
<1>1. ASSUME NEW s \in Scans, NEW h \in Hosts, Post(s, h) PROVE Typed'
  <2>1. /\ front' = [front EXCEPT ![s] = "count"] /\ host' = [host EXCEPT ![s] = h]
        /\ UNCHANGED <<asker, websites, site, recent>>
    BY <1>1 DEF Post, Goto
  <2>2. front' \in [Scans -> Fronts] /\ host' \in [Scans -> Hosts \cup {NoHost}]
    BY <1>0, <2>1 DEF Fronts
  <2>3. \A t \in Scans : front'[t] # "idle" => host'[t] \in Hosts
    BY <1>0, <2>1
  <2>4. QED
    BY <1>0, <2>1, <2>2, <2>3 DEF Typed
<1>2. ASSUME NEW s \in Scans, front[s] # "idle", NEW x \in Fronts, Goto(s, x),
             UNCHANGED <<asker, host>>
      PROVE  /\ front' \in [Scans -> Fronts]
             /\ asker' \in [Scans -> Users] /\ host' \in [Scans -> Hosts \cup {NoHost}]
             /\ \A t \in Scans : front'[t] # "idle" => host'[t] \in Hosts
  BY <1>0, <1>2 DEF Goto
<1>3. ASSUME NEW s \in Scans, Count(s) \/ Resolve(s) \/ Fails(s) PROVE Typed'
  <2>1. /\ \E x \in Fronts : Goto(s, x) /\ front[s] # "idle"
        /\ UNCHANGED <<asker, host, websites, site, recent>>
    BY <1>3 DEF Count, Resolve, Fails, Open, Fronts
  <2>2. QED
    BY <1>0, <1>2, <2>1 DEF Typed
<1>4. ASSUME NEW s \in Scans, InsertWebsite(s) PROVE Typed'
  <2>1. /\ \E x \in Fronts : Goto(s, x) /\ front[s] # "idle"
        /\ UNCHANGED <<asker, host, recent>>
    BY <1>4 DEF InsertWebsite, Fronts
  <2>2. \/ UNCHANGED <<websites, site>>
        \/ /\ websites' = websites \cup {[id |-> s, host |-> host[s]]}
           /\ site' = [site EXCEPT ![s] = {s}]
    BY <1>4 DEF InsertWebsite
  <2>3. site \in [Scans -> SUBSET Scans] /\ {s} \in SUBSET Scans /\ host[s] \in Hosts
    BY <1>0, <2>1
  <2>4. site' \in [Scans -> SUBSET Scans]
    BY <2>2, <2>3
  <2>5. websites' \subseteq [id : Scans, host : Hosts]
    BY <1>0, <2>2, <2>3
  <2>6. QED
    BY <1>0, <1>2, <2>1, <2>4, <2>5 DEF Typed
<1>5. ASSUME NEW s \in Scans, LookupWebsite(s) PROVE Typed'
  <2>1. /\ Goto(s, "insert") /\ front[s] # "idle" /\ "insert" \in Fronts
        /\ UNCHANGED <<asker, host, websites, recent>>
    BY <1>5 DEF LookupWebsite, Fronts
  <2>2. PICK i \in Scans : site' = [site EXCEPT ![s] = {i}]
    BY <1>0, <1>5 DEF LookupWebsite, Known
  <2>3. site' \in [Scans -> SUBSET Scans]
    BY <1>0, <2>2
  <2>4. QED
    BY <1>0, <1>2, <2>1, <2>3 DEF Typed
<1>6. ASSUME NEW s \in Scans, Insert(s) PROVE Typed'
  <2>1. /\ Goto(s, "passed") /\ front[s] # "idle" /\ "passed" \in Fronts
        /\ UNCHANGED <<asker, host, websites, site>> /\ recent' = Append(recent, s)
    BY <1>6 DEF Insert, Fronts
  <2>2. recent' \in Seq(Scans)
    BY <1>0, <2>1
  <2>3. QED
    BY <1>0, <1>2, <2>1, <2>2 DEF Typed
<1>7. CASE ApiCrash
  <2>1. /\ front' = [s \in Scans |-> IF front[s] \in Open THEN "error" ELSE front[s]]
        /\ UNCHANGED <<asker, host, websites, site, recent>>
    BY <1>7 DEF ApiCrash
  <2>2. /\ front' \in [Scans -> Fronts]
        /\ \A t \in Scans : front'[t] # "idle" => host'[t] \in Hosts
    BY <1>0, <2>1 DEF Fronts, Open
  <2>3. QED
    BY <1>0, <2>1, <2>2 DEF Typed
<1>8. CASE DayPasses
  BY <1>0, <1>8 DEF Typed, DayPasses
<1>9. CASE UNCHANGED frontVars
  BY <1>0, <1>9 DEF Typed
<1>10. QED
  BY <1>1, <1>3, <1>4, <1>5, <1>6, <1>7, <1>8, <1>9, FrontCases

-----------------------------------------------------------------------------
(* The quota.                                                               *)

(* What keeps the quota of a user: nothing new is counted and nothing new   *)
(* stands past the count.                                                   *)
LEMMA QuotaKept ==
  ASSUME NEW u \in Users, Quota(u), DailyLimit \in Nat,
         u \notin overlap' => u \notin overlap,
         Recent(u)' \subseteq Recent(u), OpenOf(u)' \subseteq OpenOf(u),
         \A s \in OpenOf(u)' : front'[s] # "count" => front[s] # "count"
  PROVE  Quota(u)'
<1>1. /\ IsFiniteSet(Recent(u)) /\ IsFiniteSet(Recent(u)')
      /\ Cardinality(Recent(u)') <= Cardinality(Recent(u))
      /\ Cardinality(Recent(u)') \in Nat /\ Cardinality(Recent(u)) \in Nat
  BY FS_Subset, FS_CardinalityType DEF Quota
<1>2. u \notin overlap' => Alone(u)'
  BY DEF Quota, Alone
<1>3. ASSUME u \notin PaidUsers \cup overlap' PROVE Within(u)'
  <2>1. Within(u)
    BY <1>3 DEF Quota
  <2>2. Cardinality(Recent(u)') <= DailyLimit
    BY <1>1, <2>1, DailyLimitTyped DEF Within
  <2>3. ASSUME NEW s \in OpenOf(u)', front'[s] # "count"
        PROVE  Cardinality(Recent(u)') < DailyLimit
    <3>1. Cardinality(Recent(u)) < DailyLimit
      BY <2>1, <2>3 DEF Within
    <3>2. QED
      BY <1>1, <3>1, DailyLimitTyped
  <2>4. QED
    BY <2>2, <2>3 DEF Within
<1>4. QED
  BY <1>1, <1>2, <1>3 DEF Quota

LEMMA QuotaStep ==
  ASSUME Typed, [Next]_vars, NEW u \in Users, Quota(u)
  PROVE  Quota(u)'
<1>0. /\ front \in [Scans -> Fronts] /\ asker \in [Scans -> Users] /\ recent \in Seq(Scans)
      /\ DailyLimit \in Nat
  BY DailyLimitTyped DEF Typed
(* A step that moves one handler and leaves the scans that count alone.     *)
<1>1. ASSUME NEW s \in Scans, NEW x \in Fronts, Goto(s, x), front[s] \in Open,
             x \in Open => x # "count" /\ front[s] # "count",
             UNCHANGED <<asker, overlap, recent>>
      PROVE  Quota(u)'
  <2>1. Recent(u)' = Recent(u)
    BY <1>1 DEF Recent
  <2>2. \A t \in Scans : front'[t] = IF t = s THEN x ELSE front[t]
    BY <1>0, <1>1 DEF Goto
  <2>3. /\ OpenOf(u)' \subseteq OpenOf(u)
        /\ \A t \in OpenOf(u)' : front'[t] # "count" => front[t] # "count"
    BY <1>1, <2>2 DEF OpenOf
  <2>4. QED
    BY <1>0, <1>1, <2>1, <2>3, QuotaKept
<1>2. ASSUME NEW s \in Scans, NEW h \in Hosts, Post(s, h) PROVE Quota(u)'
  <2>1. /\ Recent(u)' = Recent(u) /\ asker' = asker
        /\ \A t \in Scans : front'[t] = IF t = s THEN "count" ELSE front[t]
        /\ overlap' = IF OpenOf(asker[s]) # {} THEN overlap \cup {asker[s]} ELSE overlap
    BY <1>0, <1>2 DEF Post, Goto, Recent
  <2>2. CASE asker[s] # u
    <3>1. OpenOf(u)' = OpenOf(u) /\ \A t \in OpenOf(u)' : front'[t] = front[t]
      BY <2>1, <2>2 DEF OpenOf
    <3>2. u \notin overlap' => u \notin overlap
      BY <2>1
    <3>3. QED
      BY <1>0, <2>1, <3>1, <3>2, QuotaKept
  <2>3. CASE asker[s] = u /\ OpenOf(u) # {}
    <3>1. u \in overlap'
      BY <2>1, <2>3
    <3>2. QED
      BY <2>1, <3>1 DEF Quota
  <2>4. CASE asker[s] = u /\ OpenOf(u) = {}
    <3>1. OpenOf(u)' = {s} /\ front'[s] = "count"
      BY <2>1, <2>4 DEF OpenOf, Open
    <3>2. overlap' = overlap
      BY <2>1, <2>4
    <3>3. Alone(u)'
      BY <3>1 DEF Alone
    <3>4. Within(u) => Within(u)'
      BY <2>1, <3>1 DEF Within
    <3>5. QED
      BY <2>1, <3>2, <3>3, <3>4 DEF Quota
  <2>5. QED
    BY <2>2, <2>3, <2>4
<1>3. ASSUME NEW s \in Scans, Count(s) PROVE Quota(u)'
  <2>1. PICK x \in {"refused", "resolve"} :
          /\ Goto(s, x)
          /\ x = "resolve" => asker[s] \in PaidUsers \/ ~(scansToday(asker[s]) >= DailyLimit)
    BY <1>3 DEF Count
  <2>2. front[s] = "count" /\ UNCHANGED <<asker, overlap, recent>> /\ Recent(u)' = Recent(u)
    BY <1>3 DEF Count, Recent
  <2>3. CASE x = "refused"
    BY <1>1, <2>1, <2>2, <2>3 DEF Open, Fronts
  <2>4. CASE x = "resolve"
    <3>1. \A t \in Scans : front'[t] = IF t = s THEN "resolve" ELSE front[t]
      BY <1>0, <2>1, <2>4 DEF Goto
    <3>2. OpenOf(u)' = OpenOf(u)
      BY <2>2, <3>1 DEF OpenOf, Open
    <3>3. CASE asker[s] # u
      <4>1. \A t \in OpenOf(u)' : front'[t] = front[t]
        BY <2>2, <3>1, <3>3 DEF OpenOf
      <4>2. QED
        BY <1>0, <2>2, <3>2, <4>1, QuotaKept
    <3>4. CASE asker[s] = u
      <4>1. Alone(u) => Alone(u)'
        BY <3>2 DEF Alone
      <4>2. ASSUME u \notin PaidUsers, Within(u) PROVE Within(u)'
        <5>1. ~(Cardinality(Recent(u)) >= DailyLimit) /\ Cardinality(Recent(u)) \in Nat
          BY <2>1, <2>4, <3>4, <4>2, FS_CardinalityType DEF scansToday, Quota
        <5>2. Cardinality(Recent(u)) < DailyLimit
          BY <1>0, <5>1
        <5>3. QED
          BY <2>2, <4>2, <5>2 DEF Within
      <4>3. QED
        BY <2>2, <4>1, <4>2 DEF Quota
    <3>5. QED
      BY <3>3, <3>4
  <2>5. QED
    BY <2>1, <2>3, <2>4
<1>4. ASSUME NEW s \in Scans, Resolve(s) \/ InsertWebsite(s) \/ LookupWebsite(s) \/ Fails(s)
      PROVE  Quota(u)'
  <2>1. PICK x \in Fronts : /\ Goto(s, x) /\ front[s] \in Open
                            /\ x \in Open => x # "count" /\ front[s] # "count"
    BY <1>4 DEF Resolve, InsertWebsite, LookupWebsite, Fails, Open, Fronts
  <2>2. UNCHANGED <<asker, overlap, recent>>
    BY <1>4 DEF Resolve, InsertWebsite, LookupWebsite, Fails
  <2>3. QED
    BY <1>1, <2>1, <2>2
<1>5. ASSUME NEW s \in Scans, Insert(s) PROVE Quota(u)'
  <2>1. /\ front[s] = "insert" /\ asker' = asker /\ overlap' = overlap
        /\ \A t \in Scans : front'[t] = IF t = s THEN "passed" ELSE front[t]
        /\ recent' = Append(recent, s)
    BY <1>0, <1>5 DEF Insert, Goto
  <2>2. \A t \in Scans : (\E i \in DOMAIN recent' : recent'[i] = t)
                           <=> t = s \/ \E i \in DOMAIN recent : recent[i] = t
    <3>1. DOMAIN recent' = (1 .. Len(recent)) \cup {Len(recent) + 1}
          /\ DOMAIN recent = 1 .. Len(recent)
      BY <1>0, <2>1
    <3>2. recent'[Len(recent) + 1] = s /\ \A i \in 1 .. Len(recent) : recent'[i] = recent[i]
      BY <1>0, <2>1
    <3>3. QED
      BY <3>1, <3>2
  <2>3. /\ OpenOf(u)' \subseteq OpenOf(u) \ {s}
        /\ \A t \in OpenOf(u)' : front'[t] = front[t]
    BY <2>1 DEF OpenOf, Open
  <2>4. CASE asker[s] # u
    <3>1. Recent(u)' = Recent(u)
      BY <2>1, <2>2, <2>4 DEF Recent
    <3>2. QED
      BY <1>0, <2>1, <2>3, <3>1, QuotaKept
  <2>5. CASE asker[s] = u
    <3>1. Recent(u)' = Recent(u) \cup {s} /\ s \in OpenOf(u)
      BY <2>1, <2>2, <2>5 DEF Recent, OpenOf, Open
    <3>2. /\ IsFiniteSet(Recent(u)') /\ Cardinality(Recent(u)) \in Nat
          /\ Cardinality(Recent(u)') <= Cardinality(Recent(u)) + 1
          /\ Cardinality(Recent(u)') \in Nat
      <4>1. IsFiniteSet(Recent(u)) /\ Cardinality(Recent(u)) \in Nat
        BY FS_CardinalityType DEF Quota
      <4>2. /\ IsFiniteSet(Recent(u)')
            /\ Cardinality(Recent(u)') = IF s \in Recent(u) THEN Cardinality(Recent(u))
                                         ELSE Cardinality(Recent(u)) + 1
        BY <3>1, <4>1, FS_AddElement
      <4>3. QED
        BY <4>1, <4>2
    <3>3. ASSUME u \notin overlap PROVE OpenOf(u)' = {}
      BY <2>3, <3>1, <3>3 DEF Quota, Alone
    <3>4. ASSUME u \notin PaidUsers \cup overlap PROVE Within(u)'
      <4>1. Cardinality(Recent(u)) < DailyLimit
        BY <2>1, <3>1, <3>4 DEF Quota, Within
      <4>2. Cardinality(Recent(u)') <= DailyLimit
        BY <1>0, <3>2, <4>1
      <4>3. QED
        BY <3>3, <3>4, <4>2 DEF Within
    <3>5. QED
      BY <2>1, <3>2, <3>3, <3>4 DEF Quota, Alone
  <2>6. QED
    BY <2>4, <2>5
<1>6. CASE ApiCrash
  <2>1. Recent(u)' = Recent(u) /\ overlap' = overlap /\ asker' = asker
    BY <1>6 DEF ApiCrash, Recent
  <2>2. OpenOf(u)' = {}
    BY <1>6 DEF ApiCrash, OpenOf, Open
  <2>3. QED
    BY <1>0, <2>1, <2>2, QuotaKept
<1>7. CASE DayPasses
  <2>1. UNCHANGED <<asker, front, overlap>> /\ recent # <<>> /\ recent' = Tail(recent)
    BY <1>7 DEF DayPasses
  <2>2. \A t \in Scans : (\E i \in DOMAIN recent' : recent'[i] = t)
                           => \E i \in DOMAIN recent : recent[i] = t
    <3>1. /\ DOMAIN recent = 1 .. Len(recent) /\ Len(recent) \in Nat
          /\ DOMAIN recent' = 1 .. (Len(recent) - 1)
      <4>1. /\ Len(recent) \in Nat /\ DOMAIN recent = 1 .. Len(recent)
            /\ recent' \in Seq(Scans) /\ Len(recent') = Len(recent) - 1
        BY <1>0, <2>1
      <4>2. DOMAIN recent' = 1 .. Len(recent')
        BY <4>1
      <4>3. QED
        BY <4>1, <4>2
    <3>2. \A i \in 1 .. (Len(recent) - 1) :
            recent'[i] = recent[i + 1] /\ i + 1 \in 1 .. Len(recent)
      <4>1. Len(recent) \in Nat
        BY <3>1
      <4>2. \A i \in 1 .. (Len(recent) - 1) : i + 1 \in 1 .. Len(recent)
        BY <4>1
      <4>3. \A i \in 1 .. (Len(recent) - 1) : Tail(recent)[i] = recent[i + 1]
        BY <1>0, <2>1, HeadTailProperties, Zenon
      <4>4. QED
        BY <2>1, <4>2, <4>3
    <3>3. ASSUME NEW t \in Scans, NEW i \in DOMAIN recent', recent'[i] = t
          PROVE  \E j \in DOMAIN recent : recent[j] = t
      <4>1. i + 1 \in DOMAIN recent /\ recent[i + 1] = t
        BY <3>1, <3>2, <3>3
      <4>2. QED
        BY <4>1
    <3>4. QED
      BY <3>3
  <2>3. Recent(u)' \subseteq Recent(u) /\ OpenOf(u)' = OpenOf(u)
    BY <2>1, <2>2 DEF Recent, OpenOf
  <2>4. QED
    BY <1>0, <2>1, <2>3, QuotaKept
<1>8. CASE UNCHANGED frontVars
  <2>1. Recent(u)' = Recent(u) /\ OpenOf(u)' = OpenOf(u) /\ UNCHANGED <<front, overlap>>
    BY <1>8 DEF Recent, OpenOf
  <2>2. QED
    BY <1>0, <2>1, QuotaKept
<1>9. QED
  BY <1>2, <1>3, <1>4, <1>5, <1>6, <1>7, <1>8, FrontCases
-----------------------------------------------------------------------------
(* Website rows.                                                            *)

(* What a request hangs on stays: rows of websites are only added, and a    *)
(* request that does not move keeps its host and its row.                   *)
LEMMA HungKept ==
  ASSUME NEW s \in Scans, Hung(s), websites \subseteq websites',
         front'[s] = front[s] \/ front'[s] \in {"error", "count", "refused", "resolve", "website"},
         front'[s] = front[s] => host'[s] = host[s] /\ site'[s] = site[s]
  PROVE  Hung(s)'
BY DEF Hung, Known

LEMMA WebsitesStep ==
  ASSUME Typed, Websites, [Next]_vars
  PROVE  Websites'
<1>0. /\ front \in [Scans -> Fronts] /\ host \in [Scans -> Hosts \cup {NoHost}]
      /\ site \in [Scans -> SUBSET Scans]
      /\ (\A v, w \in websites : v.host = w.host => v = w) /\ (\A s \in Scans : Hung(s))
  BY DEF Typed, Websites
<1>1. ASSUME UNCHANGED websites, \A s \in Scans : Hung(s)' PROVE Websites'
  BY <1>0, <1>1 DEF Websites
<1>2. ASSUME NEW s \in Scans, NEW x, Goto(s, x),
             x \in {"error", "count", "refused", "resolve", "website"},
             \A t \in Scans \ {s} : host'[t] = host[t] /\ site'[t] = site[t],
             UNCHANGED websites
      PROVE  Websites'
  <2>1. \A t \in Scans : front'[t] = IF t = s THEN x ELSE front[t]
    BY <1>0, <1>2 DEF Goto
  <2>2. ASSUME NEW t \in Scans PROVE Hung(t)'
    <3>1. CASE t = s
      BY <1>2, <2>1, <3>1 DEF Hung
    <3>2. CASE t # s
      BY <1>0, <1>2, <2>1, <3>2, HungKept
    <3>3. QED
      BY <3>1, <3>2
  <2>3. QED
    BY <1>1, <1>2, <2>2
<1>3. ASSUME NEW s \in Scans, NEW h \in Hosts, Post(s, h) PROVE Websites'
  BY <1>0, <1>2, <1>3 DEF Post
<1>4. ASSUME NEW s \in Scans, Count(s) \/ Resolve(s) \/ Fails(s) PROVE Websites'
  BY <1>2, <1>4 DEF Count, Resolve, Fails
<1>5. ASSUME NEW s \in Scans, InsertWebsite(s) PROVE Websites'
  <2>1. CASE Known(host[s]) # {}
    <3>1. /\ \A t \in Scans : front'[t] = IF t = s THEN "lookup" ELSE front[t]
          /\ UNCHANGED <<websites, site, host>>
      BY <1>0, <1>5, <2>1 DEF InsertWebsite, Goto
    <3>2. ASSUME NEW t \in Scans PROVE Hung(t)'
      <4>1. CASE t = s
        BY <2>1, <3>1, <4>1 DEF Hung, Known
      <4>2. CASE t # s
        BY <1>0, <3>1, <4>2, HungKept
      <4>3. QED
        BY <4>1, <4>2
    <3>3. QED
      BY <1>1, <3>1, <3>2
  <2>2. CASE Known(host[s]) = {}
    <3> DEFINE n == [id |-> s, host |-> host[s]]
    <3>1. /\ \A t \in Scans : front'[t] = IF t = s THEN "insert" ELSE front[t]
          /\ websites' = websites \cup {n} /\ host' = host
          /\ site' = [site EXCEPT ![s] = {s}]
      BY <1>0, <1>5, <2>2 DEF InsertWebsite, Goto
    <3>2. n.id = s /\ n.host = host[s]
      OBVIOUS
    <3> HIDE DEF n
    <3>3. \A v, w \in websites' : v.host = w.host => v = w
      BY <1>0, <2>2, <3>1, <3>2 DEF Known
    <3>4. site'[s] = {s} /\ \A t \in Scans \ {s} : site'[t] = site[t]
      BY <1>0, <3>1
    <3>5. ASSUME NEW t \in Scans PROVE Hung(t)'
      <4>1. CASE t = s
        BY <3>1, <3>2, <3>4, <4>1 DEF Hung
      <4>2. CASE t # s
        BY <1>0, <3>1, <3>4, <4>2, HungKept
      <4>3. QED
        BY <4>1, <4>2
    <3>6. QED
      BY <3>3, <3>5 DEF Websites
  <2>3. QED
    BY <2>1, <2>2
<1>6. ASSUME NEW s \in Scans, LookupWebsite(s) PROVE Websites'
  <2>1. /\ \A t \in Scans : front'[t] = IF t = s THEN "insert" ELSE front[t]
        /\ UNCHANGED <<websites, host>>
    BY <1>0, <1>6 DEF LookupWebsite, Goto
  <2>2. PICK w \in Known(host[s]) : site' = [site EXCEPT ![s] = {w.id}]
    BY <1>6 DEF LookupWebsite
  <2>3. site'[s] = {w.id} /\ \A t \in Scans \ {s} : site'[t] = site[t]
    BY <1>0, <2>2
  <2>4. w \in websites' /\ w.host = host'[s]
    BY <2>1 DEF Known
  <2>5. ASSUME NEW t \in Scans PROVE Hung(t)'
    <3>1. CASE t = s
      BY <2>1, <2>3, <2>4, <3>1 DEF Hung
    <3>2. CASE t # s
      BY <1>0, <2>1, <2>3, <3>2, HungKept
    <3>3. QED
      BY <3>1, <3>2
  <2>6. QED
    BY <1>1, <2>1, <2>5
<1>7. ASSUME NEW s \in Scans, Insert(s) PROVE Websites'
  <2>1. /\ \A t \in Scans : front'[t] = IF t = s THEN "passed" ELSE front[t]
        /\ front[s] = "insert" /\ UNCHANGED <<websites, host, site>>
    BY <1>0, <1>7 DEF Insert, Goto
  <2>2. ASSUME NEW t \in Scans PROVE Hung(t)'
    <3>1. CASE t = s
      BY <1>0, <2>1, <3>1 DEF Hung
    <3>2. CASE t # s
      BY <1>0, <2>1, <3>2, HungKept
    <3>3. QED
      BY <3>1, <3>2
  <2>3. QED
    BY <1>1, <2>1, <2>2
<1>8. CASE ApiCrash
  <2>1. /\ front' = [s \in Scans |-> IF front[s] \in Open THEN "error" ELSE front[s]]
        /\ UNCHANGED <<websites, host, site>>
    BY <1>8 DEF ApiCrash
  <2>2. ASSUME NEW t \in Scans PROVE Hung(t)'
    <3>1. front'[t] = "error" \/ front'[t] = front[t]
      BY <2>1
    <3>2. QED
      BY <1>0, <2>1, <3>1, HungKept
  <2>3. QED
    BY <1>1, <2>1, <2>2
<1>9. CASE UNCHANGED <<front, host, site, websites>>
  BY <1>0, <1>1, <1>9, HungKept
<1>10. QED
  BY <1>3, <1>4, <1>5, <1>6, <1>7, <1>8, <1>9, FrontCases DEF DayPasses

-----------------------------------------------------------------------------
(* Rows that nobody attends to.                                             *)

RunsTyped ==
  /\ pc \in [Scans -> [L!Runs -> L!PCs]]
  /\ status \in [Scans -> L!Statuses]
  /\ request \in [Scans -> L!RequestStates]
  /\ started \in [Scans -> Nat]

(* Under the inline driver a scan has one run, and what it leaves at its    *)
(* end is settled or noted.                                                 *)
OneRun(s) ==
  /\ request[s] \in {"new", "enqueue"} =>
       started[s] = 0 /\ \A k \in L!Runs : pc[s][k] = "unborn"
  /\ \A j, k \in L!Runs : pc[s][j] # "unborn" /\ pc[s][k] # "unborn" => j = k
Told(s) ==
  /\ \A k \in L!Runs : pc[s][k] = "stamp" => status[s] = "succeeded"
  /\ front[s] = "passed" => L!Settled(s) \/ Attended(s) \/ s \in stranded

RInv == RunsTyped /\ \A s \in Scans : OneRun(s) /\ Told(s)

LEMMA FirstRun == 1 \in L!Runs
BY AttemptsTyped DEF L!Runs, L!MaxRuns

(* What a run does: it moves on to a step that can still write the row, or  *)
(* ends with the row settled or noted, or had ended.                        *)
LEMMA RunCases ==
  ASSUME RunsTyped, NEW s \in Scans, NEW k \in L!Runs, RunStep(s, k)
  PROVE  /\ UNCHANGED <<request, started, front>> /\ pc[s][k] # "unborn"
         /\ stranded' \in {stranded, stranded \cup {s}}
         /\ \E l \in L!PCs \ {"unborn"} :
              /\ pc' = [pc EXCEPT ![s][k] = l]
              /\ \/ /\ l \in L!FailingSteps \ {"stamp"}
                    /\ status' = status \/ status' = [status EXCEPT ![s] = "running"]
                 \/ l = "stamp" /\ status' = [status EXCEPT ![s] = "succeeded"]
                 \/ /\ l \notin L!FailingSteps /\ status' = [status EXCEPT ![s] = "failed"]
                 \/ /\ l \notin L!FailingSteps /\ status' = status
                    /\ \/ status[s] = "cancelled" \/ s \in stranded'
                       \/ pc[s][k] = "stamp" \/ pc[s][k] \notin L!FailingSteps
<1> USE DEF L!Goto, L!PCs, L!Gone, L!FailingSteps
<1>1. L!RunStep(s, k) /\ UNCHANGED front /\ stranded' \in {stranded, stranded \cup {s}}
  BY DEF RunStep, frontVars
<1>2. CASE L!ReadRow(s, k)
  <2>1. /\ pc[s][k] = "read" /\ UNCHANGED <<request, started, status>>
        /\ \/ pc' = [pc EXCEPT ![s][k] = "mark"]
           \/ status[s] = "cancelled" /\ pc' = [pc EXCEPT ![s][k] = "returned"]
    BY <1>2 DEF L!ReadRow, L!rowVars, L!jobVars
  <2>2. QED
    BY <1>1, <2>1
<1>3. CASE L!MarkRunning(s, k) \/ L!MarkSucceeded(s, k) \/ L!MarkFailed(s, k)
  <2>1. /\ pc[s][k] # "unborn" /\ UNCHANGED <<request, started>>
        /\ \/ /\ pc' = [pc EXCEPT ![s][k] = "crawl"]
              /\ status' = [status EXCEPT ![s] = "running"]
           \/ /\ pc' = [pc EXCEPT ![s][k] = "stamp"]
              /\ status' = [status EXCEPT ![s] = "succeeded"]
           \/ /\ pc' = [pc EXCEPT ![s][k] = "thrown"]
              /\ status' = [status EXCEPT ![s] = "failed"]
    BY <1>3 DEF L!MarkRunning, L!MarkSucceeded, L!MarkFailed, L!jobVars
  <2>2. QED
    BY <1>1, <2>1
<1>4. CASE \/ L!Crawl(s, k) \/ L!PutBytes(s, k) \/ L!InsertAsset(s, k)
           \/ L!InsertTechs(s, k) \/ L!StampWebsite(s, k)
  <2>1. /\ pc[s][k] # "unborn" /\ UNCHANGED <<request, started, status>>
        /\ \/ \E l \in {"put", "asset", "techs", "succeed", "fail"} :
                pc' = [pc EXCEPT ![s][k] = l]
           \/ pc[s][k] = "stamp" /\ pc' = [pc EXCEPT ![s][k] = "returned"]
    BY <1>4 DEF L!Crawl, L!PutBytes, L!InsertAsset, L!InsertTechs, L!StampWebsite,
                L!rowVars, L!jobVars
  <2>2. QED
    BY <1>1, <2>1
<1>5. CASE L!StepFails(s, k)
  <2>1. /\ pc[s][k] \in L!FailingSteps /\ pc' = [pc EXCEPT ![s][k] = L!Handler(pc[s][k])]
        /\ UNCHANGED <<request, started, status>>
    BY <1>5 DEF L!StepFails, L!rowVars, L!jobVars
  <2>2. pc[s][k] \in {"read", "mark", "fallback"} => s \in stranded'
    BY <1>5 DEF RunStep
  <2>3. \/ pc[s][k] \in {"read", "mark", "fallback"} /\ L!Handler(pc[s][k]) = "thrown"
        \/ L!Handler(pc[s][k]) \in {"fallback", "fail"}
    BY <2>1 DEF L!Handler
  <2>4. QED
    BY <1>1, <2>1, <2>2, <2>3
<1>6. CASE L!Return(s, k) \/ L!Throw(s, k)
  BY <1>1, <1>6 DEF L!Return, L!Throw, L!rowVars
<1>7. QED
  BY <1>1, <1>2, <1>3, <1>4, <1>5, <1>6 DEF L!RunStep

(* A scan that a step leaves alone.                                         *)
LEMMA ToldKept ==
  ASSUME NEW t \in Scans, OneRun(t), Told(t),
         request'[t] = request[t], started'[t] = started[t], status'[t] = status[t],
         \A k \in L!Runs : pc'[t][k] = pc[t][k],
         front'[t] = "passed" => front[t] = "passed", stranded \subseteq stranded'
  PROVE  OneRun(t)' /\ Told(t)'
<1>1. OneRun(t)'
  BY DEF OneRun
<1>2. (Attended(t) => Attended(t)') /\ (L!Settled(t) => L!Settled(t)')
  BY DEF Attended, L!Settled
<1>3. QED
  BY <1>1, <1>2 DEF Told

LEMMA ToldStep ==
  ASSUME RInv, [Next]_vars, front \in [Scans -> Fronts]
  PROVE  RInv'
<1>0. /\ pc \in [Scans -> [L!Runs -> L!PCs]] /\ status \in [Scans -> L!Statuses]
      /\ request \in [Scans -> L!RequestStates] /\ started \in [Scans -> Nat]
      /\ \A s \in Scans : OneRun(s) /\ Told(s)
  BY DEF RInv, RunsTyped
<1>1. ASSUME UNCHANGED <<pc, status, request, started>>, stranded \subseteq stranded',
             \A s \in Scans : front'[s] = "passed" => front[s] = "passed"
      PROVE  RInv'
  BY <1>0, <1>1, ToldKept DEF RInv, RunsTyped
<1>2. ASSUME NEW s \in Scans, Insert(s) PROVE RInv'
  <2>1. /\ request[s] = "new" /\ request' = [request EXCEPT ![s] = "enqueue"]
        /\ status' = [status EXCEPT ![s] = "queued"]
        /\ front' = [front EXCEPT ![s] = "passed"]
        /\ UNCHANGED <<pc, started, stranded>>
    BY <1>2 DEF Insert, Goto, L!InsertScan, L!jobVars, L!runVars
  <2>2. ASSUME NEW t \in Scans PROVE OneRun(t)' /\ Told(t)'
    <3>1. CASE t = s
      <4>1. request'[t] = "enqueue"
        BY <1>0, <2>1, <3>1
      <4>2. \A k \in L!Runs : pc'[t][k] = "unborn"
        BY <1>0, <2>1, <3>1 DEF OneRun
      <4>3. OneRun(t)'
        BY <1>0, <2>1, <3>1, <4>1, <4>2 DEF OneRun
      <4>4. QED
        BY <4>1, <4>2, <4>3 DEF Told, Attended
    <3>2. CASE t # s
      BY <1>0, <2>1, <3>2, ToldKept
    <3>3. QED
      BY <3>1, <3>2
  <2>3. RunsTyped'
    BY <1>0, <2>1 DEF RunsTyped, L!Statuses, L!RequestStates
  <2>4. QED
    BY <2>2, <2>3 DEF RInv
<1>3. ASSUME NEW s \in Scans, EnqueueStep(s) PROVE RInv'
  <2>1. UNCHANGED <<front, status>> /\ stranded \subseteq stranded'
    BY <1>3 DEF EnqueueStep, frontVars, L!Enqueue, L!LinkJob, L!RequestFails, L!rowVars
  <2>2. PICK x \in {"link", "accepted", "error"} : request' = [request EXCEPT ![s] = x]
    BY <1>3 DEF EnqueueStep, L!Enqueue, L!LinkJob, L!RequestFails
  <2>3. \/ /\ request[s] = "enqueue" /\ started' = [started EXCEPT ![s] = started[s] + 1]
           /\ pc' = [pc EXCEPT ![s][started[s] + 1] = "read"]
        \/ /\ UNCHANGED <<pc, started>>
           /\ request[s] # "enqueue" \/ s \in stranded'
    BY <1>3, RunsAreInline
       DEF EnqueueStep, L!Enqueue, L!StartRun, L!Goto, L!LinkJob, L!RequestFails,
           L!jobVars, L!runVars
  <2>4. CASE request[s] = "enqueue" /\ pc' = [pc EXCEPT ![s][started[s] + 1] = "read"]
             /\ started' = [started EXCEPT ![s] = started[s] + 1]
    <3>1. started[s] = 0 /\ \A k \in L!Runs : pc[s][k] = "unborn"
      BY <1>0, <2>4 DEF OneRun
    <3>2. /\ started' = [started EXCEPT ![s] = 1]
          /\ pc' = [pc EXCEPT ![s][1] = "read"] /\ "read" \in L!PCs
      BY <2>4, <3>1 DEF L!PCs, L!FailingSteps
    <3>3. \A t \in Scans, k \in L!Runs :
            pc'[t][k] = IF t = s /\ k = 1 THEN "read" ELSE pc[t][k]
      BY <1>0, <3>2
    <3>4. ASSUME NEW t \in Scans PROVE OneRun(t)' /\ Told(t)'
      <4>1. CASE t = s
        <5>1. OneRun(t)'
          <6>1. request'[t] = x
            BY <1>0, <2>2, <4>1
          <6>2. QED
            BY <3>1, <3>3, <4>1, <6>1 DEF OneRun
        <5>2. Attended(t)'
          BY <3>3, <4>1, FirstRun DEF Attended, L!FailingSteps
        <5>3. QED
          BY <3>1, <3>3, <4>1, <5>1, <5>2 DEF Told
      <4>2. CASE t # s
        <5>1. /\ request'[t] = request[t] /\ started'[t] = started[t]
              /\ \A k \in L!Runs : pc'[t][k] = pc[t][k]
          BY <1>0, <2>2, <3>2, <3>3, <4>2
        <5>2. QED
          BY <1>0, <2>1, <5>1, ToldKept
      <4>3. QED
        BY <4>1, <4>2
    <3>5. RunsTyped'
      <4>1. pc' \in [Scans -> [L!Runs -> L!PCs]]
        BY <1>0, <3>2
      <4>2. request' \in [Scans -> L!RequestStates] /\ started' \in [Scans -> Nat]
        BY <1>0, <2>2, <3>2 DEF L!RequestStates
      <4>3. QED
        BY <1>0, <2>1, <4>1, <4>2 DEF RunsTyped
    <3>6. QED
      BY <3>4, <3>5 DEF RInv
  <2>5. CASE UNCHANGED <<pc, started>> /\ (request[s] # "enqueue" \/ s \in stranded')
    <3>1. RunsTyped'
      BY <1>0, <2>1, <2>2, <2>5 DEF RunsTyped, L!RequestStates
    <3>2. ASSUME NEW t \in Scans PROVE OneRun(t)' /\ Told(t)'
      <4>1. CASE t = s
        <5>1. request'[t] = x
          BY <1>0, <2>2, <4>1
        <5>2. OneRun(t)'
          BY <1>0, <2>5, <5>1 DEF OneRun
        <5>3. Attended(t) => Attended(t)' \/ t \in stranded'
          BY <2>5, <4>1 DEF Attended
        <5>4. L!Settled(t)' <=> L!Settled(t)
          BY <2>1 DEF L!Settled
        <5>5. QED
          BY <1>0, <2>1, <2>5, <5>2, <5>3, <5>4 DEF Told
      <4>2. CASE t # s
        BY <1>0, <2>1, <2>2, <2>5, <4>2, ToldKept
      <4>3. QED
        BY <4>1, <4>2
    <3>3. QED
      BY <3>1, <3>2 DEF RInv
  <2>6. QED
    BY <2>3, <2>4, <2>5
<1>4. ASSUME NEW s \in Scans, Cancel(s) PROVE RInv'
  <2>1. /\ status[s] = "queued" /\ status' = [status EXCEPT ![s] = "cancelled"]
        /\ UNCHANGED <<pc, request, started, front, stranded>>
    BY <1>4 DEF Cancel, L!Cancel, L!jobVars, L!runVars, frontVars
  <2>2. ASSUME NEW t \in Scans PROVE OneRun(t)' /\ Told(t)'
    <3>1. CASE t = s
      <4>1. L!Settled(t)'
        BY <1>0, <2>1, <3>1 DEF L!Settled
      <4>2. \A k \in L!Runs : pc'[t][k] # "stamp"
        BY <1>0, <2>1, <3>1 DEF Told
      <4>3. OneRun(t)'
        BY <1>0, <2>1 DEF OneRun
      <4>4. QED
        BY <4>1, <4>2, <4>3 DEF Told
    <3>2. CASE t # s
      BY <1>0, <2>1, <3>2, ToldKept
    <3>3. QED
      BY <3>1, <3>2
  <2>3. RunsTyped'
    BY <1>0, <2>1 DEF RunsTyped, L!Statuses
  <2>4. QED
    BY <2>2, <2>3 DEF RInv
<1>5. ASSUME NEW s \in Scans, NEW k \in L!Runs, RunStep(s, k) PROVE RInv'
  <2>1. /\ UNCHANGED <<request, started, front>> /\ pc[s][k] # "unborn"
        /\ stranded \subseteq stranded'
    BY <1>5, RunCases DEF RInv
  <2>2. PICK l \in L!PCs \ {"unborn"} :
          /\ pc' = [pc EXCEPT ![s][k] = l]
          /\ \/ /\ l \in L!FailingSteps \ {"stamp"}
                /\ status' = status \/ status' = [status EXCEPT ![s] = "running"]
             \/ l = "stamp" /\ status' = [status EXCEPT ![s] = "succeeded"]
             \/ /\ l \notin L!FailingSteps /\ status' = [status EXCEPT ![s] = "failed"]
             \/ /\ l \notin L!FailingSteps /\ status' = status
                /\ \/ status[s] = "cancelled" \/ s \in stranded'
                   \/ pc[s][k] = "stamp" \/ pc[s][k] \notin L!FailingSteps
    BY <1>5, RunCases DEF RInv
  <2>3. \A t \in Scans, j \in L!Runs :
          pc'[t][j] = IF t = s /\ j = k THEN l ELSE pc[t][j]
    BY <1>0, <2>2
  <2>4. \A j \in L!Runs : j # k => pc[s][j] = "unborn" /\ pc'[s][j] = "unborn"
    BY <1>0, <2>1, <2>3 DEF OneRun
  <2>5. OneRun(s)'
    <3>1. request[s] \notin {"new", "enqueue"}
      BY <1>0, <2>1 DEF OneRun
    <3>2. QED
      BY <2>1, <2>4, <3>1 DEF OneRun
  <2>6. pc'[s][k] = l
    BY <2>3
  <2>7. l = "stamp" => status'[s] = "succeeded"
    BY <1>0, <2>2 DEF L!FailingSteps
  <2>8. front'[s] = "passed" => (L!Settled(s) \/ Attended(s) \/ s \in stranded)'
    <3>1. CASE l \in L!FailingSteps
      BY <2>6, <3>1 DEF Attended
    <3>2. CASE status' = [status EXCEPT ![s] = "failed"]
      BY <1>0, <3>2 DEF L!Settled
    <3>3. CASE status' = status /\ (status[s] = "cancelled" \/ s \in stranded')
      BY <3>3 DEF L!Settled
    <3>4. CASE status' = status /\ pc[s][k] = "stamp"
      <4>1. status[s] = "succeeded"
        BY <1>0, <3>4 DEF Told
      <4>2. QED
        BY <3>4, <4>1 DEF L!Settled
    <3>5. CASE status' = status /\ pc[s][k] \notin L!FailingSteps
      <4>1. Attended(s) => request'[s] = "enqueue"
        BY <2>1, <2>4, <3>5 DEF Attended, L!FailingSteps
      <4>2. Attended(s) => Attended(s)'
        BY <4>1 DEF Attended
      <4>3. L!Settled(s) => L!Settled(s)'
        BY <3>5 DEF L!Settled
      <4>4. QED
        BY <1>0, <2>1, <4>2, <4>3 DEF Told
    <3>6. QED
      BY <2>2, <3>1, <3>2, <3>3, <3>4, <3>5 DEF L!FailingSteps
  <2>9. Told(s)'
    <3>1. \A j \in L!Runs : pc'[s][j] = "stamp" => status'[s] = "succeeded"
      BY <2>4, <2>6, <2>7
    <3>2. QED
      BY <2>8, <3>1 DEF Told
  <2>10. ASSUME NEW t \in Scans, t # s PROVE OneRun(t)' /\ Told(t)'
    <3>1. status'[t] = status[t] /\ \A j \in L!Runs : pc'[t][j] = pc[t][j]
      BY <1>0, <2>2, <2>3, <2>10
    <3>2. QED
      BY <1>0, <2>1, <3>1, ToldKept
  <2>11. RunsTyped'
    <3>1. status' \in [Scans -> L!Statuses]
      BY <1>0, <2>2 DEF L!Statuses
    <3>2. pc' \in [Scans -> [L!Runs -> L!PCs]]
      BY <1>0, <2>2
    <3>3. QED
      BY <1>0, <2>1, <3>1, <3>2 DEF RunsTyped
  <2>12. QED
    BY <2>5, <2>9, <2>10, <2>11 DEF RInv
<1>6. CASE ApiCrash
  <2>1. /\ UNCHANGED <<status, started>>
        /\ request' = [s \in Scans |-> IF request[s] \in {"enqueue", "link"}
                                         THEN "error" ELSE request[s]]
        /\ pc' = [s \in Scans |-> [k \in L!Runs |->
                    IF L!Live(s, k) THEN "dead" ELSE pc[s][k]]]
        /\ front' = [s \in Scans |-> IF front[s] \in Open THEN "error" ELSE front[s]]
        /\ stranded' = stranded \cup {s \in Scans : front[s] = "passed" /\ ~L!Settled(s)}
    BY <1>6, RunsAreInline DEF ApiCrash, L!ApiCrash, L!KillRuns, L!rowVars, L!jobVars
  <2>2. ASSUME NEW t \in Scans PROVE OneRun(t)' /\ Told(t)'
    <3>1. \A k \in L!Runs :
            pc'[t][k] = pc[t][k] \/ (pc'[t][k] = "dead" /\ pc[t][k] # "unborn")
      BY <2>1 DEF L!Live, L!Gone
    <3>2. request'[t] \in {"new", "enqueue"} => request[t] = "new"
      BY <1>0, <2>1 DEF L!RequestStates
    <3>3. OneRun(t)'
      BY <1>0, <2>1, <3>1, <3>2 DEF OneRun
    <3>4. front'[t] = "passed" => front[t] = "passed"
      BY <2>1
    <3>5. front[t] = "passed" => L!Settled(t) \/ t \in stranded'
      BY <2>1
    <3>6. L!Settled(t)' <=> L!Settled(t)
      BY <2>1 DEF L!Settled
    <3>7. QED
      BY <1>0, <2>1, <3>1, <3>3, <3>4, <3>5, <3>6 DEF Told
  <2>3. RunsTyped'
    <3>1. pc' \in [Scans -> [L!Runs -> L!PCs]]
      BY <1>0, <2>1 DEF L!PCs, L!Gone
    <3>2. request' \in [Scans -> L!RequestStates]
      BY <1>0, <2>1 DEF L!RequestStates
    <3>3. QED
      BY <1>0, <2>1, <3>1, <3>2 DEF RunsTyped
  <2>4. QED
    BY <2>2, <2>3 DEF RInv
<1>7. ASSUME NEW s \in Scans, NEW h \in Hosts, Post(s, h) PROVE RInv'
  BY <1>1, <1>7 DEF Post, Goto
<1>8. ASSUME NEW s \in Scans,
             Count(s) \/ Resolve(s) \/ InsertWebsite(s) \/ LookupWebsite(s) \/ Fails(s)
      PROVE  RInv'
  <2>1. UNCHANGED <<scanVars, stranded>> /\ \E x : x # "passed" /\ front' = [front EXCEPT ![s] = x]
    BY <1>8 DEF Count, Resolve, InsertWebsite, LookupWebsite, Fails, Goto
  <2>2. QED
    BY <1>1, <2>1
<1>9. CASE DayPasses
  BY <1>1, <1>9 DEF DayPasses
<1>10. CASE UNCHANGED vars
  BY <1>1, <1>10
<1>11. QED
  BY <1>2, <1>3, <1>4, <1>5, <1>6, <1>7, <1>8, <1>9, <1>10, NextCases

-----------------------------------------------------------------------------
(* Theorems.                                                                *)

LEMMA Invariant == Spec => []IInv
<1>1. Init => IInv
  <2> SUFFICES ASSUME Init PROVE IInv
    OBVIOUS
  <2>1. Typed
    BY AskersTyped DEF Init, Typed, Fronts
  <2>2. ASSUME NEW u \in Users PROVE Quota(u)
    <3>1. Recent(u) = {} /\ OpenOf(u) = {}
      BY DEF Init, Recent, OpenOf, Open
    <3>2. IsFiniteSet(Recent(u)) /\ Cardinality(Recent(u)) = 0
      BY <3>1, FS_EmptySet
    <3>3. QED
      BY <3>1, <3>2, DailyLimitTyped DEF Quota, Alone, Within
  <2>3. Websites
    BY DEF Init, Websites, Hung
  <2>4. QED
    BY <2>1, <2>2, <2>3 DEF IInv
<1>2. IInv /\ [Next]_vars => IInv'
  BY TypedStep, QuotaStep, WebsitesStep DEF IInv
<1>3. QED
  BY <1>1, <1>2, PTL DEF Spec

(* assertScanQuota: whose requests never overlapped has DailyLimit scans in *)
(* 24 hours at most, whatever the handlers of the others do.                *)
THEOREM QuotaIsKept == Spec => []QuotaHoldsOneAtATime
<1>1. IInv => QuotaHoldsOneAtATime
  BY DEF IInv, Quota, Within, QuotaHoldsOneAtATime
<1>2. QED
  BY <1>1, Invariant, PTL

(* upsertWebsite: a host has one row, however many requests insert it at    *)
(* once, and every scan of the host refers to it.                           *)
THEOREM HostsHaveOneWebsite == Spec => []OneWebsitePerHost
<1>1. IInv => OneWebsitePerHost
  BY DEF IInv, Websites, Hung, OneWebsitePerHost
<1>2. QED
  BY <1>1, Invariant, PTL

(* Under the inline driver no row is left at 'queued' or 'running' with     *)
(* nobody to settle it, unless the process died, the handler failed before  *)
(* it had started the run, or one of the failures of the run happened that  *)
(* leave no word.                                                           *)
THEOREM RowsAreAttended == Spec => []UnsettledIsAttended
<1>1. Init => RInv
  <2> SUFFICES ASSUME Init PROVE RInv
    OBVIOUS
  <2>1. L!Init /\ front = [s \in Scans |-> "idle"]
    BY DEF Init
  <2>2. RunsTyped
    BY <2>1 DEF L!Init, RunsTyped, L!Statuses, L!RequestStates, L!PCs, L!Gone
  <2>3. ASSUME NEW s \in Scans PROVE OneRun(s) /\ Told(s)
    BY <2>1 DEF L!Init, OneRun, Told
  <2>4. QED
    BY <2>2, <2>3 DEF RInv
<1>2. IInv /\ RInv /\ [Next]_vars => RInv'
  BY ToldStep DEF IInv, Typed
<1>3. RInv => UnsettledIsAttended
  BY DEF RInv, Told, UnsettledIsAttended
<1>4. QED
  BY <1>1, <1>2, <1>3, Invariant, PTL DEF Spec

(* What requestScan and the run do to a scan, with the quota and the        *)
(* website in front of it, is what ScanLifecycle says: its theorems hold    *)
(* here.                                                                    *)
THEOREM RequestsAreLifecycles == Spec => L!Spec
<1>1. Init => L!Init
  BY DEF Init
<1>2. [Next]_vars => [L!Next]_(L!vars)
  <2> SUFFICES ASSUME [Next]_vars PROVE L!Next \/ UNCHANGED scanVars
    BY DEF L!vars, L!rowVars, L!jobVars, L!runVars, L!storeVars
  <2>1. ASSUME NEW s \in Scans, Insert(s) PROVE L!Next
    BY <2>1 DEF Insert, L!Next, L!RequestStep
  <2>2. ASSUME NEW s \in Scans, EnqueueStep(s) \/ Cancel(s) PROVE L!Next
    BY <2>2 DEF EnqueueStep, Cancel, L!Next, L!RequestStep
  <2>3. ASSUME NEW s \in Scans, NEW k \in L!Runs, RunStep(s, k) PROVE L!Next
    BY <2>3 DEF RunStep, L!Next
  <2>4. CASE ApiCrash
    BY <2>4 DEF ApiCrash, L!Next
  <2>5. QED
    BY <2>1, <2>2, <2>3, <2>4
       DEF Next, FrontStep, Post, Count, Resolve, InsertWebsite, LookupWebsite, Fails, DayPasses
<1>3. QED
  BY <1>1, <1>2, PTL DEF Spec, L!Spec
=============================================================================
