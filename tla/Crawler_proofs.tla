---------------------------- MODULE Crawler_proofs ----------------------------
(***************************************************************************)
(* What holds of Crawler for any number of crawls, pages, assets and        *)
(* browsers, and any caps.                                                  *)
(***************************************************************************)
EXTENDS Crawler, FiniteSetTheorems, TLAPS

(* NoAssetTwice, made inductive: what is being read or was captured is      *)
(* noted as seen, is read by one handler, and not read any more once it is  *)
(* captured.                                                                *)
CapturedOnce(c) ==
  /\ \A u \in Assets : reading[c][u] <= 1 /\ (reading[c][u] > 0 => u \in seen[c])
  /\ \A i \in DOMAIN assets[c] :
       assets[c][i].url \in seen[c] /\ reading[c][assets[c][i].url] = 0
  /\ \A i, j \in DOMAIN assets[c] : assets[c][i].url = assets[c][j].url => i = j

(* CapHoldsUnlessOverlap, made inductive: without an overlap the one body   *)
(* that may be under way still has room.                                    *)
RoomForBody(c) == c \in overlap \/
  /\ Len(assets[c]) <= MaxAssets
  /\ \A u \in Assets : reading[c][u] > 0 => Len(assets[c]) < MaxAssets
  /\ \A u, v \in Assets : reading[c][u] > 0 /\ reading[c][v] > 0 => u = v

(* ContextsAreClosed: a context is open only between newContext and the     *)
(* close.                                                                   *)
Opened == Asked \cup {"page", "goto", "settle", "count", "close"}
ContextsOpened == \A c \in context : pc[c] \in Opened

(* SpareBrowsersComeFromRaces: the browser that a launch under way will     *)
(* overwrite is dead, or the launch began before it ran.                    *)
LaunchesRace == \A c \in Crawls :
  pc[c] = "launch" /\ browser \in alive => browser > began[c]

Captures == \A c \in Crawls : CapturedOnce(c) /\ RoomForBody(c)
Browsers == SpareBrowsersComeFromRaces /\ LaunchesRace
IInv == TypeOK /\ Captures /\ ContextsOpened /\ Browsers

-----------------------------------------------------------------------------
(* Types.                                                                   *)


Entry == [url : Assets, truncated : BOOLEAN]
Recorded == {U \in SUBSET Urls : Cardinality(U) <= MaxRequested}

BrowserTyped ==
  /\ alive \subseteq Instances /\ raced \subseteq Instances
  /\ browser \in 0 .. launched /\ launched \in 0 .. MaxLaunches
  /\ stopped \in BOOLEAN /\ began \in [Crawls -> 0 .. launched]
  /\ using \in [Crawls -> 0 .. launched]
PlaceTyped ==
  /\ pc \in [Crawls -> Labels]
  /\ context \subseteq Crawls
  /\ outcome \in [Crawls -> {"none", "captured", "refused", "fault"}]
CaptureTyped ==
  /\ requested \in [Crawls -> Recorded]
  /\ seen \in [Crawls -> SUBSET Assets]
  /\ reading \in [Crawls -> [Assets -> 0 .. MaxRepeats]]
  /\ assets \in [Crawls -> Seq(Entry)]
  /\ overlap \subseteq Crawls
  /\ missing \in [Crawls -> Nat]

LEMMA TypeParts ==
  /\ TypeOK <=> BrowserTyped /\ PlaceTyped /\ CaptureTyped
  /\ TypeOK' <=> BrowserTyped' /\ PlaceTyped' /\ CaptureTyped'
BY DEF TypeOK, BrowserTyped, PlaceTyped, CaptureTyped, Entry, Recorded

LEMMA FollowingTyped == \A step \in Asked : Following[step] \in Asked \cup {"count"}
BY DEF Asked, Following

(* A list of requested URLs that is not full has room for one more.         *)
LEMMA RecordTyped ==
  ASSUME CaptureTyped, NEW c \in Crawls, NEW u \in Urls, Record(c, u)
  PROVE  requested' \in [Crawls -> Recorded]
<1>1. requested[c] \in SUBSET Urls /\ IsFiniteSet(requested[c])
  BY UrlsTyped, FS_Subset DEF CaptureTyped, Recorded
<1>2. Cardinality(requested[c]) \in Nat /\ Cardinality(requested[c] \cup {u}) \in Nat
      /\ Cardinality(requested[c] \cup {u}) <= Cardinality(requested[c]) + 1
  <2> DEFINE R == requested[c]
  <2>1. IsFiniteSet(R)
    BY <1>1
  <2> HIDE DEF R
  <2>2. /\ Cardinality(R) \in Nat
        /\ Cardinality(R \cup {u}) = IF u \in R THEN Cardinality(R) ELSE Cardinality(R) + 1
    BY <2>1, FS_CardinalityType, FS_AddElement
  <2>3. QED
    BY <2>2 DEF R
<1>3. Cardinality(requested[c]) < MaxRequested => requested[c] \cup {u} \in Recorded
  BY <1>1, <1>2, BoundsTyped DEF Recorded
<1>4. CASE Cardinality(requested[c]) < MaxRequested
  <2>1. requested' = [requested EXCEPT ![c] = @ \cup {u}]
    BY <1>4 DEF Record
  <2>2. QED
    BY <1>3, <1>4, <2>1 DEF CaptureTyped
<1>5. CASE ~(Cardinality(requested[c]) < MaxRequested)
  BY <1>5 DEF CaptureTyped, Record
<1>6. QED
  BY <1>4, <1>5

LEMMA TypeInit == Init => TypeOK
<1> SUFFICES ASSUME Init PROVE BrowserTyped /\ PlaceTyped /\ CaptureTyped
  BY TypeParts
<1>1. {} \in Recorded
  <2>1. Cardinality({}) = 0
    BY FS_EmptySet
  <2>2. QED
    BY <2>1, BoundsTyped DEF Recorded
<1>2. BrowserTyped /\ PlaceTyped
  <2>1. 0 \in 0 .. launched /\ 0 \in 0 .. MaxLaunches
    BY BoundsTyped DEF Init
  <2>2. BrowserTyped
    BY <2>1 DEF Init, BrowserTyped
  <2>3. PlaceTyped
    BY DEF Init, PlaceTyped, Labels
  <2>4. QED
    BY <2>2, <2>3
<1>3. requested \in [Crawls -> Recorded] /\ seen \in [Crawls -> SUBSET Assets]
  BY <1>1 DEF Init
<1>4. reading \in [Crawls -> [Assets -> 0 .. MaxRepeats]]
  BY BoundsTyped DEF Init
<1>5. assets \in [Crawls -> Seq(Entry)]
  <2>1. <<>> \in Seq(Entry)
    OBVIOUS
  <2>2. assets = [c \in Crawls |-> <<>>]
    BY DEF Init
  <2>3. QED
    BY <2>1, <2>2
<1>6. overlap \subseteq Crawls /\ missing \in [Crawls -> Nat]
  BY DEF Init
<1>7. QED
  BY <1>2, <1>3, <1>4, <1>5, <1>6 DEF CaptureTyped

LEMMA CaptureTypedKept ==
  ASSUME CaptureTyped, UNCHANGED captureVars, UNCHANGED missing PROVE CaptureTyped'
BY DEF CaptureTyped, captureVars

LEMMA BrowserTypedKept ==
  ASSUME BrowserTyped, UNCHANGED browserVars, UNCHANGED using PROVE BrowserTyped'
BY DEF BrowserTyped, browserVars

LEMMA PlaceTypedKept ==
  ASSUME PlaceTyped, UNCHANGED <<pc, context, outcome>> PROVE PlaceTyped'
BY DEF PlaceTyped

(* The steps that move a crawl and leave browsers and captures alone.       *)
LEMMA MoveTyped ==
  ASSUME TypeOK, NEW c \in Crawls,
         \/ LaunchFails(c) \/ NewContext(c) \/ NewPage(c) \/ OpenFails(c) \/ Loaded(c)
         \/ LoadFails(c) \/ Settle(c) \/ Answered(c) \/ AnswerFails(c)
  PROVE  TypeOK'
<1>1. UNCHANGED captureVars /\ UNCHANGED missing /\ UNCHANGED browserVars /\ UNCHANGED using
  BY DEF LaunchFails, NewContext, NewPage, OpenFails, Loaded, LoadFails, Settle,
         Answered, AnswerFails
<1>2. PlaceTyped
  BY TypeParts
<1>3. CASE LaunchFails(c) \/ NewContext(c) \/ NewPage(c) \/ OpenFails(c)
  BY <1>1, <1>2, <1>3, TypeParts, CaptureTypedKept, BrowserTypedKept
     DEF PlaceTyped, LaunchFails, NewContext, NewPage, OpenFails, Throw, Goto, Labels
<1>4. CASE Loaded(c) \/ LoadFails(c) \/ Settle(c)
  BY <1>1, <1>2, <1>4, TypeParts, CaptureTypedKept, BrowserTypedKept
     DEF PlaceTyped, Loaded, LoadFails, Settle, Throw, Goto, Labels, Asked
<1>5. CASE Answered(c) \/ AnswerFails(c)
  <2>1. Following[pc[c]] \in Labels
    BY <1>5, FollowingTyped DEF Answered, AnswerFails, Labels
  <2>2. PlaceTyped'
    BY <1>2, <1>5, <2>1 DEF PlaceTyped, Answered, AnswerFails, Throw, Goto, Labels
  <2>3. QED
    BY <1>1, <2>2, TypeParts, CaptureTypedKept, BrowserTypedKept
<1>6. QED
  BY <1>3, <1>4, <1>5

LEMMA BeginTyped == ASSUME TypeOK, NEW c \in Crawls, Begin(c) PROVE TypeOK'
<1>1. BrowserTyped /\ PlaceTyped /\ CaptureTyped
  BY TypeParts
<1>2. UNCHANGED captureVars /\ UNCHANGED missing
  BY DEF Begin
<1>3. PlaceTyped'
  BY <1>1 DEF Begin, PlaceTyped, Goto, Labels
<1>4. BrowserTyped'
  <2>1. browser \in 0 .. launched /\ launched \in 0 .. launched
    BY <1>1, BoundsTyped DEF BrowserTyped
  <2>2. began' \in [Crawls -> 0 .. launched] /\ using' \in [Crawls -> 0 .. launched]
    BY <1>1, <2>1 DEF Begin, BrowserTyped
  <2>3. QED
    BY <1>1, <2>2 DEF Begin, BrowserTyped
<1>5. QED
  BY <1>1, <1>2, <1>3, <1>4, TypeParts, CaptureTypedKept

LEMMA LaunchTyped == ASSUME TypeOK, NEW c \in Crawls, Launch(c) PROVE TypeOK'
<1>1. BrowserTyped /\ PlaceTyped /\ CaptureTyped
  BY TypeParts
<1>2. UNCHANGED captureVars /\ UNCHANGED missing
  BY DEF Launch
<1>3. PlaceTyped'
  BY <1>1 DEF Launch, PlaceTyped, Goto, Labels
<1>4. BrowserTyped'
  <2>1. /\ launched \in Nat /\ launched < MaxLaunches /\ launched' = launched + 1
        /\ browser \in 0 .. launched
    BY <1>1 DEF Launch, BrowserTyped
  <2>2. launched' \in Instances /\ launched' \in 0 .. launched' /\ launched' \in 0 .. MaxLaunches
    BY <2>1, BoundsTyped DEF Instances
  <2>3. 0 .. launched \subseteq 0 .. launched'
    BY <2>1
  <2>4. began' \in [Crawls -> 0 .. launched']
    BY <1>1, <2>3 DEF Launch, BrowserTyped
  <2>5. using' \in [Crawls -> 0 .. launched']
    BY <1>1, <2>2, <2>3 DEF Launch, BrowserTyped
  <2>6. alive' \subseteq Instances
    BY <1>1, <2>2 DEF Launch, BrowserTyped
  <2>7. raced' \subseteq Instances
    <3>1. began[c] \in Nat
      BY <1>1 DEF BrowserTyped
    <3>2. browser > began[c] => browser \in Instances
      BY <2>1, <3>1, BoundsTyped DEF Instances
    <3>3. QED
      BY <1>1, <3>2 DEF Launch, BrowserTyped
  <2>8. QED
    BY <1>1, <2>2, <2>4, <2>5, <2>6, <2>7 DEF Launch, BrowserTyped
<1>5. QED
  BY <1>1, <1>2, <1>3, <1>4, TypeParts, CaptureTypedKept

LEMMA CountTyped == ASSUME TypeOK, NEW c \in Crawls, Count(c) PROVE TypeOK'
<1>1. BrowserTyped /\ PlaceTyped /\ CaptureTyped
  BY TypeParts
<1>2. UNCHANGED captureVars /\ UNCHANGED browserVars /\ UNCHANGED using
  BY DEF Count
<1>3. PlaceTyped'
  BY <1>1 DEF Count, PlaceTyped, Goto, Labels
<1>4. Cardinality(seen[c]) \in Nat
  <2>1. IsFiniteSet(seen[c])
    BY <1>1, UrlsTyped, FS_Subset DEF CaptureTyped
  <2>2. QED
    BY <2>1, FS_CardinalityType
<1>5. Len(assets[c]) \in Nat
  BY <1>1 DEF CaptureTyped
<1>6. missing' \in [Crawls -> Nat]
  <2> DEFINE N == IF Cardinality(seen[c]) > Len(assets[c])
                    THEN Cardinality(seen[c]) - Len(assets[c]) ELSE 0
  <2>1. N \in Nat
    BY <1>4, <1>5
  <2>2. missing' = [missing EXCEPT ![c] = N]
    BY DEF Count
  <2> HIDE DEF N
  <2>3. QED
    BY <1>1, <2>1, <2>2 DEF CaptureTyped
<1>7. CaptureTyped'
  BY <1>1, <1>2, <1>6 DEF CaptureTyped, captureVars
<1>8. QED
  BY <1>1, <1>2, <1>3, <1>7, TypeParts, BrowserTypedKept

LEMMA CloseTyped == ASSUME TypeOK, NEW c \in Crawls, Close(c) PROVE TypeOK'
<1>1. BrowserTyped /\ PlaceTyped /\ CaptureTyped
  BY TypeParts
<1>2. UNCHANGED browserVars /\ UNCHANGED using
  BY DEF Close
<1>3. PlaceTyped'
  BY <1>1 DEF Close, PlaceTyped, Goto, Labels
<1>4. reading' \in [Crawls -> [Assets -> 0 .. MaxRepeats]]
  <2>1. [u \in Assets |-> 0] \in [Assets -> 0 .. MaxRepeats]
    BY BoundsTyped
  <2>2. QED
    BY <1>1, <2>1 DEF Close, CaptureTyped
<1>5. CaptureTyped'
  BY <1>1, <1>4 DEF Close, CaptureTyped
<1>6. QED
  BY <1>1, <1>2, <1>3, <1>5, TypeParts, BrowserTypedKept

LEMMA ReadingTyped ==
  ASSUME CaptureTyped, NEW c \in Crawls, NEW u \in Assets
  PROVE  reading[c][u] \in 0 .. MaxRepeats /\ reading[c][u] \in Nat
BY BoundsTyped DEF CaptureTyped

(* A handler's steps; a URL that was not seen before is not being read.     *)
LEMMA ResponseTyped ==
  ASSUME TypeOK, NEW c \in Crawls, CapturedOnce(c), NEW u \in Loads[c], Response(c, u)
  PROVE  TypeOK'
<1>1. BrowserTyped /\ PlaceTyped /\ CaptureTyped
  BY TypeParts
<1>2. UNCHANGED browserVars /\ UNCHANGED using /\ UNCHANGED <<pc, context, outcome>>
  BY DEF Response
<1>3. requested' \in [Crawls -> Recorded]
  <2>1. u \in Urls
    BY LoadsTyped
  <2>2. Record(c, u)
    BY DEF Response
  <2>3. QED
    BY <1>1, <2>1, <2>2, RecordTyped
<1>4. seen' \in [Crawls -> SUBSET Assets]
  <2>1. CASE u \in Assets \ seen[c]
    <3>1. seen' = [seen EXCEPT ![c] = @ \cup {u}]
      BY <2>1 DEF Response
    <3>2. seen[c] \cup {u} \in SUBSET Assets
      BY <1>1, <2>1 DEF CaptureTyped
    <3>3. QED
      BY <1>1, <3>1, <3>2 DEF CaptureTyped
  <2>2. CASE u \notin Assets \ seen[c]
    BY <1>1, <2>2 DEF Response, CaptureTyped
  <2>3. QED
    BY <2>1, <2>2
<1>5. reading' \in [Crawls -> [Assets -> 0 .. MaxRepeats]] /\ overlap' \subseteq Crawls
  <2>1. CASE UNCHANGED <<reading, overlap>>
    BY <1>1, <2>1 DEF CaptureTyped
  <2>2. CASE u \in Assets \ seen[c] /\ StartReading(c, u)
    <3>1. reading[c][u] = 0
      BY <1>1, <2>2, ReadingTyped DEF CapturedOnce
    <3>2. reading[c][u] + 1 \in 0 .. MaxRepeats
      BY <3>1, BoundsTyped
    <3>3. reading' = [reading EXCEPT ![c] = [reading[c] EXCEPT ![u] = reading[c][u] + 1]]
      BY <2>2 DEF StartReading
    <3>4. [reading[c] EXCEPT ![u] = reading[c][u] + 1] \in [Assets -> 0 .. MaxRepeats]
      BY <1>1, <2>2, <3>2 DEF CaptureTyped
    <3>5. QED
      BY <1>1, <2>2, <3>3, <3>4 DEF CaptureTyped, StartReading
  <2>3. QED
    BY <2>1, <2>2 DEF Response
<1>6. CaptureTyped'
  BY <1>1, <1>3, <1>4, <1>5 DEF Response, CaptureTyped
<1>7. QED
  BY <1>1, <1>2, <1>6, TypeParts, BrowserTypedKept, PlaceTypedKept

LEMMA LessReading ==
  ASSUME CaptureTyped, NEW c \in Crawls, NEW u \in Assets, reading[c][u] > 0,
         reading' = [reading EXCEPT ![c][u] = @ - 1]
  PROVE  reading' \in [Crawls -> [Assets -> 0 .. MaxRepeats]]
<1>1. reading[c][u] - 1 \in 0 .. MaxRepeats
  BY ReadingTyped, BoundsTyped
<1>2. reading' = [reading EXCEPT ![c] = [reading[c] EXCEPT ![u] = reading[c][u] - 1]]
  OBVIOUS
<1>3. [reading[c] EXCEPT ![u] = reading[c][u] - 1] \in [Assets -> 0 .. MaxRepeats]
  BY <1>1 DEF CaptureTyped
<1>4. QED
  BY <1>2, <1>3 DEF CaptureTyped

LEMMA BodyTyped ==
  ASSUME TypeOK, NEW c \in Crawls, NEW u \in Assets, Body(c, u) \/ NoBody(c, u)
  PROVE  TypeOK'
<1>1. BrowserTyped /\ PlaceTyped /\ CaptureTyped
  BY TypeParts
<1>2. UNCHANGED browserVars /\ UNCHANGED using /\ UNCHANGED <<pc, context, outcome>>
      /\ UNCHANGED <<requested, seen, overlap, missing>>
  BY DEF Body, NoBody
<1>3. reading' \in [Crawls -> [Assets -> 0 .. MaxRepeats]]
  BY <1>1, LessReading DEF Body, NoBody
<1>4. assets' \in [Crawls -> Seq(Entry)]
  <2>1. CASE NoBody(c, u)
    BY <1>1, <2>1 DEF NoBody, CaptureTyped
  <2>2. CASE Body(c, u)
    <3>1. [url |-> u, truncated |-> u \in Large] \in Entry
      BY DEF Entry
    <3>2. assets[c] \in Seq(Entry)
      BY <1>1 DEF CaptureTyped
    <3>3. Append(assets[c], [url |-> u, truncated |-> u \in Large]) \in Seq(Entry)
      BY <3>1, <3>2
    <3>4. QED
      BY <1>1, <2>2, <3>3 DEF Body, CaptureTyped
  <2>3. QED
    BY <2>1, <2>2
<1>5. CaptureTyped'
  BY <1>1, <1>2, <1>3, <1>4 DEF CaptureTyped
<1>6. QED
  BY <1>1, <1>2, <1>5, TypeParts, BrowserTypedKept, PlaceTypedKept

LEMMA BrowserEndTyped ==
  ASSUME TypeOK, (\E b \in Instances : BrowserDies(b)) \/ Stop PROVE TypeOK'
<1>1. BrowserTyped /\ PlaceTyped /\ CaptureTyped
  BY TypeParts
<1>2. UNCHANGED captureVars /\ UNCHANGED missing /\ UNCHANGED <<pc, context, outcome>>
      /\ UNCHANGED <<launched, began, raced, using>>
  BY DEF BrowserDies, Stop
<1>3. alive' \subseteq Instances /\ stopped' \in BOOLEAN
  BY <1>1 DEF BrowserDies, Stop, BrowserTyped
<1>4. browser' \in 0 .. launched
  BY <1>1 DEF BrowserDies, Stop, BrowserTyped
<1>5. BrowserTyped'
  BY <1>1, <1>2, <1>3, <1>4 DEF BrowserTyped
<1>6. QED
  BY <1>1, <1>2, <1>5, TypeParts, CaptureTypedKept, PlaceTypedKept

LEMMA TypeStep == ASSUME TypeOK, Captures, [Next]_vars PROVE TypeOK'
<1>1. ASSUME NEW c \in Crawls,
             Bounded(c) \/ Answered(c) \/ AnswerFails(c) \/ Handlers(c)
      PROVE  TypeOK'
  <2>1. CASE Begin(c) \/ Launch(c) \/ Count(c) \/ Close(c)
    BY <2>1, BeginTyped, LaunchTyped, CountTyped, CloseTyped
  <2>2. CASE \/ LaunchFails(c) \/ NewContext(c) \/ NewPage(c) \/ OpenFails(c) \/ Loaded(c)
             \/ LoadFails(c) \/ Settle(c) \/ Answered(c) \/ AnswerFails(c)
    BY <2>2, MoveTyped
  <2>3. CASE \E u \in Loads[c] : Response(c, u)
    BY <2>3, ResponseTyped DEF Captures
  <2>4. CASE \E u \in Assets : Body(c, u) \/ NoBody(c, u)
    BY <2>4, BodyTyped
  <2>5. QED
    BY <1>1, <2>1, <2>2, <2>3, <2>4 DEF Bounded, Handlers
<1>2. CASE (\E b \in Instances : BrowserDies(b)) \/ Stop
  BY <1>2, BrowserEndTyped
<1>3. CASE UNCHANGED vars
  <2>1. UNCHANGED captureVars /\ UNCHANGED missing /\ UNCHANGED browserVars
        /\ UNCHANGED using /\ UNCHANGED <<pc, context, outcome>>
    BY <1>3 DEF vars
  <2>2. QED
    BY <2>1, TypeParts, CaptureTypedKept, BrowserTypedKept, PlaceTypedKept
<1>4. QED
  BY <1>1, <1>2, <1>3 DEF Next

-----------------------------------------------------------------------------
(* What was captured.                                                       *)

LEMMA CapturesInit == Init => Captures
<1> SUFFICES ASSUME Init, NEW c \in Crawls PROVE CapturedOnce(c) /\ RoomForBody(c)
  BY DEF Captures
<1>1. assets[c] = <<>> /\ DOMAIN assets[c] = {} /\ Len(assets[c]) = 0
  BY DEF Init
<1>2. \A u \in Assets : reading[c][u] = 0
  BY DEF Init
<1>3. QED
  BY <1>1, <1>2, BoundsTyped DEF CapturedOnce, RoomForBody

(* Of a crawl no handler of which takes a step, nothing is changed.         *)
LEMMA CapturesKept ==
  ASSUME NEW c \in Crawls, CapturedOnce(c), RoomForBody(c), seen'[c] = seen[c],
         reading'[c] = reading[c], assets'[c] = assets[c], c \in overlap => c \in overlap'
  PROVE  CapturedOnce(c)' /\ RoomForBody(c)'
BY DEF CapturedOnce, RoomForBody

LEMMA CaptureValues ==
  ASSUME CaptureTyped, NEW c \in Crawls
  PROVE  /\ assets[c] \in Seq(Entry) /\ Len(assets[c]) \in Nat
         /\ DOMAIN assets[c] = 1 .. Len(assets[c])
         /\ \A i \in DOMAIN assets[c] : assets[c][i].url \in Assets
         /\ reading[c] \in [Assets -> 0 .. MaxRepeats]
         /\ \A u \in Assets : reading[c][u] \in Nat
         /\ seen[c] \in SUBSET Assets
<1>1. assets[c] \in Seq(Entry)
  BY DEF CaptureTyped
<1>2. \A i \in 1 .. Len(assets[c]) : assets[c][i] \in Entry
  BY <1>1
<1>3. \A i \in DOMAIN assets[c] : assets[c][i].url \in Assets
  BY <1>1, <1>2 DEF Entry
<1>4. QED
  BY <1>1, <1>3, ReadingTyped DEF CaptureTyped

LEMMA CloseCaptures ==
  ASSUME CaptureTyped, NEW c \in Crawls, CapturedOnce(c), RoomForBody(c), Close(c)
  PROVE  CapturedOnce(c)' /\ RoomForBody(c)'
<1>1. \A u \in Assets : reading'[c][u] = 0
  BY DEF Close, CaptureTyped
<1>2. UNCHANGED <<seen, assets, overlap>>
  BY DEF Close
<1>3. QED
  BY <1>1, <1>2, CaptureValues DEF CapturedOnce, RoomForBody

LEMMA ResponseCaptures ==
  ASSUME CaptureTyped, NEW c \in Crawls, CapturedOnce(c), RoomForBody(c),
         NEW u \in Assets, u \notin seen[c], seen' = [seen EXCEPT ![c] = @ \cup {u}],
         UNCHANGED assets, Len(assets[c]) < MaxAssets, StartReading(c, u)
  PROVE  CapturedOnce(c)' /\ RoomForBody(c)'
<1>1. reading[c][u] = 0
  BY ReadingTyped DEF CapturedOnce
<1>2. /\ reading'[c][u] = 1
      /\ \A v \in Assets : v # u => reading'[c][v] = reading[c][v]
  BY <1>1 DEF StartReading, CaptureTyped
<1>3. seen'[c] = seen[c] \cup {u}
  BY DEF CaptureTyped
<1>4. CapturedOnce(c)'
  <2>1. \A v \in Assets : reading'[c][v] <= 1 /\ (reading'[c][v] > 0 => v \in seen'[c])
    BY <1>2, <1>3 DEF CapturedOnce
  <2>2. \A i \in DOMAIN assets[c] :
          assets[c][i].url \in seen'[c] /\ reading'[c][assets[c][i].url] = 0
    BY <1>2, <1>3, CaptureValues DEF CapturedOnce
  <2>3. QED
    BY <2>1, <2>2 DEF CapturedOnce
<1>5. RoomForBody(c)'
  <2>1. CASE \E v \in Assets : reading[c][v] > 0
    BY <2>1 DEF StartReading, RoomForBody
  <2>2. CASE ~\E v \in Assets : reading[c][v] > 0
    <3>1. \A v \in Assets : reading'[c][v] > 0 => v = u
      BY <1>2, <2>2
    <3>2. QED
      BY <3>1, CaptureValues, BoundsTyped DEF RoomForBody
  <2>3. QED
    BY <2>1, <2>2
<1>6. QED
  BY <1>4, <1>5

(* The handler that had the body awaited ends, with an entry or without.    *)
LEMMA FewerReading ==
  ASSUME CaptureTyped, NEW c \in Crawls, CapturedOnce(c), NEW u \in Assets,
         reading[c][u] > 0, reading' = [reading EXCEPT ![c][u] = @ - 1]
  PROVE  /\ reading'[c][u] = 0
         /\ \A v \in Assets : v # u => reading'[c][v] = reading[c][v]
<1>1. reading[c][u] = 1
  BY ReadingTyped DEF CapturedOnce
<1>2. reading' = [reading EXCEPT ![c] = [reading[c] EXCEPT ![u] = reading[c][u] - 1]]
  OBVIOUS
<1>3. QED
  BY <1>1, <1>2 DEF CaptureTyped

LEMMA NoBodyCaptures ==
  ASSUME CaptureTyped, NEW c \in Crawls, CapturedOnce(c), RoomForBody(c),
         NEW u \in Assets, NoBody(c, u)
  PROVE  CapturedOnce(c)' /\ RoomForBody(c)'
<1>1. /\ reading'[c][u] = 0
      /\ \A v \in Assets : v # u => reading'[c][v] = reading[c][v]
  BY FewerReading DEF NoBody
<1>2. UNCHANGED <<seen, assets, overlap>>
  BY DEF NoBody
<1>3. CapturedOnce(c)'
  BY <1>1, <1>2, CaptureValues DEF CapturedOnce
<1>4. RoomForBody(c)'
  BY <1>1, <1>2 DEF RoomForBody
<1>5. QED
  BY <1>3, <1>4

LEMMA BodyCaptures ==
  ASSUME CaptureTyped, NEW c \in Crawls, CapturedOnce(c), RoomForBody(c),
         NEW u \in Assets, Body(c, u)
  PROVE  CapturedOnce(c)' /\ RoomForBody(c)'
<1> DEFINE e == [url |-> u, truncated |-> u \in Large]
           n == Len(assets[c])
<1>1. /\ reading'[c][u] = 0
      /\ \A v \in Assets : v # u => reading'[c][v] = reading[c][v]
  BY FewerReading DEF Body
<1>2. UNCHANGED <<seen, overlap>> /\ u \in seen[c] /\ reading[c][u] > 0
  BY DEF Body, CapturedOnce
<1>3. assets'[c] = Append(assets[c], e)
  BY DEF Body, CaptureTyped
<1>4. e \in Entry /\ e.url = u
  BY DEF Entry
<1>5. n \in Nat /\ assets[c] \in Seq(Entry)
  BY CaptureValues
<1> HIDE DEF e
<1>6. /\ Len(assets'[c]) = n + 1 /\ DOMAIN assets'[c] = 1 .. n + 1
      /\ assets'[c][n + 1] = e
      /\ \A i \in 1 .. n : assets'[c][i] = assets[c][i]
  BY <1>3, <1>4, <1>5
<1>7. \A i \in 1 .. n : assets[c][i].url \in Assets /\ assets[c][i].url \in seen[c]
                        /\ reading[c][assets[c][i].url] = 0 /\ assets[c][i].url # u
  BY <1>2, <1>5, CaptureValues DEF CapturedOnce
<1>8. \A i \in 1 .. n + 1 : i \in 1 .. n \/ i = n + 1
  BY <1>5
<1>9. CapturedOnce(c)'
  <2>1. \A v \in Assets : reading'[c][v] <= 1 /\ (reading'[c][v] > 0 => v \in seen'[c])
    BY <1>1, <1>2 DEF CapturedOnce
  <2>2. ASSUME NEW i \in DOMAIN assets'[c]
        PROVE  assets'[c][i].url \in seen'[c] /\ reading'[c][assets'[c][i].url] = 0
    <3>1. CASE i = n + 1
      BY <3>1, <1>1, <1>2, <1>4, <1>6
    <3>2. CASE i \in 1 .. n
      BY <3>2, <1>1, <1>2, <1>6, <1>7
    <3>3. QED
      BY <1>6, <1>8, <3>1, <3>2
  <2>3. ASSUME NEW i \in DOMAIN assets'[c], NEW j \in DOMAIN assets'[c],
               assets'[c][i].url = assets'[c][j].url
        PROVE  i = j
    <3>1. \A k, l \in 1 .. n : assets[c][k].url = assets[c][l].url => k = l
      BY CaptureValues DEF CapturedOnce
    <3>2. CASE i \in 1 .. n /\ j \in 1 .. n
      BY <3>1, <3>2, <2>3, <1>6
    <3>3. CASE i = n + 1 /\ j \in 1 .. n
      BY <3>3, <2>3, <1>4, <1>6, <1>7
    <3>4. CASE i \in 1 .. n /\ j = n + 1
      BY <3>4, <2>3, <1>4, <1>6, <1>7
    <3>5. QED
      BY <1>6, <1>8, <3>2, <3>3, <3>4
  <2>4. QED
    BY <2>1, <2>2, <2>3 DEF CapturedOnce
<1>10. RoomForBody(c)'
  <2>1. CASE c \in overlap
    BY <2>1, <1>2 DEF RoomForBody
  <2>2. CASE c \notin overlap
    <3>1. n < MaxAssets /\ n + 1 <= MaxAssets
      BY <1>2, <1>5, <2>2, BoundsTyped DEF RoomForBody
    <3>2. \A v \in Assets : ~(reading'[c][v] > 0)
      BY <1>1, <1>2, <2>2 DEF RoomForBody
    <3>3. QED
      BY <3>1, <3>2, <1>6 DEF RoomForBody
  <2>3. QED
    BY <2>1, <2>2
<1>11. QED
  BY <1>9, <1>10

LEMMA CapturesStep == ASSUME TypeOK, Captures, [Next]_vars PROVE Captures'
<1> SUFFICES ASSUME NEW c \in Crawls PROVE CapturedOnce(c)' /\ RoomForBody(c)'
  BY DEF Captures
<1>1. CaptureTyped /\ CapturedOnce(c) /\ RoomForBody(c)
  BY TypeParts DEF Captures
<1>2. CASE UNCHANGED <<seen, reading, assets, overlap>>
  BY <1>1, <1>2, CapturesKept
<1>3. ASSUME NEW d \in Crawls, Close(d) PROVE CapturedOnce(c)' /\ RoomForBody(c)'
  <2>1. CASE d = c
    BY <1>1, <1>3, <2>1, CloseCaptures
  <2>2. CASE d # c
    <3>1. reading'[c] = reading[c] /\ UNCHANGED <<seen, assets, overlap>>
      BY <1>1, <1>3, <2>2 DEF Close, CaptureTyped
    <3>2. QED
      BY <1>1, <3>1, CapturesKept
  <2>3. QED
    BY <2>1, <2>2
<1>4. ASSUME NEW d \in Crawls, NEW u \in Loads[d], Response(d, u)
      PROVE  CapturedOnce(c)' /\ RoomForBody(c)'
  <2>1. CASE u \notin Assets \ seen[d]
    BY <1>2, <1>4, <2>1 DEF Response
  <2>2. CASE u \in Assets \ seen[d]
    <3>1. seen' = [seen EXCEPT ![d] = @ \cup {u}] /\ UNCHANGED assets
      BY <1>4, <2>2 DEF Response
    <3>2. CASE Len(assets[d]) >= MaxAssets
      <4>1. UNCHANGED <<reading, overlap, assets>> /\ seen[c] \subseteq seen'[c]
        BY <1>1, <1>4, <2>2, <3>1, <3>2 DEF Response, CaptureTyped
      <4>2. QED
        BY <1>1, <4>1 DEF CapturedOnce, RoomForBody
    <3>3. CASE ~(Len(assets[d]) >= MaxAssets)
      <4>1. StartReading(d, u)
        BY <1>4, <2>2, <3>3 DEF Response
      <4>2. CASE d = c
        <5>1. Len(assets[c]) < MaxAssets
          BY <1>1, <3>3, <4>2, CaptureValues, BoundsTyped
        <5>2. QED
          BY <1>1, <2>2, <3>1, <4>1, <4>2, <5>1, ResponseCaptures
      <4>3. CASE d # c
        <5>1. reading'[c] = reading[c] /\ seen'[c] = seen[c] /\ assets'[c] = assets[c]
              /\ (c \in overlap => c \in overlap')
          BY <1>1, <3>1, <4>1, <4>3 DEF StartReading, CaptureTyped
        <5>2. QED
          BY <1>1, <5>1, CapturesKept
      <4>4. QED
        BY <4>2, <4>3
    <3>4. QED
      BY <3>2, <3>3
  <2>3. QED
    BY <2>1, <2>2
<1>5. ASSUME NEW d \in Crawls, NEW u \in Assets, Body(d, u) \/ NoBody(d, u)
      PROVE  CapturedOnce(c)' /\ RoomForBody(c)'
  <2>1. CASE d = c
    BY <1>1, <1>5, <2>1, BodyCaptures, NoBodyCaptures
  <2>2. CASE d # c
    <3>1. /\ reading'[c] = reading[c] /\ assets'[c] = assets[c]
          /\ UNCHANGED <<seen, overlap>>
      BY <1>1, <1>5, <2>2 DEF Body, NoBody, CaptureTyped
    <3>2. QED
      BY <1>1, <3>1, CapturesKept
  <2>3. QED
    BY <2>1, <2>2
<1>6. CASE \E d \in Crawls : \/ Begin(d) \/ Launch(d) \/ LaunchFails(d) \/ NewContext(d)
                             \/ NewPage(d) \/ OpenFails(d) \/ Loaded(d) \/ LoadFails(d)
  BY <1>2, <1>6 DEF Begin, Launch, LaunchFails, NewContext, NewPage, OpenFails, Loaded,
                    LoadFails, captureVars
<1>7. CASE \E d \in Crawls : Settle(d) \/ Count(d) \/ Answered(d) \/ AnswerFails(d)
  BY <1>2, <1>7 DEF Settle, Count, Answered, AnswerFails, captureVars
<1>8. CASE (\E b \in Instances : BrowserDies(b)) \/ Stop \/ UNCHANGED vars
  BY <1>2, <1>8 DEF BrowserDies, Stop, vars, captureVars
<1>9. QED
  BY <1>3, <1>4, <1>5, <1>6, <1>7, <1>8 DEF Next, Bounded, Handlers

-----------------------------------------------------------------------------
(* Contexts and browsers.                                                   *)

LEMMA FollowingOpened == \A step \in Asked : Following[step] \in Opened
BY FollowingTyped DEF Opened

LEMMA ContextsKept ==
  ASSUME ContextsOpened, context' \subseteq context, \A c \in context' : pc'[c] \in Opened
  PROVE  ContextsOpened'
BY DEF ContextsOpened

LEMMA ContextsStep == ASSUME TypeOK, ContextsOpened, [Next]_vars PROVE ContextsOpened'
<1>1. pc \in [Crawls -> Labels] /\ context \subseteq Crawls
  BY TypeParts DEF PlaceTyped
<1>2. CASE UNCHANGED <<pc, context>>
  BY <1>2 DEF ContextsOpened
<1>3. ASSUME NEW c \in Crawls, UNCHANGED context, c \in context => pc'[c] \in Opened,
             \A d \in Crawls \ {c} : pc'[d] = pc[d]
      PROVE  ContextsOpened'
  BY <1>1, <1>3 DEF ContextsOpened
<1>4. ASSUME NEW c \in Crawls, Begin(c) \/ Launch(c) \/ LaunchFails(c)
      PROVE  ContextsOpened'
  <2>1. c \notin context
    BY <1>4 DEF Begin, Launch, LaunchFails, ContextsOpened, Opened, Asked
  <2>2. UNCHANGED context /\ \A d \in Crawls \ {c} : pc'[d] = pc[d]
    BY <1>1, <1>4 DEF Begin, Launch, LaunchFails, Goto
  <2>3. QED
    BY <2>1, <2>2, <1>3
<1>5. ASSUME NEW c \in Crawls, NewPage(c) \/ OpenFails(c) \/ Loaded(c) \/ LoadFails(c) \/ Settle(c)
                              \/ Count(c)
      PROVE  ContextsOpened'
  <2>1. pc'[c] \in Opened
    BY <1>1, <1>5 DEF NewPage, OpenFails, Loaded, LoadFails, Settle, Count, Throw, Goto,
                      Opened, Asked
  <2>2. UNCHANGED context /\ \A d \in Crawls \ {c} : pc'[d] = pc[d]
    BY <1>1, <1>5 DEF NewPage, OpenFails, Loaded, LoadFails, Settle, Count, Throw, Goto
  <2>3. QED
    BY <2>1, <2>2, <1>3
<1>6. ASSUME NEW c \in Crawls, Answered(c) \/ AnswerFails(c)
      PROVE  ContextsOpened'
  <2>1. Following[pc[c]] \in Opened /\ "close" \in Opened
    BY <1>6, FollowingOpened DEF Answered, AnswerFails, Opened
  <2>2. pc'[c] \in Opened
    BY <1>1, <1>6, <2>1 DEF Answered, AnswerFails, Throw, Goto
  <2>3. UNCHANGED context /\ \A d \in Crawls \ {c} : pc'[d] = pc[d]
    BY <1>1, <1>6 DEF Answered, AnswerFails, Throw, Goto
  <2>4. QED
    BY <2>2, <2>3, <1>3
<1>7. ASSUME NEW c \in Crawls, NewContext(c) PROVE ContextsOpened'
  <2>1. pc'[c] = "page" /\ context' = context \cup {c}
        /\ \A d \in Crawls \ {c} : pc'[d] = pc[d]
    BY <1>1, <1>7 DEF NewContext, Goto
  <2>2. QED
    BY <1>1, <2>1 DEF ContextsOpened, Opened
<1>8. ASSUME NEW c \in Crawls, Close(c) PROVE ContextsOpened'
  <2>1. context' = context \ {c} /\ \A d \in Crawls \ {c} : pc'[d] = pc[d]
    BY <1>1, <1>8 DEF Close, Goto
  <2>2. QED
    BY <1>1, <2>1 DEF ContextsOpened
<1>9. CASE \E c \in Crawls : Handlers(c)
  BY <1>2, <1>9 DEF Handlers, Response, Body, NoBody
<1>10. CASE (\E b \in Instances : BrowserDies(b)) \/ Stop \/ UNCHANGED vars
  BY <1>2, <1>10 DEF BrowserDies, Stop, vars
<1>11. QED
  BY <1>4, <1>5, <1>6, <1>7, <1>8, <1>9, <1>10 DEF Next, Bounded

LEMMA BrowsersStep == ASSUME TypeOK, Browsers, [Next]_vars PROVE Browsers'
<1>1. /\ pc \in [Crawls -> Labels] /\ began \in [Crawls -> 0 .. launched]
      /\ launched \in Nat /\ browser \in 0 .. launched
  BY TypeParts DEF PlaceTyped, BrowserTyped
<1>2. ASSUME UNCHANGED <<browser, alive, raced, began>>,
             \A c \in Crawls : pc'[c] = "launch" => pc[c] = "launch"
      PROVE  Browsers'
  BY <1>2 DEF Browsers, SpareBrowsersComeFromRaces, LaunchesRace
<1>3. ASSUME NEW c \in Crawls, Begin(c) PROVE Browsers'
  <2>1. UNCHANGED <<browser, alive, raced>>
        /\ \A d \in Crawls \ {c} : pc'[d] = pc[d] /\ began'[d] = began[d]
    BY <1>1, <1>3 DEF Begin, Goto
  <2>2. pc'[c] = "launch" => browser \notin alive
    BY <1>1, <1>3 DEF Begin, Goto
  <2>3. QED
    BY <2>1, <2>2 DEF Browsers, SpareBrowsersComeFromRaces, LaunchesRace
<1>4. ASSUME NEW c \in Crawls, Launch(c) PROVE Browsers'
  <2>1. /\ browser' = launched + 1 /\ alive' = alive \cup {launched + 1}
        /\ UNCHANGED began /\ pc[c] = "launch"
        /\ raced' = IF browser > began[c] THEN raced \cup {browser} ELSE raced
    BY <1>4 DEF Launch
  <2>2. SpareBrowsersComeFromRaces'
    BY <2>1 DEF Browsers, SpareBrowsersComeFromRaces, LaunchesRace
  <2>3. \A d \in Crawls : began'[d] \in 0 .. launched
    BY <1>1, <2>1
  <2>4. LaunchesRace'
    BY <1>1, <2>1, <2>3 DEF LaunchesRace
  <2>5. QED
    BY <2>2, <2>4 DEF Browsers
<1>5. ASSUME NEW c \in Crawls, LaunchFails(c) \/ NewContext(c) \/ NewPage(c) \/ OpenFails(c)
                              \/ Loaded(c) \/ LoadFails(c) \/ Settle(c) \/ Count(c) \/ Close(c)
      PROVE  Browsers'
  <2>1. UNCHANGED <<browser, alive, raced, began>>
    BY <1>5 DEF LaunchFails, NewContext, NewPage, OpenFails, Loaded, LoadFails, Settle, Count,
                Close, browserVars
  <2>2. pc'[c] # "launch" /\ \A d \in Crawls \ {c} : pc'[d] = pc[d]
    BY <1>1, <1>5 DEF LaunchFails, NewContext, NewPage, OpenFails, Loaded, LoadFails, Settle,
                      Count, Close, Throw, Goto
  <2>3. QED
    BY <2>1, <2>2, <1>2
<1>6. ASSUME NEW c \in Crawls, Answered(c) \/ AnswerFails(c) PROVE Browsers'
  <2>1. UNCHANGED <<browser, alive, raced, began>>
    BY <1>6 DEF Answered, AnswerFails, browserVars
  <2>2. Following[pc[c]] # "launch"
    BY <1>6, FollowingTyped DEF Answered, AnswerFails, Asked
  <2>3. pc'[c] # "launch" /\ \A d \in Crawls \ {c} : pc'[d] = pc[d]
    BY <1>1, <1>6, <2>2 DEF Answered, AnswerFails, Throw, Goto
  <2>4. QED
    BY <2>1, <2>3, <1>2
<1>7. CASE \E c \in Crawls : Handlers(c)
  BY <1>2, <1>7 DEF Handlers, Response, Body, NoBody, browserVars
<1>8. CASE \E b \in Instances : BrowserDies(b)
  BY <1>8 DEF BrowserDies, Browsers, SpareBrowsersComeFromRaces, LaunchesRace
<1>9. CASE Stop
  <2>1. /\ \A c \in Crawls : pc'[c] # "launch"
        /\ alive' = alive \ {browser} /\ UNCHANGED raced
    BY <1>9 DEF Stop
  <2>2. QED
    BY <2>1 DEF Browsers, SpareBrowsersComeFromRaces, LaunchesRace
<1>10. CASE UNCHANGED vars
  BY <1>2, <1>10 DEF vars, browserVars
<1>11. QED
  BY <1>3, <1>4, <1>5, <1>6, <1>7, <1>8, <1>9, <1>10 DEF Next, Bounded

-----------------------------------------------------------------------------
(* The theorems.                                                            *)

LEMMA InitInv == Init => IInv
<1> SUFFICES ASSUME Init PROVE IInv
  OBVIOUS
<1>1. ContextsOpened /\ Browsers
  BY DEF Init, ContextsOpened, Browsers, SpareBrowsersComeFromRaces, LaunchesRace
<1>2. QED
  BY <1>1, TypeInit, CapturesInit DEF IInv

LEMMA NextInv == IInv /\ [Next]_vars => IInv'
BY TypeStep, CapturesStep, ContextsStep, BrowsersStep DEF IInv

LEMMA Invariant == Spec => []IInv
BY InitInv, NextInv, PTL DEF Spec

(* The variables of the crawls have their types, whatever the page loads    *)
(* and whenever browsers die.                                               *)
THEOREM TypeCorrect == Spec => []TypeOK
<1>1. IInv => TypeOK
  BY DEF IInv
<1>2. QED
  BY <1>1, Invariant, PTL

(* No URL is captured twice: the handler notes it before it awaits the      *)
(* body, and every later response for it stops there.                       *)
THEOREM CapturesAreUnique == Spec => []NoAssetTwice
<1>1. IInv => NoAssetTwice
  BY DEF IInv, Captures, CapturedOnce, NoAssetTwice
<1>2. QED
  BY <1>1, Invariant, PTL

(* The cap on assets is passed only by a crawl that had two bodies under    *)
(* way at once: it is checked before the await.                             *)
THEOREM CapIsKept == Spec => []CapHoldsUnlessOverlap
<1>1. IInv => CapHoldsUnlessOverlap
  <2>1. ASSUME IInv, NEW c \in Crawls, c \notin overlap PROVE ~(Len(assets[c]) > MaxAssets)
    <3>1. Len(assets[c]) \in Nat /\ Len(assets[c]) <= MaxAssets
      BY <2>1, TypeParts, CaptureValues DEF IInv, Captures, RoomForBody
    <3>2. QED
      BY <3>1, BoundsTyped
  <2>2. QED
    BY <2>1 DEF CapHoldsUnlessOverlap
<1>2. QED
  BY <1>1, Invariant, PTL

(* The finally clause closes the context of every crawl that opened one.    *)
THEOREM NoContextIsLeft == Spec => []ContextsAreClosed
<1>1. IInv => ContextsAreClosed
  BY DEF IInv, ContextsOpened, ContextsAreClosed, Opened, Asked
<1>2. QED
  BY <1>1, Invariant, PTL

(* A browser that runs unused was overwritten by a launch that began before *)
(* it was there.                                                            *)
THEOREM SpareBrowsersHaveOneCause == Spec => []SpareBrowsersComeFromRaces
<1>1. IInv => SpareBrowsersComeFromRaces
  BY DEF IInv, Browsers
<1>2. QED
  BY <1>1, Invariant, PTL
=============================================================================
