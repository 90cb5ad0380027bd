----------------------------- MODULE ScanRequests -----------------------------
(***************************************************************************)
(* POST /scans up to the scan row: the quota, the address, the website row. *)
(* Several requests are in flight, each statement is an action, and what    *)
(* follows the INSERT is ScanLifecycle under the inline driver, where runs  *)
(* share the process with the handlers.  (What the queue does with a row is *)
(* checked there and does not depend on how the row came about.)  A request *)
(* is named by the scan it would make.                                      *)
(***************************************************************************)
EXTENDS Naturals, Sequences, FiniteSets

CONSTANTS
  Users,
  PaidUsers,  \* those whose plan is not 'free'
  Hosts,
  NoHost,
  Askers,     \* bound: who can send which request, a set of functions
  DailyLimit, \* FREE_SCANS_PER_DAY
  \* of ScanLifecycle:
  Scans, Pages, NoPage, Keys, Techs, Artefacts, Detected,
  JobAttempts, MaxStalled, Concurrency, Driver, Mishaps

ASSUME PaidUsersTyped == PaidUsers \subseteq Users
ASSUME AskersTyped == Askers \subseteq [Scans -> Users]
ASSUME DailyLimitTyped == DailyLimit \in Nat
ASSUME RunsAreInline == Driver = "inline"
ASSUME AttemptsTyped == JobAttempts \in Nat \ {0} /\ MaxStalled \in Nat

VARIABLES
  request, status, errored, finished, job, holder, started, made, stalls,
  pc, page, idx, blob, assetRows, techs, stamped,  \* see ScanLifecycle
  front,     \* where a handler stands before the INSERT
  asker,     \* its user
  host,      \* the host of its URL
  websites,  \* websites: the request that inserted the row, and its host
  site,      \* scans.websiteId: such a request
  recent,    \* scans whose queuedAt is less than 24 hours ago, oldest first
  overlap,   \* history: users with two requests before their INSERT at once
  stranded   \* history: scans whose run ended without a word to the row

L == INSTANCE ScanLifecycle

frontVars == <<front, asker, host, websites, site, recent, overlap>>
scanVars == <<request, status, errored, finished, job, holder, started, made, stalls,
              pc, page, idx, blob, assetRows, techs, stamped>>
vars == <<scanVars, frontVars, stranded>>

Fronts == {"idle", "count", "resolve", "website", "lookup", "insert",
           "passed", "refused", "error"}
Open == {"count", "resolve", "website", "lookup", "insert"}

RequestsTypeOK ==
  /\ L!TypeOK
  /\ front \in [Scans -> Fronts]
  /\ asker \in [Scans -> Users]
  /\ host \in [Scans -> Hosts \cup {NoHost}]
  /\ websites \subseteq [id : Scans, host : Hosts]
  /\ site \in [Scans -> SUBSET Scans]
  /\ recent \in Seq(Scans)
  /\ overlap \subseteq Users /\ stranded \subseteq Scans
  /\ \A s \in Scans : front[s] = "passed" <=> status[s] # "absent"

Init ==
  /\ L!Init
  /\ front = [s \in Scans |-> "idle"]
  /\ asker \in Askers
  /\ host = [s \in Scans |-> NoHost]
  /\ websites = {}
  /\ site = [s \in Scans |-> {}]
  /\ recent = <<>>
  /\ overlap = {}
  /\ stranded = {}

Goto(s, label) == front' = [front EXCEPT ![s] = label]
Recent(u) == {s \in Scans : asker[s] = u /\ \E i \in DOMAIN recent : recent[i] = s}
OpenOf(u) == {s \in Scans : asker[s] = u /\ front[s] \in Open}

-----------------------------------------------------------------------------
(* The request arrives, for a URL on host h.                                *)
Post(s, h) ==
  /\ front[s] = "idle"
  /\ Goto(s, "count")
  /\ host' = [host EXCEPT ![s] = h]
  /\ overlap' = IF OpenOf(asker[s]) # {} THEN overlap \cup {asker[s]} ELSE overlap
  /\ UNCHANGED <<scanVars, asker, websites, site, recent, stranded>>

(* Slip: failed scans are not counted.                                      *)
scansTodayThatWorked(u) == Cardinality({s \in Recent(u) : status[s] # "failed"})
scansToday(u) == Cardinality(Recent(u))

(* assertScanQuota.                                                         *)
Count(s) ==
  /\ front[s] = "count"
  /\ Goto(s, IF asker[s] \notin PaidUsers /\ scansToday(asker[s]) >= DailyLimit
               THEN "refused" ELSE "resolve")
  /\ UNCHANGED <<scanVars, asker, host, websites, site, recent, overlap, stranded>>

(* resolveTarget: a name that does not resolve to a public address is a 400. *)
Resolve(s) ==
  /\ front[s] = "resolve"
  /\ Goto(s, "website") \/ Goto(s, "refused")
  /\ UNCHANGED <<scanVars, asker, host, websites, site, recent, overlap, stranded>>

(* upsertWebsite: the INSERT that does nothing on a conflict, and then the  *)
(* SELECT of the row that was there.                                        *)
Known(h) == {w \in websites : w.host = h}

(* Slip: the conflict goes unnoticed.                                       *)
InsertWebsiteAnyway(s) ==
  /\ front[s] = "website"
  /\ websites' = websites \cup {[id |-> s, host |-> host[s]]}
  /\ site' = [site EXCEPT ![s] = {s}]
  /\ Goto(s, "insert")
  /\ UNCHANGED <<scanVars, asker, host, recent, overlap, stranded>>

InsertWebsite(s) ==
  /\ front[s] = "website"
  /\ IF Known(host[s]) # {} THEN Goto(s, "lookup") /\ UNCHANGED <<websites, site>>
     ELSE /\ websites' = websites \cup {[id |-> s, host |-> host[s]]}
          /\ site' = [site EXCEPT ![s] = {s}]
          /\ Goto(s, "insert")
  /\ UNCHANGED <<scanVars, asker, host, recent, overlap, stranded>>

LookupWebsite(s) ==
  /\ front[s] = "lookup"
  /\ \E w \in Known(host[s]) : site' = [site EXCEPT ![s] = {w.id}]
  /\ Goto(s, "insert")
  /\ UNCHANGED <<scanVars, asker, host, websites, recent, overlap, stranded>>

(* The scan row, with queuedAt = now().                                     *)
Insert(s) ==
  /\ front[s] = "insert"
  /\ L!InsertScan(s)
  /\ recent' = Append(recent, s)
  /\ Goto(s, "passed")
  /\ UNCHANGED <<asker, host, websites, site, overlap, stranded>>

(* A statement fails: 500.                                                  *)
Fails(s) ==
  /\ front[s] \in Open
  /\ Goto(s, "error")
  /\ UNCHANGED <<scanVars, asker, host, websites, site, recent, overlap, stranded>>

(* 24 hours after it was queued a scan no longer counts.                    *)
DayPasses ==
  /\ recent # <<>>
  /\ recent' = Tail(recent)
  /\ UNCHANGED <<scanVars, front, asker, host, websites, site, overlap, stranded>>

-----------------------------------------------------------------------------
(* The specification.  What comes after the INSERT is ScanLifecycle's.      *)

FrontStep(s) ==
  Count(s) \/ Resolve(s) \/ InsertWebsite(s) \/ LookupWebsite(s) \/ Insert(s) \/ Fails(s)

(* The handler stops before it has started the run, and the row stays as    *)
(* the INSERT left it.                                                      *)
EnqueueStep(s) ==
  /\ L!Enqueue(s) \/ L!LinkJob(s) \/ L!RequestFails(s)
  /\ stranded' = IF request[s] = "enqueue" /\ L!RequestFails(s)
                   THEN stranded \cup {s} ELSE stranded
  /\ UNCHANGED frontVars

(* The SELECT and the first UPDATE of runScan are outside its try block,    *)
(* and after the fallback of markFailed there is nothing left to try; the   *)
(* catch of the inline driver only logs.                                    *)
RunStep(s, k) ==
  /\ L!RunStep(s, k)
  /\ stranded' = IF pc[s][k] \in {"read", "mark", "fallback"} /\ L!StepFails(s, k)
                   THEN stranded \cup {s} ELSE stranded
  /\ UNCHANGED frontVars

Cancel(s) == L!Cancel(s) /\ UNCHANGED <<frontVars, stranded>>

(* The process dies, with its handlers and its runs, and is started again.  *)
ApiCrash ==
  /\ L!ApiCrash
  /\ front' = [s \in Scans |-> IF front[s] \in Open THEN "error" ELSE front[s]]
  /\ stranded' = stranded \cup {s \in Scans : front[s] = "passed" /\ ~L!Settled(s)}
  /\ UNCHANGED <<asker, host, websites, site, recent, overlap>>

Next ==
  \/ \E s \in Scans :
       \/ \E h \in Hosts : Post(s, h)
       \/ FrontStep(s) \/ EnqueueStep(s) \/ Cancel(s)
       \/ \E k \in L!Runs : RunStep(s, k)
  \/ ApiCrash \/ DayPasses

Spec == Init /\ [][Next]_vars

-----------------------------------------------------------------------------
(* Properties.                                                              *)

(* A free user who sends one request at a time never has more scans in 24   *)
(* hours than the plan allows, failed ones included.  Requests that overlap *)
(* are all counted before the first of them has its row.                    *)
QuotaHoldsOneAtATime ==
  \A u \in Users \ (PaidUsers \cup overlap) : Cardinality(Recent(u)) <= DailyLimit

(* However many requests for a new host arrive at once, the host gets one   *)
(* website row, and every scan of it hangs on that row.                     *)
OneWebsitePerHost ==
  /\ \A v, w \in websites : v.host = w.host => v = w
  /\ \A s \in Scans : front[s] = "passed" =>
       \E w \in websites : site[s] = {w.id} /\ w.host = host[s]

(* A row that is not settled has somebody who will settle it: the handler   *)
(* that is about to start its run, or the run at one of its writes.  So it  *)
(* is left at 'queued' or 'running' only if the run ended without a word:   *)
(* the process died, the handler failed before the run was started, or of   *)
(* the run the SELECT, the first UPDATE or the fallback write failed.  Any  *)
(* other failure is told.                                                   *)
Attended(s) == request[s] = "enqueue" \/ \E k \in L!Runs : pc[s][k] \in L!FailingSteps
UnsettledIsAttended ==
  \A s \in Scans : front[s] = "passed" => L!Settled(s) \/ Attended(s) \/ s \in stranded
=============================================================================
