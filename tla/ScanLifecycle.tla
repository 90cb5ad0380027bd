---------------------------- MODULE ScanLifecycle ----------------------------
(***************************************************************************)
(* The life of a scan: POST /scans writes a row and puts a BullMQ job on    *)
(* the queue, the worker takes the job and runs `runScan`, which crawls,    *)
(* writes bytes to object storage and rows to Postgres one await at a time, *)
(* and settles the row.  Every await is an action of its own, so that       *)
(* another run, a crash or a failure can come between any two of them.      *)
(*                                                                          *)
(* A run is named by its scan s and its number k: the k-th time a worker    *)
(* started the job of s.                                                    *)
(***************************************************************************)
EXTENDS Naturals, Sequences, FiniteSets

CONSTANTS
  Scans,        \* scan ids; a request makes a fresh one (uuid primary key)
  Pages,        \* what the crawled site can look like: one value per content
  NoPage,       \* no content
  Keys,         \* storage keys under scans/<scan id>/
  Techs,        \* names of technologies
  Artefacts,    \* page -> sequence of [key, truncated]; the HTML comes first
  Detected,     \* page -> names that detect() reports for it
  JobAttempts,  \* SCAN_JOB_ATTEMPTS: times a failing job is tried
  MaxStalled,   \* BullMQ's maxStalledCount: times a stalled job is given back
  Concurrency,  \* SCAN_QUEUE_CONCURRENCY
  Driver,       \* SCAN_QUEUE_DRIVER: "redis" or "inline"
  Mishaps       \* which failures this instance is exposed to

(* A step of a run that can fail, by the name of its program counter.       *)
FailingSteps == {"read", "mark", "crawl", "put", "asset", "techs",
                 "succeed", "stamp", "fail", "fallback"}
AllMishaps == FailingSteps \cup
  {"enqueue", "link", "apiCrash", "workerCrash", "lockLoss", "cancel"}

MaxRuns == JobAttempts + MaxStalled
Runs == 1 .. MaxRuns

ASSUME ScansAreFinite == IsFiniteSet(Scans)
ASSUME NoPageIsNotAPage == NoPage \notin Pages
ASSUME ArtefactsTyped ==
  /\ Artefacts \in [Pages -> Seq([key : Keys, truncated : BOOLEAN])]
  /\ \A p \in Pages : Len(Artefacts[p]) >= 1 /\ ~Artefacts[p][1].truncated
\* A key holds the position of its artefact, so a page has no key twice.
ASSUME KeysAreDistinct ==
  \A p \in Pages : \A i, j \in 1 .. Len(Artefacts[p]) :
     Artefacts[p][i].key = Artefacts[p][j].key => i = j
ASSUME DetectedTyped == Detected \in [Pages -> SUBSET Techs]
ASSUME LimitsTyped ==
  JobAttempts \in Nat \ {0} /\ MaxStalled \in Nat /\ Concurrency \in Nat \ {0}
ASSUME DriverTyped == Driver \in {"redis", "inline"}
ASSUME MishapsTyped == Mishaps \subseteq AllMishaps

VARIABLES
  request,    \* the POST handler: where requestScan stands
  status,     \* scans.status, "absent" before the INSERT
  errored,    \* scans.errorCode is not NULL
  finished,   \* scans.finishedAt is not NULL
  job,        \* the BullMQ job of the scan
  holder,     \* the run that holds the job's lock, 0 when there is none
  started,    \* runs started so far
  made,       \* BullMQ's attemptsMade: runs that ended by throwing
  stalls,     \* BullMQ's stalled counter of the job
  pc,         \* where each run stands in runScan
  page,       \* what each run captured
  idx,        \* the artefact each run is storing
  blob,       \* object storage: which page's bytes are under a key
  assetRows,  \* scan_assets
  techs,      \* technologies: names stored for a scan
  stamped     \* websites.lastScannedAt was set by this scan

rowVars == <<status, errored, finished>>
jobVars == <<job, holder, started, made, stalls>>
runVars == <<pc, page, idx>>
storeVars == <<blob, assetRows, techs, stamped>>
vars == <<request, rowVars, jobVars, runVars, storeVars>>

RequestStates == {"new", "enqueue", "link", "accepted", "error"}
Statuses == {"absent", "queued", "running", "succeeded", "failed", "cancelled"}
JobStates == {"none", "waiting", "active", "delayed", "completed", "failed"}
Gone == {"unborn", "done", "dead"}
PCs == Gone \cup FailingSteps \cup {"returned", "thrown"}

(* A scan_assets row: the key it points at (all of them in its scan's       *)
(* prefix) and the content its sha256 and byteSize describe, NoPage for the *)
(* empty storageKey of a truncated asset.                                   *)
AssetRow == [scan : Scans, run : Runs, key : Keys, bytes : Pages \cup {NoPage}]

TypeOK ==
  /\ request \in [Scans -> RequestStates]
  /\ status \in [Scans -> Statuses]
  /\ errored \in [Scans -> BOOLEAN]
  /\ finished \in [Scans -> BOOLEAN]
  /\ job \in [Scans -> JobStates]
  /\ holder \in [Scans -> 0 .. MaxRuns]
  /\ started \in [Scans -> 0 .. MaxRuns]
  /\ made \in [Scans -> 0 .. JobAttempts]
  /\ stalls \in [Scans -> 0 .. MaxStalled + 1]
  /\ pc \in [Scans -> [Runs -> PCs]]
  /\ page \in [Scans -> [Runs -> Pages \cup {NoPage}]]
  /\ idx \in [Scans -> [Runs -> Nat]]
  /\ blob \in [Scans -> [Keys -> Pages \cup {NoPage}]]
  /\ assetRows \subseteq AssetRow
  /\ techs \in [Scans -> SUBSET Techs]
  /\ stamped \in [Scans -> BOOLEAN]

Init ==
  /\ request = [s \in Scans |-> "new"]
  /\ status = [s \in Scans |-> "absent"]
  /\ errored = [s \in Scans |-> FALSE]
  /\ finished = [s \in Scans |-> FALSE]
  /\ job = [s \in Scans |-> "none"]
  /\ holder = [s \in Scans |-> 0]
  /\ started = [s \in Scans |-> 0]
  /\ made = [s \in Scans |-> 0]
  /\ stalls = [s \in Scans |-> 0]
  /\ pc = [s \in Scans |-> [k \in Runs |-> "unborn"]]
  /\ page = [s \in Scans |-> [k \in Runs |-> NoPage]]
  /\ idx = [s \in Scans |-> [k \in Runs |-> 0]]
  /\ blob = [s \in Scans |-> [key \in Keys |-> NoPage]]
  /\ assetRows = {}
  /\ techs = [s \in Scans |-> {}]
  /\ stamped = [s \in Scans |-> FALSE]

Live(s, k) == pc[s][k] \notin Gone
LiveRuns == {r \in Scans \X Runs : Live(r[1], r[2])}

Goto(s, k, label) == pc' = [pc EXCEPT ![s][k] = label]

-----------------------------------------------------------------------------
(* requestScan, in the API process.                                         *)

InsertScan(s) ==
  /\ request[s] = "new"
  /\ request' = [request EXCEPT ![s] = "enqueue"]
  /\ status' = [status EXCEPT ![s] = "queued"]
  /\ UNCHANGED <<errored, finished, jobVars, runVars, storeVars>>

(* Starting the next run of s: the worker's processor, or under the inline  *)
(* driver the un-awaited call in enqueueScan, enters runScan.               *)
StartRun(s) ==
  /\ started' = [started EXCEPT ![s] = @ + 1]
  /\ Goto(s, started[s] + 1, "read")
  /\ UNCHANGED <<page, idx>>

Enqueue(s) ==
  /\ request[s] = "enqueue"
  /\ request' = [request EXCEPT ![s] = "link"]
  /\ IF Driver = "inline"
       THEN StartRun(s) /\ UNCHANGED job
       ELSE /\ job' = [job EXCEPT ![s] = "waiting"]
            /\ UNCHANGED <<started, runVars>>
  /\ UNCHANGED <<rowVars, holder, made, stalls, storeVars>>

(* UPDATE scans SET jobId, then 202.                                        *)
LinkJob(s) ==
  /\ request[s] = "link"
  /\ request' = [request EXCEPT ![s] = "accepted"]
  /\ UNCHANGED <<rowVars, jobVars, runVars, storeVars>>

(* queue.add or the UPDATE throws: 500, and nothing is rolled back.         *)
RequestFails(s) ==
  /\ request[s] \in {"enqueue", "link"} \cap Mishaps
  /\ request' = [request EXCEPT ![s] = "error"]
  /\ UNCHANGED <<rowVars, jobVars, runVars, storeVars>>

-----------------------------------------------------------------------------
(* The queue, as the worker uses it.                                        *)

(* Slip: a job is taken without its lock.                                   *)
TakeJobUnlocked(s) ==
  /\ job[s] \in {"waiting", "active"}
  /\ Cardinality(LiveRuns) < Concurrency
  /\ job' = [job EXCEPT ![s] = "active"]
  /\ holder' = [holder EXCEPT ![s] = started[s] + 1]
  /\ StartRun(s)
  /\ UNCHANGED <<request, rowVars, made, stalls, storeVars>>

TakeJob(s) ==
  /\ job[s] = "waiting"
  /\ Cardinality(LiveRuns) < Concurrency
  /\ job' = [job EXCEPT ![s] = "active"]
  /\ holder' = [holder EXCEPT ![s] = started[s] + 1]
  /\ StartRun(s)
  /\ UNCHANGED <<request, rowVars, made, stalls, storeVars>>

BackoffEnds(s) ==
  /\ job[s] = "delayed"
  /\ job' = [job EXCEPT ![s] = "waiting"]
  /\ UNCHANGED <<request, rowVars, holder, started, made, stalls,
                 runVars, storeVars>>

(* The stalled-job check finds a job whose lock has expired.                *)
GiveBack(s) ==
  /\ stalls' = [stalls EXCEPT ![s] = @ + 1]
  /\ holder' = [holder EXCEPT ![s] = 0]
  /\ job' = [job EXCEPT ![s] = IF stalls[s] < MaxStalled THEN "waiting" ELSE "failed"]
  /\ UNCHANGED <<request, rowVars, started, made, runVars, storeVars>>

(* ... because the worker that held it died ...                             *)
RecoverStalled(s) ==
  /\ job[s] = "active"
  /\ pc[s][holder[s]] = "dead"
  /\ GiveBack(s)

(* ... or because its renewals did not reach Redis for lockDuration, while  *)
(* the run is still going.                                                  *)
LoseLock(s) ==
  /\ "lockLoss" \in Mishaps
  /\ job[s] = "active"
  /\ Live(s, holder[s])
  /\ GiveBack(s)

-----------------------------------------------------------------------------
(* runScan.                                                                 *)

(* Slip: the cancelled row is not looked at.                                *)
ReadRowUnchecked(s, k) ==
  /\ pc[s][k] = "read"
  /\ Goto(s, k, "mark")
  /\ UNCHANGED <<request, rowVars, jobVars, page, idx, storeVars>>

(* SELECT the row; a cancelled scan is skipped.                             *)
ReadRow(s, k) ==
  /\ pc[s][k] = "read"
  /\ Goto(s, k, IF status[s] = "cancelled" THEN "returned" ELSE "mark")
  /\ UNCHANGED <<request, rowVars, jobVars, page, idx, storeVars>>

(* UPDATE ... SET status = 'running': errorCode and finishedAt of an        *)
(* earlier attempt stay.                                                    *)
MarkRunning(s, k) ==
  /\ pc[s][k] = "mark"
  /\ status' = [status EXCEPT ![s] = "running"]
  /\ Goto(s, k, "crawl")
  /\ UNCHANGED <<request, errored, finished, jobVars, page, idx, storeVars>>

Crawl(s, k) ==
  /\ pc[s][k] = "crawl"
  /\ \E p \in Pages : page' = [page EXCEPT ![s][k] = p]
  /\ idx' = [idx EXCEPT ![s][k] = 1]
  /\ Goto(s, k, "put")
  /\ UNCHANGED <<request, rowVars, jobVars, storeVars>>

Artefact(s, k) == Artefacts[page[s][k]][idx[s][k]]

(* Slips: the put is not awaited and fails unseen; a key that is already    *)
(* there is not written again.                                              *)
PutNotAwaited(s, k) ==
  /\ pc[s][k] = "put"
  /\ Goto(s, k, "asset")
  /\ UNCHANGED <<request, rowVars, jobVars, page, idx, storeVars>>
PutOnce(s, k) ==
  /\ pc[s][k] = "put"
  /\ blob' = IF Artefact(s, k).truncated \/ blob[s][Artefact(s, k).key] # NoPage
             THEN blob ELSE [blob EXCEPT ![s][Artefact(s, k).key] = page[s][k]]
  /\ Goto(s, k, "asset")
  /\ UNCHANGED <<request, rowVars, jobVars, page, idx, assetRows, techs, stamped>>

(* storage.put overwrites whatever an earlier attempt left under the key;   *)
(* a truncated asset is recorded without being stored.                      *)
PutBytes(s, k) ==
  /\ pc[s][k] = "put"
  /\ blob' = IF Artefact(s, k).truncated THEN blob
             ELSE [blob EXCEPT ![s][Artefact(s, k).key] = page[s][k]]
  /\ Goto(s, k, "asset")
  /\ UNCHANGED <<request, rowVars, jobVars, page, idx, assetRows, techs, stamped>>

(* Slip: the row is called succeeded before detection has run.              *)
InsertAssetAndSucceed(s, k) ==
  /\ pc[s][k] = "asset"
  /\ idx' = [idx EXCEPT ![s][k] = @ + 1]
  /\ IF idx[s][k] = Len(Artefacts[page[s][k]])
       THEN Goto(s, k, "techs") /\ status' = [status EXCEPT ![s] = "succeeded"]
       ELSE Goto(s, k, "put") /\ UNCHANGED status
  /\ UNCHANGED <<request, errored, finished, jobVars, page, storeVars>>

InsertAsset(s, k) ==
  /\ pc[s][k] = "asset"
  /\ assetRows' = assetRows \cup
       {[scan |-> s, run |-> k, key |-> Artefact(s, k).key,
         bytes |-> IF Artefact(s, k).truncated THEN NoPage ELSE page[s][k]]}
  /\ idx' = [idx EXCEPT ![s][k] = @ + 1]
  /\ Goto(s, k, IF idx[s][k] = Len(Artefacts[page[s][k]]) THEN "techs" ELSE "put")
  /\ UNCHANGED <<request, rowVars, jobVars, page, blob, techs, stamped>>

(* One INSERT for all detections; the unique index on (scan, name) rejects  *)
(* all of it when an earlier attempt stored one of the names.               *)
InsertTechs(s, k) ==
  /\ pc[s][k] = "techs"
  /\ IF Detected[page[s][k]] \cap techs[s] = {}
       THEN /\ techs' = [techs EXCEPT ![s] = @ \cup Detected[page[s][k]]]
            /\ Goto(s, k, "succeed")
       ELSE Goto(s, k, "fail") /\ UNCHANGED techs
  /\ UNCHANGED <<request, rowVars, jobVars, page, idx, blob, assetRows, stamped>>

(* Slip: the error of an earlier attempt is not cleared.                    *)
MarkSucceededKeepsError(s, k) ==
  /\ pc[s][k] = "succeed"
  /\ status' = [status EXCEPT ![s] = "succeeded"]
  /\ finished' = [finished EXCEPT ![s] = TRUE]
  /\ Goto(s, k, "stamp")
  /\ UNCHANGED <<request, errored, jobVars, page, idx, storeVars>>

MarkSucceeded(s, k) ==
  /\ pc[s][k] = "succeed"
  /\ status' = [status EXCEPT ![s] = "succeeded"]
  /\ errored' = [errored EXCEPT ![s] = FALSE]
  /\ finished' = [finished EXCEPT ![s] = TRUE]
  /\ Goto(s, k, "stamp")
  /\ UNCHANGED <<request, jobVars, page, idx, storeVars>>

StampWebsite(s, k) ==
  /\ pc[s][k] = "stamp"
  /\ stamped' = [stamped EXCEPT ![s] = TRUE]
  /\ Goto(s, k, "returned")
  /\ UNCHANGED <<request, rowVars, jobVars, page, idx, blob, assetRows, techs>>

(* Slip: the failure is recorded and not rethrown.                          *)
MarkFailedSwallowed(s, k) ==
  /\ pc[s][k] \in {"fail", "fallback"}
  /\ status' = [status EXCEPT ![s] = "failed"]
  /\ errored' = [errored EXCEPT ![s] = TRUE]
  /\ finished' = [finished EXCEPT ![s] = TRUE]
  /\ Goto(s, k, "returned")
  /\ UNCHANGED <<request, jobVars, page, idx, storeVars>>

(* markFailed: the write with the real message, or the fallback.            *)
MarkFailed(s, k) ==
  /\ pc[s][k] \in {"fail", "fallback"}
  /\ status' = [status EXCEPT ![s] = "failed"]
  /\ errored' = [errored EXCEPT ![s] = TRUE]
  /\ finished' = [finished EXCEPT ![s] = TRUE]
  /\ Goto(s, k, "thrown")
  /\ UNCHANGED <<request, jobVars, page, idx, storeVars>>

(* Slip: markFailed has no fallback.                                        *)
HandlerNoFallback(step) ==
  IF step \in {"read", "mark", "fail", "fallback"} THEN "thrown" ELSE "fail"

(* Where an exception at a step leads: the SELECT and the first UPDATE are  *)
(* outside the try block, and the fallback write is the last resort.        *)
Handler(step) ==
  IF step \in {"read", "mark", "fallback"} THEN "thrown"
  ELSE IF step = "fail" THEN "fallback" ELSE "fail"

StepFails(s, k) ==
  /\ pc[s][k] \in FailingSteps \cap Mishaps
  /\ Goto(s, k, Handler(pc[s][k]))
  /\ UNCHANGED <<request, rowVars, jobVars, page, idx, storeVars>>

-----------------------------------------------------------------------------
(* What the queue does with the outcome.  A run that lost the job's lock    *)
(* cannot move it: BullMQ refuses with "Missing lock".                      *)

Return(s, k) ==
  /\ pc[s][k] = "returned"
  /\ Goto(s, k, "done")
  /\ IF holder[s] = k
       THEN /\ job' = [job EXCEPT ![s] = "completed"]
            /\ holder' = [holder EXCEPT ![s] = 0]
       ELSE UNCHANGED <<job, holder>>
  /\ UNCHANGED <<request, rowVars, started, made, stalls, page, idx, storeVars>>

(* Slip: one attempt too many.                                              *)
ThrowOnceMore(s, k) ==
  /\ pc[s][k] = "thrown"
  /\ Goto(s, k, "done")
  /\ IF holder[s] = k
       THEN /\ made' = [made EXCEPT ![s] = @ + 1]
            /\ holder' = [holder EXCEPT ![s] = 0]
            /\ job' = [job EXCEPT ![s] =
                         IF made[s] < JobAttempts THEN "delayed" ELSE "failed"]
       ELSE UNCHANGED <<job, holder, made>>
  /\ UNCHANGED <<request, rowVars, started, stalls, page, idx, storeVars>>

Throw(s, k) ==
  /\ pc[s][k] = "thrown"
  /\ Goto(s, k, "done")
  /\ IF holder[s] = k
       THEN /\ made' = [made EXCEPT ![s] = @ + 1]
            /\ holder' = [holder EXCEPT ![s] = 0]
            /\ job' = [job EXCEPT ![s] =
                         IF made[s] + 1 < JobAttempts THEN "delayed" ELSE "failed"]
       ELSE UNCHANGED <<job, holder, made>>
  /\ UNCHANGED <<request, rowVars, started, stalls, page, idx, storeVars>>

-----------------------------------------------------------------------------
(* Processes dying, and an operator cancelling a queued row by hand.        *)

KillRuns ==
  pc' = [s \in Scans |-> [k \in Runs |-> IF Live(s, k) THEN "dead" ELSE pc[s][k]]]

WorkerCrash ==
  /\ "workerCrash" \in Mishaps
  /\ Driver = "redis"
  /\ LiveRuns # {}
  /\ KillRuns
  /\ UNCHANGED <<request, rowVars, jobVars, page, idx, storeVars>>

(* The inline driver's runs live in the API process and die with it.        *)
ApiCrash ==
  /\ "apiCrash" \in Mishaps
  /\ \E s \in Scans : \/ request[s] \in {"enqueue", "link"}
                      \/ Driver = "inline" /\ \E k \in Runs : Live(s, k)
  /\ request' = [s \in Scans |-> IF request[s] \in {"enqueue", "link"}
                                   THEN "error" ELSE request[s]]
  /\ IF Driver = "inline" THEN KillRuns ELSE UNCHANGED pc
  /\ UNCHANGED <<rowVars, jobVars, page, idx, storeVars>>

Cancel(s) ==
  /\ "cancel" \in Mishaps
  /\ status[s] = "queued"
  /\ status' = [status EXCEPT ![s] = "cancelled"]
  /\ UNCHANGED <<request, errored, finished, jobVars, runVars, storeVars>>

-----------------------------------------------------------------------------
(* The specification.                                                       *)

RequestStep(s) == InsertScan(s) \/ Enqueue(s) \/ LinkJob(s)
QueueStep(s) == TakeJob(s) \/ BackoffEnds(s) \/ RecoverStalled(s)
RunStep(s, k) ==
  \/ ReadRow(s, k) \/ MarkRunning(s, k) \/ Crawl(s, k) \/ PutBytes(s, k)
  \/ InsertAsset(s, k) \/ InsertTechs(s, k) \/ MarkSucceeded(s, k)
  \/ StampWebsite(s, k) \/ MarkFailed(s, k) \/ StepFails(s, k)
  \/ Return(s, k) \/ Throw(s, k)

Next ==
  \/ \E s \in Scans :
       \/ RequestStep(s) \/ RequestFails(s) \/ QueueStep(s)
       \/ LoseLock(s) \/ Cancel(s)
       \/ \E k \in Runs : RunStep(s, k)
  \/ WorkerCrash
  \/ ApiCrash

Spec == Init /\ [][Next]_vars

(* The handler and the run go on while their process lives; a worker keeps  *)
(* polling the queue, promoting delayed jobs and checking for stalled ones. *)
Fairness ==
  \A s \in Scans : /\ WF_vars(Enqueue(s) \/ LinkJob(s) \/ RequestFails(s))
                   /\ WF_vars(QueueStep(s))
                   /\ \A k \in Runs : WF_vars(RunStep(s, k))
FairSpec == Spec /\ Fairness

-----------------------------------------------------------------------------
(* Safety.                                                                  *)

Settled(s) == status[s] \in {"succeeded", "failed", "cancelled"}

(* A row never claims bytes storage does not hold: every scan_assets row    *)
(* with a storage key has an object under it, whatever failed between the   *)
(* put and the INSERT and however many runs worked on the scan.             *)
NoDanglingAsset ==
  \A a \in assetRows : a.bytes # NoPage => blob[a.scan][a.key] # NoPage

(* What run k recorded is complete: one row per artefact of its page, and   *)
(* the names its page shows.                                                *)
RecordedBy(s, k) ==
  /\ page[s][k] # NoPage
  /\ Detected[page[s][k]] \subseteq techs[s]
  /\ \A i \in 1 .. Len(Artefacts[page[s][k]]) :
       LET art == Artefacts[page[s][k]][i] IN
       [scan |-> s, run |-> k, key |-> art.key,
        bytes |-> IF art.truncated THEN NoPage ELSE page[s][k]] \in assetRows

(* A row that says 'succeeded' has everything one capture of the page gives *)
(* and no trace of an earlier attempt's error; a row that says 'failed' has *)
(* an error code.  Both have a finish time.  This survives retries, crashes *)
(* and two runs of the same scan at once.                                   *)
SettledRowIsHonest ==
  \A s \in Scans :
    /\ status[s] = "succeeded" =>
         ~errored[s] /\ finished[s] /\ \E k \in Runs : RecordedBy(s, k)
    /\ status[s] = "failed" => errored[s] /\ finished[s]

(* Without lock loss, a scan is crawled by at most one run at a time: the   *)
(* job id is the scan id, and a job is retried only when its run is over.   *)
OneRunPerScan ==
  \A s \in Scans : \A j, k \in Runs : Live(s, j) /\ Live(s, k) => j = k

(* The rows of the run that made the scan succeed read back the very bytes  *)
(* they describe, also when earlier attempts stored other content.          *)
LastRunReadsBack ==
  \A s \in Scans : status[s] = "succeeded" =>
    \A a \in assetRows :
      a.scan = s /\ a.run = started[s] /\ a.bytes # NoPage => blob[s][a.key] = a.bytes

(* A failure is rethrown "so BullMQ can retry": no retry is refused because *)
(* of what an earlier attempt stored.                                       *)
RetryIsNotBlocked ==
  \A s \in Scans, k \in Runs :
    pc[s][k] = "techs" => Detected[page[s][k]] \cap techs[s] = {}

-----------------------------------------------------------------------------
(* Action properties.                                                       *)

(* A cancellation that no run has already read past is kept for good.       *)
CancelSeen(s) == status[s] = "cancelled" /\ \A k \in Runs : pc[s][k] # "mark"
CancelIsKept == [][\A s \in Scans : CancelSeen(s) => CancelSeen(s)']_vars

-----------------------------------------------------------------------------
(* The row is what ScanContract lets a client see.                          *)
PhaseOf == [label \in PCs |->
  CASE label = "unborn"            -> "none"
    [] label \in {"read", "mark"}  -> "begun"
    [] label \in {"crawl", "put", "asset", "techs", "succeed"} -> "working"
    [] label = "stamp"             -> "claimed"
    [] label \in {"fail", "fallback"} -> "failing"
    [] OTHER                       -> "over"]

phases == [s \in Scans |-> [k \in Runs |-> PhaseOf[pc[s][k]]]]

Contract == INSTANCE ScanContract WITH
  state <- status, phase <- phases, Limit <- MaxRuns
ImplementsContract == Contract!Spec
=============================================================================
