------------------------ MODULE ScanLifecycle_proofs -------------------------
(***************************************************************************)
(* What holds of ScanLifecycle and ScanNotes for every set of scans and     *)
(* pages, every number of attempts, either driver and any combination of    *)
(* mishaps: the queue's books and the store, what the lock of a job gives   *)
(* as long as no live run lost it, what a client that polls the row may     *)
(* rely on, and how the queue and the row agree.                            *)
(***************************************************************************)
EXTENDS ScanNotes, TLAPS

(* The queue's books.  A job waiting or delayed has spent one run on every  *)
(* counted failure and stall; an active one has one more under way.         *)
JobBooks(s) ==
  /\ request[s] \in {"new", "enqueue"} => job[s] = "none" /\ started[s] = 0
  /\ job[s] = "none" => made[s] = 0 /\ stalls[s] = 0 /\ started[s] <= 1
  /\ job[s] \in {"waiting", "delayed"} => started[s] <= made[s] + stalls[s]
  /\ job[s] \in {"waiting", "delayed", "active"} =>
       made[s] < JobAttempts /\ stalls[s] <= MaxStalled
  /\ job[s] = "active" => holder[s] \in 1 .. started[s]
  /\ holder[s] # 0 => job[s] = "active"
  /\ started[s] <= made[s] + stalls[s] + 1

(* Runs are born in order.                                                  *)
RunsInOrder(s) == \A k \in Runs : k > started[s] => pc[s][k] = "unborn"

Row(s, k, i) ==
  [scan |-> s, run |-> k, key |-> Artefacts[page[s][k]][i].key,
   bytes |-> IF Artefacts[page[s][k]][i].truncated THEN NoPage ELSE page[s][k]]

(* How far the store has come when a run stands at a step.                  *)
Progress(s, k) ==
  /\ pc[s][k] \in {"put", "asset"} =>
       /\ page[s][k] \in Pages
       /\ idx[s][k] \in 1 .. Len(Artefacts[page[s][k]])
       /\ \A i \in 1 .. (idx[s][k] - 1) : Row(s, k, i) \in assetRows
  /\ pc[s][k] = "asset" /\ ~Artefact(s, k).truncated =>
       blob[s][Artefact(s, k).key] # NoPage
  /\ pc[s][k] \in {"techs", "succeed"} =>
       /\ page[s][k] \in Pages
       /\ \A i \in 1 .. Len(Artefacts[page[s][k]]) : Row(s, k, i) \in assetRows
  /\ pc[s][k] = "succeed" => Detected[page[s][k]] \subseteq techs[s]

Early == {"unborn", "read", "mark", "crawl"}

(* SettledRowIsHonest, with a witness that will not crawl again.            *)
Honest(s) ==
  /\ status[s] = "succeeded" =>
       /\ ~errored[s] /\ finished[s]
       /\ \E k \in Runs : RecordedBy(s, k) /\ pc[s][k] \notin Early
  /\ status[s] = "failed" => errored[s] /\ finished[s]

Books == \A s \in Scans : JobBooks(s) /\ RunsInOrder(s)
Store == NoDanglingAsset /\ \A s \in Scans, k \in Runs : Progress(s, k)
Honesty == \A s \in Scans : Honest(s)

-----------------------------------------------------------------------------
(* Shorthands of the specification that the proofs below always expand.     *)
USE DEF rowVars, jobVars, runVars, storeVars, vars, MaxRuns, Runs

LEMMA Limits == /\ MaxRuns \in Nat /\ 1 \in Runs /\ 0 \notin Runs
                /\ JobAttempts \in Nat /\ MaxStalled \in Nat
                /\ Runs \subseteq Nat
BY LimitsTyped

LEMMA InitTypeOK == Init => TypeOK
<1> SUFFICES ASSUME Init PROVE TypeOK
  OBVIOUS
<1>1. /\ request \in [Scans -> RequestStates] /\ status \in [Scans -> Statuses]
      /\ errored \in [Scans -> BOOLEAN] /\ finished \in [Scans -> BOOLEAN]
      /\ stamped \in [Scans -> BOOLEAN] /\ job \in [Scans -> JobStates]
      /\ techs \in [Scans -> SUBSET Techs] /\ assetRows \subseteq AssetRow
  BY DEF Init, RequestStates, Statuses, JobStates
<1>2. /\ holder \in [Scans -> 0 .. MaxRuns] /\ started \in [Scans -> 0 .. MaxRuns]
      /\ made \in [Scans -> 0 .. JobAttempts]
      /\ stalls \in [Scans -> 0 .. MaxStalled + 1]
  BY Limits DEF Init
<1>3. /\ pc \in [Scans -> [Runs -> PCs]]
      /\ page \in [Scans -> [Runs -> Pages \cup {NoPage}]]
      /\ idx \in [Scans -> [Runs -> Nat]]
      /\ blob \in [Scans -> [Keys -> Pages \cup {NoPage}]]
  BY DEF Init, PCs, Gone
<1>4. QED
  BY <1>1, <1>2, <1>3 DEF TypeOK

(* Updating one cell of a table keeps it a table.                           *)
LEMMA Cell ==
  ASSUME NEW A, NEW B, NEW C, NEW f \in [A -> [B -> C]], NEW a, NEW b, NEW c \in C
  PROVE  [f EXCEPT ![a][b] = c] \in [A -> [B -> C]]
OBVIOUS

LEMMA SeqElement ==
  ASSUME NEW S, NEW q \in Seq(S), NEW i \in 1 .. Len(q)
  PROVE  q[i] \in S
OBVIOUS

LEMMA CellFrame ==
  ASSUME NEW A, NEW B, NEW C, NEW f \in [A -> [B -> C]], NEW a, NEW b, NEW c,
         NEW x \in A, NEW y \in B, <<x, y>> # <<a, b>>
  PROVE  [f EXCEPT ![a][b] = c][x][y] = f[x][y]
OBVIOUS

LEMMA LenNat ==
  ASSUME NEW S, NEW q \in Seq(S)
  PROVE  Len(q) \in Nat
OBVIOUS

(* The artefact a run is storing has a key in the scan's prefix.            *)
LEMMA ArtefactKey ==
  ASSUME TypeOK, NEW s \in Scans, NEW k \in Runs, Progress(s, k),
         pc[s][k] \in {"put", "asset"}
  PROVE  /\ page[s][k] \in Pages
         /\ idx[s][k] \in 1 .. Len(Artefacts[page[s][k]])
         /\ Artefact(s, k) \in [key : Keys, truncated : BOOLEAN]
<1> DEFINE Art == [key : Keys, truncated : BOOLEAN]
<1>1. /\ page[s][k] \in Pages
      /\ idx[s][k] \in 1 .. Len(Artefacts[page[s][k]])
  BY DEF Progress
<1>2. Artefacts[page[s][k]] \in Seq(Art)
  BY <1>1, ArtefactsTyped
<1> HIDE DEF Art
<1>3. Artefacts[page[s][k]][idx[s][k]] \in Art
  BY <1>1, <1>2, SeqElement
<1>4. QED
  BY <1>1, <1>3 DEF Artefact, Art

LEMMA TechsAreTechs ==
  ASSUME NEW s \in Scans, NEW k \in Runs, Progress(s, k), pc[s][k] = "techs"
  PROVE  page[s][k] \in Pages /\ Detected[page[s][k]] \subseteq Techs
BY DetectedTyped DEF Progress

(* Moving a run to a label keeps the program counters typed and leaves the  *)
(* other runs alone.                                                        *)
LEMMA GotoTyped ==
  ASSUME TypeOK, NEW s \in Scans, NEW k \in Runs, NEW l \in PCs, Goto(s, k, l)
  PROVE  /\ pc' \in [Scans -> [Runs -> PCs]]
         /\ pc'[s][k] = l
         /\ \A t \in Scans, j \in Runs : <<t, j>> # <<s, k>> => pc'[t][j] = pc[t][j]
BY DEF TypeOK, Goto

(* The steps of a run, of which only Return and Throw touch the queue.      *)
WorkStep(s, k) ==
  \/ ReadRow(s, k) \/ MarkRunning(s, k) \/ Crawl(s, k) \/ PutBytes(s, k)
  \/ InsertAsset(s, k) \/ InsertTechs(s, k) \/ MarkSucceeded(s, k)
  \/ StampWebsite(s, k) \/ MarkFailed(s, k) \/ StepFails(s, k)

LEMMA WorkStepFrame ==
  ASSUME NEW s \in Scans, NEW k \in Runs, WorkStep(s, k)
  PROVE  /\ UNCHANGED <<request, jobVars>>
         /\ pc[s][k] \in FailingSteps
         /\ \E l \in PCs \ {"unborn"} : Goto(s, k, l)
BY DEF WorkStep, ReadRow, MarkRunning, Crawl, PutBytes, InsertAsset, InsertTechs,
       MarkSucceeded, StampWebsite, MarkFailed, StepFails, Handler, FailingSteps,
       PCs, Gone

(* The cases of a step, for the proofs that go through them.                *)
LEMMA NextCases ==
  ASSUME [Next]_vars
  PROVE  \/ \E s \in Scans : InsertScan(s) \/ Enqueue(s) \/ LinkJob(s) \/ RequestFails(s)
         \/ \E s \in Scans : TakeJob(s)
         \/ \E s \in Scans : BackoffEnds(s)
         \/ \E s \in Scans : RecoverStalled(s) \/ LoseLock(s)
         \/ \E s \in Scans : Cancel(s)
         \/ \E s \in Scans, k \in Runs : WorkStep(s, k)
         \/ \E s \in Scans, k \in Runs : Return(s, k)
         \/ \E s \in Scans, k \in Runs : Throw(s, k)
         \/ WorkerCrash \/ ApiCrash
         \/ UNCHANGED vars
BY DEF Next, RequestStep, QueueStep, RunStep, WorkStep

-----------------------------------------------------------------------------
(* Type correctness and the queue's books, one step of the induction.       *)

LEMMA TypeStep ==
  ASSUME TypeOK, Books, Store, [Next]_vars
  PROVE  TypeOK'
<1> USE Limits
<1>1. ASSUME NEW s \in Scans,
             InsertScan(s) \/ Enqueue(s) \/ LinkJob(s) \/ RequestFails(s)
      PROVE  TypeOK'
  <2>1. CASE InsertScan(s)
    BY <2>1 DEF InsertScan, TypeOK, RequestStates, Statuses
  <2>2. CASE Enqueue(s)
    <3>1. started[s] = 0
      BY <2>2 DEF Enqueue, Books, JobBooks
    <3>2. CASE Driver = "inline"
      <4>1. pc' \in [Scans -> [Runs -> PCs]]
        BY <2>2, <3>1, <3>2, GotoTyped DEF Enqueue, StartRun, PCs, FailingSteps
      <4>2. started' \in [Scans -> 0 .. MaxRuns]
        <5>1. started' = [started EXCEPT ![s] = 1]
          BY <2>2, <3>1, <3>2 DEF Enqueue, StartRun
        <5>2. 1 \in 0 .. MaxRuns
          OBVIOUS
        <5>3. QED
          BY <5>1, <5>2 DEF TypeOK
      <4>3. QED
        BY <2>2, <3>2, <4>1, <4>2 DEF Enqueue, StartRun, TypeOK, RequestStates
    <3>3. CASE Driver # "inline"
      BY <2>2, <3>3 DEF Enqueue, TypeOK, RequestStates, JobStates
    <3>4. QED
      BY <3>2, <3>3
  <2>3. CASE LinkJob(s)
    BY <2>3 DEF LinkJob, TypeOK, RequestStates
  <2>4. CASE RequestFails(s)
    BY <2>4 DEF RequestFails, TypeOK, RequestStates
  <2>5. QED
    BY <1>1, <2>1, <2>2, <2>3, <2>4
<1>2. ASSUME NEW s \in Scans, TakeJob(s)
      PROVE  TypeOK'
  <2>1. started[s] + 1 \in Runs
    BY <1>2 DEF TakeJob, Books, JobBooks, TypeOK
  <2>2. /\ pc' \in [Scans -> [Runs -> PCs]]
        /\ started' \in [Scans -> 0 .. MaxRuns]
        /\ holder' \in [Scans -> 0 .. MaxRuns]
        /\ job' \in [Scans -> JobStates]
    BY <1>2, <2>1 DEF TakeJob, StartRun, Goto, TypeOK, PCs, FailingSteps, JobStates
  <2>3. QED
    BY <1>2, <2>2 DEF TakeJob, StartRun, TypeOK
<1>3. ASSUME NEW s \in Scans, BackoffEnds(s)
      PROVE  TypeOK'
  BY <1>3 DEF BackoffEnds, TypeOK, JobStates
<1>4. ASSUME NEW s \in Scans, RecoverStalled(s) \/ LoseLock(s)
      PROVE  TypeOK'
  <2>1. stalls[s] <= MaxStalled /\ GiveBack(s)
    BY <1>4 DEF RecoverStalled, LoseLock, Books, JobBooks
  <2>2. /\ stalls' \in [Scans -> 0 .. MaxStalled + 1]
        /\ holder' \in [Scans -> 0 .. MaxRuns]
        /\ job' \in [Scans -> JobStates]
    BY <2>1 DEF GiveBack, TypeOK, JobStates
  <2>3. QED
    BY <2>1, <2>2 DEF GiveBack, TypeOK
<1>5. ASSUME NEW s \in Scans, Cancel(s)
      PROVE  TypeOK'
  BY <1>5 DEF Cancel, TypeOK, Statuses
<1>6. ASSUME NEW s \in Scans, NEW k \in Runs, WorkStep(s, k)
      PROVE  TypeOK'
  <2>1. /\ pc' \in [Scans -> [Runs -> PCs]]
        /\ UNCHANGED <<request, jobVars>>
    BY <1>6, WorkStepFrame, GotoTyped
  <2>2. CASE Crawl(s, k)
    <3>1. PICK p \in Pages : page' = [page EXCEPT ![s][k] = p]
      BY <2>2 DEF Crawl
    <3>2. /\ page' \in [Scans -> [Runs -> Pages \cup {NoPage}]]
          /\ idx' \in [Scans -> [Runs -> Nat]]
      BY <2>2, <3>1, Cell DEF Crawl, TypeOK
    <3>3. QED
      BY <2>1, <2>2, <3>2 DEF Crawl, TypeOK
  <2>3. CASE PutBytes(s, k)
    <3>1. blob' \in [Scans -> [Keys -> Pages \cup {NoPage}]]
      <4>1. page[s][k] \in Pages \cup {NoPage}
        BY DEF TypeOK
      <4>2. [blob EXCEPT ![s][Artefact(s, k).key] = page[s][k]]
              \in [Scans -> [Keys -> Pages \cup {NoPage}]]
        BY <4>1, Cell DEF TypeOK
      <4>3. QED
        BY <2>3, <4>2 DEF PutBytes, TypeOK
    <3>2. QED
      BY <2>1, <2>3, <3>1 DEF PutBytes, TypeOK
  <2>4. CASE InsertAsset(s, k)
    <3>1. assetRows' \subseteq AssetRow
      <4> DEFINE art == Artefact(s, k)
                 new == [scan |-> s, run |-> k, key |-> art.key,
                         bytes |-> IF art.truncated THEN NoPage ELSE page[s][k]]
      <4>1. pc[s][k] = "asset" /\ assetRows' = assetRows \cup {new}
        BY <2>4 DEF InsertAsset
      <4>2. page[s][k] \in Pages /\ art \in [key : Keys, truncated : BOOLEAN]
        BY <4>1, ArtefactKey DEF Store
      <4>3. new \in AssetRow
        BY <4>2 DEF AssetRow
      <4>4. QED
        BY <4>1, <4>3 DEF TypeOK
    <3>2. idx' \in [Scans -> [Runs -> Nat]]
      <4>1. idx' = [idx EXCEPT ![s][k] = idx[s][k] + 1]
        BY <2>4 DEF InsertAsset
      <4>2. idx[s][k] + 1 \in Nat
        BY DEF TypeOK
      <4>3. QED
        BY <4>1, <4>2, Cell DEF TypeOK
    <3>3. QED
      BY <2>1, <2>4, <3>1, <3>2 DEF InsertAsset, TypeOK
  <2>5. CASE InsertTechs(s, k)
    <3>1. techs' \in [Scans -> SUBSET Techs]
      <4>1. CASE Detected[page[s][k]] \cap techs[s] = {}
        <5>1. techs' = [techs EXCEPT ![s] = techs[s] \cup Detected[page[s][k]]]
          BY <2>5, <4>1 DEF InsertTechs
        <5>2. techs[s] \cup Detected[page[s][k]] \in SUBSET Techs
          BY <2>5, TechsAreTechs DEF InsertTechs, TypeOK, Store
        <5>3. QED
          BY <5>1, <5>2 DEF TypeOK
      <4>2. CASE Detected[page[s][k]] \cap techs[s] # {}
        BY <2>5, <4>2 DEF InsertTechs, TypeOK
      <4>3. QED
        BY <4>1, <4>2
    <3>2. QED
      BY <2>1, <2>5, <3>1 DEF InsertTechs, TypeOK
  <2>6. CASE MarkRunning(s, k) \/ MarkSucceeded(s, k) \/ MarkFailed(s, k)
    BY <2>1, <2>6 DEF MarkRunning, MarkSucceeded, MarkFailed, TypeOK, Statuses
  <2>7. CASE ReadRow(s, k) \/ StampWebsite(s, k) \/ StepFails(s, k)
    BY <2>1, <2>7 DEF ReadRow, StampWebsite, StepFails, TypeOK
  <2>8. QED
    BY <1>6, <2>2, <2>3, <2>4, <2>5, <2>6, <2>7 DEF WorkStep
<1>7. ASSUME NEW s \in Scans, NEW k \in Runs, Return(s, k)
      PROVE  TypeOK'
  <2>1. pc' \in [Scans -> [Runs -> PCs]]
    BY <1>7, GotoTyped DEF Return, PCs, Gone
  <2>2. CASE holder[s] = k
    <3>1. job' = [job EXCEPT ![s] = "completed"] /\ holder' = [holder EXCEPT ![s] = 0]
      BY <1>7, <2>2 DEF Return
    <3>2. job' \in [Scans -> JobStates]
      BY <3>1 DEF TypeOK, JobStates
    <3>3. holder' \in [Scans -> 0 .. MaxRuns]
      BY <3>1 DEF TypeOK
    <3>4. QED
      BY <1>7, <2>1, <3>2, <3>3 DEF Return, TypeOK
  <2>3. CASE holder[s] # k
    BY <1>7, <2>1, <2>3 DEF Return, TypeOK
  <2>4. QED
    BY <2>2, <2>3
<1>8. ASSUME NEW s \in Scans, NEW k \in Runs, Throw(s, k)
      PROVE  TypeOK'
  <2>1. pc' \in [Scans -> [Runs -> PCs]]
    BY <1>8, GotoTyped DEF Throw, PCs, Gone
  <2>2. CASE holder[s] = k
    <3>1. made[s] \in 0 .. JobAttempts /\ made[s] < JobAttempts
      BY <2>2 DEF TypeOK, Books, JobBooks
    <3>2. PICK j \in JobStates : /\ made' = [made EXCEPT ![s] = made[s] + 1]
                                 /\ holder' = [holder EXCEPT ![s] = 0]
                                 /\ job' = [job EXCEPT ![s] = j]
      BY <1>8, <2>2 DEF Throw, JobStates
    <3>3. made' \in [Scans -> 0 .. JobAttempts] /\ job' \in [Scans -> JobStates]
      BY <3>1, <3>2 DEF TypeOK
    <3>4. holder' \in [Scans -> 0 .. MaxRuns]
      BY <3>2 DEF TypeOK
    <3>5. QED
      BY <1>8, <2>1, <3>3, <3>4 DEF Throw, TypeOK
  <2>3. CASE holder[s] # k
    BY <1>8, <2>1, <2>3 DEF Throw, TypeOK
  <2>4. QED
    BY <2>2, <2>3
<1>9. ASSUME WorkerCrash \/ ApiCrash
      PROVE  TypeOK'
  <2>1. pc' \in [Scans -> [Runs -> PCs]]
    <3>1. KillRuns => pc' \in [Scans -> [Runs -> PCs]]
      <4>1. "dead" \in PCs /\ \A s \in Scans, k \in Runs : pc[s][k] \in PCs
        BY DEF PCs, Gone, TypeOK
      <4>2. QED
        BY <4>1 DEF KillRuns
    <3>2. QED
      BY <1>9, <3>1 DEF WorkerCrash, ApiCrash, TypeOK
  <2>2. request' \in [Scans -> RequestStates]
    BY <1>9 DEF WorkerCrash, ApiCrash, TypeOK, RequestStates
  <2>3. QED
    BY <1>9, <2>1, <2>2 DEF WorkerCrash, ApiCrash, TypeOK
<1>10. ASSUME UNCHANGED vars PROVE TypeOK'
  BY <1>10 DEF TypeOK
<1>11. QED
  BY <1>1, <1>2, <1>3, <1>4, <1>5, <1>6, <1>7, <1>8, <1>9, <1>10, NextCases

(* What the books need of the types.                                        *)
JobTyped ==
  /\ job \in [Scans -> JobStates] /\ request \in [Scans -> RequestStates]
  /\ holder \in [Scans -> Nat] /\ started \in [Scans -> Nat]
  /\ made \in [Scans -> Nat] /\ stalls \in [Scans -> Nat]

LEMMA JobTypes == TypeOK => JobTyped
BY Limits DEF TypeOK, JobTyped

(* A job that can be taken has a run left.                                  *)
LEMMA RunLeft ==
  ASSUME TypeOK, NEW s \in Scans, JobBooks(s), job[s] = "waiting"
  PROVE  started[s] + 1 \in Runs /\ started[s] <= made[s] + stalls[s]
<1>1. started[s] \in Nat /\ made[s] \in Nat /\ stalls[s] \in Nat
  BY JobTypes DEF JobTyped
<1>2. made[s] < JobAttempts /\ stalls[s] <= MaxStalled /\ started[s] <= made[s] + stalls[s]
  BY DEF JobBooks
<1>3. QED
  BY <1>1, <1>2, LimitsTyped

(* Starting run k of scan s, the next one, keeps the runs in order.         *)
LEMMA StartKeepsOrder ==
  ASSUME TypeOK, NEW s \in Scans, NEW k \in Runs, k = started[s] + 1,
         Goto(s, k, "read"), started' = [started EXCEPT ![s] = k],
         NEW t \in Scans, RunsInOrder(t)
  PROVE  RunsInOrder(t)'
<1>1. started \in [Scans -> Nat] /\ k \in Nat /\ Runs \subseteq Nat
  BY JobTypes, Limits DEF JobTyped
<1>2. \A u \in Scans, j \in Runs : <<u, j>> # <<s, k>> => pc'[u][j] = pc[u][j]
  BY GotoTyped DEF PCs, FailingSteps
<1>3. CASE t = s
  BY <1>1, <1>2, <1>3 DEF RunsInOrder
<1>4. CASE t # s
  BY <1>1, <1>2, <1>4 DEF RunsInOrder
<1>5. QED
  BY <1>3, <1>4

LEMMA BooksStep ==
  ASSUME TypeOK, Books, [Next]_vars
  PROVE  Books'
<1> USE Limits
<1> SUFFICES ASSUME NEW t \in Scans
             PROVE  JobBooks(t)' /\ RunsInOrder(t)'
  BY DEF Books
<1>0. JobBooks(t) /\ RunsInOrder(t)
  BY DEF Books
<1>1. ASSUME NEW s \in Scans,
             InsertScan(s) \/ Enqueue(s) \/ LinkJob(s) \/ RequestFails(s)
      PROVE  JobBooks(t)' /\ RunsInOrder(t)'
  <2>1. CASE InsertScan(s) \/ LinkJob(s) \/ RequestFails(s)
    BY <1>0, <2>1 DEF InsertScan, LinkJob, RequestFails, JobBooks, RunsInOrder, TypeOK
  <2>2. CASE Enqueue(s)
    <3>1. started[s] = 0 /\ job[s] = "none"
      BY <2>2 DEF Enqueue, Books, JobBooks
    <3>2. CASE Driver = "inline"
      <4>1. Goto(s, 1, "read") /\ started' = [started EXCEPT ![s] = 1] /\ UNCHANGED job
        BY <2>2, <3>1, <3>2 DEF Enqueue, StartRun
      <4>2. RunsInOrder(t)'
        <5>1. 1 = started[s] + 1
          BY <3>1
        <5>2. QED
          BY <1>0, <4>1, <5>1, StartKeepsOrder
      <4>3. request' = [request EXCEPT ![s] = "link"] /\ UNCHANGED <<holder, made, stalls>>
        BY <2>2 DEF Enqueue
      <4>4. JobBooks(t)'
        <5>1. CASE t = s
          BY <1>0, <3>1, <4>1, <4>3, <5>1, JobTypes DEF JobBooks, JobTyped
        <5>2. CASE t # s
          BY <1>0, <4>1, <4>3, <5>2, JobTypes DEF JobBooks, JobTyped
        <5>3. QED
          BY <5>1, <5>2
      <4>5. QED
        BY <4>2, <4>4
    <3>3. CASE Driver # "inline"
      <4>1. /\ request' = [request EXCEPT ![s] = "link"]
            /\ job' = [job EXCEPT ![s] = "waiting"]
            /\ UNCHANGED <<holder, started, made, stalls, pc>>
        BY <2>2, <3>3 DEF Enqueue
      <4>2. RunsInOrder(t)'
        BY <1>0, <4>1 DEF RunsInOrder
      <4>3. CASE t = s
        <5>1. JobBooks(t)'
          BY <1>0, <3>1, <4>1, <4>3, JobTypes, LimitsTyped DEF JobBooks, JobTyped
        <5>2. QED
          BY <4>2, <5>1
      <4>4. CASE t # s
        BY <1>0, <4>1, <4>2, <4>4, JobTypes DEF JobBooks, JobTyped
      <4>5. QED
        BY <4>3, <4>4
    <3>4. QED
      BY <3>2, <3>3
  <2>3. QED
    BY <1>1, <2>1, <2>2
<1>2. ASSUME NEW s \in Scans, TakeJob(s)
      PROVE  JobBooks(t)' /\ RunsInOrder(t)'
  <2>1. started[s] + 1 \in Runs /\ started[s] <= made[s] + stalls[s]
    BY <1>2, RunLeft DEF TakeJob, Books
  <2>2. /\ Goto(s, started[s] + 1, "read")
        /\ started' = [started EXCEPT ![s] = started[s] + 1]
        /\ holder' = [holder EXCEPT ![s] = started[s] + 1]
        /\ job' = [job EXCEPT ![s] = "active"] /\ job[s] = "waiting"
        /\ UNCHANGED <<request, made, stalls>>
    BY <1>2 DEF TakeJob, StartRun
  <2>3. RunsInOrder(t)'
    BY <1>0, <2>1, <2>2, StartKeepsOrder
  <2>4. JobBooks(t)'
    <3>1. CASE t = s
      BY <1>0, <2>1, <2>2, <3>1, JobTypes DEF JobBooks, JobTyped
    <3>2. CASE t # s
      BY <1>0, <2>2, <3>2, JobTypes DEF JobBooks, JobTyped
    <3>3. QED
      BY <3>1, <3>2
  <2>5. QED
    BY <2>3, <2>4
<1>3. ASSUME NEW s \in Scans, BackoffEnds(s)
      PROVE  JobBooks(t)' /\ RunsInOrder(t)'
  BY <1>0, <1>3 DEF BackoffEnds, JobBooks, RunsInOrder, TypeOK
<1>4. ASSUME NEW s \in Scans, RecoverStalled(s) \/ LoseLock(s)
      PROVE  JobBooks(t)' /\ RunsInOrder(t)'
  <2>1. job[s] = "active" /\ GiveBack(s)
    BY <1>4 DEF RecoverStalled, LoseLock
  <2>2. RunsInOrder(t)'
    BY <1>0, <2>1 DEF GiveBack, RunsInOrder
  <2>3. JobBooks(t)'
    <3>1. CASE t = s
      <4>1. /\ stalls'[s] = stalls[s] + 1 /\ holder'[s] = 0
            /\ job'[s] = IF stalls[s] < MaxStalled THEN "waiting" ELSE "failed"
            /\ UNCHANGED <<request, started, made>>
        BY <2>1, JobTypes DEF GiveBack, JobTyped
      <4>2. QED
        BY <1>0, <2>1, <3>1, <4>1, JobTypes, Limits DEF JobBooks, JobTyped
    <3>2. CASE t # s
      BY <1>0, <2>1, <3>2, JobTypes DEF GiveBack, JobBooks, JobTyped
    <3>3. QED
      BY <3>1, <3>2
  <2>4. QED
    BY <2>2, <2>3
<1>5. ASSUME NEW s \in Scans, Cancel(s)
      PROVE  JobBooks(t)' /\ RunsInOrder(t)'
  BY <1>0, <1>5 DEF Cancel, JobBooks, RunsInOrder
<1>6. ASSUME NEW s \in Scans, NEW k \in Runs, WorkStep(s, k)
      PROVE  JobBooks(t)' /\ RunsInOrder(t)'
  <2>1. /\ UNCHANGED <<request, jobVars>>
        /\ pc[s][k] # "unborn"
        /\ \E l \in PCs \ {"unborn"} : Goto(s, k, l)
    BY <1>6, WorkStepFrame DEF FailingSteps
  <2>2. JobBooks(t)'
    BY <1>0, <2>1 DEF JobBooks
  <2>3. RunsInOrder(t)'
    BY <1>0, <2>1, GotoTyped DEF RunsInOrder
  <2>4. QED
    BY <2>2, <2>3
<1>7. ASSUME NEW s \in Scans, NEW k \in Runs, Return(s, k) \/ Throw(s, k)
      PROVE  JobBooks(t)' /\ RunsInOrder(t)'
  <2>1. Goto(s, k, "done") /\ pc[s][k] # "unborn" /\ UNCHANGED started
    BY <1>7 DEF Return, Throw
  <2>2. RunsInOrder(t)'
    BY <1>0, <2>1, GotoTyped DEF RunsInOrder, PCs, Gone
  <2>3. JobBooks(t)'
    <3>1. CASE t # s \/ holder[s] # k
      BY <1>0, <1>7, <3>1, JobTypes DEF Return, Throw, JobBooks, JobTyped
    <3>2. CASE t = s /\ holder[s] = k /\ Return(s, k)
      BY <1>0, <3>2, JobTypes DEF Return, JobBooks, JobTyped
    <3>3. CASE t = s /\ holder[s] = k /\ Throw(s, k)
      <4>1. /\ made'[s] = made[s] + 1 /\ holder'[s] = 0
            /\ job'[s] = IF made[s] + 1 < JobAttempts THEN "delayed" ELSE "failed"
            /\ UNCHANGED <<request, started, stalls>>
        BY <3>3, JobTypes DEF Throw, JobTyped
      <4>2. job[s] = "active"
        BY <1>0, <3>3, Limits DEF JobBooks
      <4>3. QED
        BY <1>0, <3>3, <4>1, <4>2, JobTypes, Limits DEF JobBooks, JobTyped
    <3>4. QED
      BY <1>7, <3>1, <3>2, <3>3
  <2>4. QED
    BY <2>2, <2>3
<1>8. ASSUME WorkerCrash \/ ApiCrash
      PROVE  JobBooks(t)' /\ RunsInOrder(t)'
  <2>1. RunsInOrder(t)'
    <3>1. KillRuns /\ UNCHANGED started => RunsInOrder(t)'
      BY <1>0 DEF KillRuns, RunsInOrder, Live, Gone
    <3>2. QED
      BY <1>0, <1>8, <3>1 DEF WorkerCrash, ApiCrash, RunsInOrder
  <2>2. JobBooks(t)'
    BY <1>0, <1>8 DEF WorkerCrash, ApiCrash, JobBooks, TypeOK
  <2>3. QED
    BY <2>1, <2>2
<1>9. ASSUME UNCHANGED vars
      PROVE  JobBooks(t)' /\ RunsInOrder(t)'
  BY <1>0, <1>9 DEF JobBooks, RunsInOrder
<1>10. QED
  BY <1>1, <1>2, <1>3, <1>4, <1>5, <1>6, <1>7, <1>8, <1>9, NextCases

-----------------------------------------------------------------------------
(* The store: what a run at a step has behind it.                           *)

StoreGrows ==
  /\ assetRows \subseteq assetRows'
  /\ \A s \in Scans : techs[s] \subseteq techs'[s]
  /\ \A s \in Scans, key \in Keys : blob[s][key] # NoPage => blob'[s][key] # NoPage

LEMMA StoreOnlyGrows ==
  ASSUME TypeOK, Store, [Next]_vars
  PROVE  StoreGrows
<1>1. ASSUME NEW s \in Scans, NEW k \in Runs, WorkStep(s, k)
      PROVE  StoreGrows
  <2>1. CASE PutBytes(s, k)
    <3>1. page[s][k] # NoPage
      BY <2>1, ArtefactKey, NoPageIsNotAPage DEF PutBytes, Store
    <3>2. \/ blob' = blob
          \/ blob' = [blob EXCEPT ![s][Artefact(s, k).key] = page[s][k]]
      BY <2>1 DEF PutBytes
    <3>3. blob \in [Scans -> [Keys -> Pages \cup {NoPage}]]
      BY DEF TypeOK
    <3>4. \A u \in Scans, key \in Keys :
            blob[u][key] # NoPage => blob'[u][key] # NoPage
      BY <3>1, <3>2, <3>3
    <3>5. QED
      BY <2>1, <3>4 DEF PutBytes, StoreGrows
  <2>2. CASE InsertAsset(s, k)
    BY <2>2 DEF InsertAsset, StoreGrows
  <2>3. CASE InsertTechs(s, k)
    <3>1. \/ techs' = techs
          \/ techs' = [techs EXCEPT ![s] = techs[s] \cup Detected[page[s][k]]]
      BY <2>3 DEF InsertTechs
    <3>2. \A u \in Scans : techs[u] \subseteq techs'[u]
      BY <3>1 DEF TypeOK
    <3>3. QED
      BY <2>3, <3>2 DEF InsertTechs, StoreGrows
  <2>4. CASE UNCHANGED <<blob, assetRows, techs>>
    BY <2>4 DEF StoreGrows
  <2>5. QED
    BY <1>1, <2>1, <2>2, <2>3, <2>4
       DEF WorkStep, ReadRow, MarkRunning, Crawl, MarkSucceeded, StampWebsite,
           MarkFailed, StepFails
<1>2. CASE UNCHANGED <<blob, assetRows, techs>>
  BY <1>2 DEF StoreGrows
<1>3. QED
  BY <1>1, <1>2, NextCases
     DEF InsertScan, Enqueue, LinkJob, RequestFails, TakeJob, BackoffEnds, RecoverStalled,
         LoseLock, GiveBack, Cancel, Return, Throw, WorkerCrash, ApiCrash

(* A run that stays where it is, or goes where nothing is claimed of it,    *)
(* keeps its progress.                                                      *)
Claiming == {"put", "asset", "techs", "succeed"}

LEMMA ProgressKept ==
  ASSUME TypeOK, StoreGrows, NEW t \in Scans, NEW j \in Runs, Progress(t, j),
         page'[t][j] = page[t][j],
         \/ pc'[t][j] = pc[t][j] /\ idx'[t][j] = idx[t][j]
         \/ pc'[t][j] \notin Claiming
  PROVE  Progress(t, j)'
<1>1. CASE pc'[t][j] \notin Claiming
  BY <1>1 DEF Progress, Claiming
<1>2. CASE pc'[t][j] = pc[t][j] /\ idx'[t][j] = idx[t][j]
  <2>1. \A i : Row(t, j, i)' = Row(t, j, i)
    BY DEF Row
  <2>2. Artefact(t, j)' = Artefact(t, j)
    BY <1>2 DEF Artefact
  <2>3. pc[t][j] = "asset" => Artefact(t, j).key \in Keys
    BY ArtefactKey
  <2>4. QED
    BY <1>2, <2>1, <2>2, <2>3 DEF Progress, StoreGrows
<1>3. QED
  BY <1>1, <1>2

(* A step of the run itself.                                                *)
LEMMA OwnProgress ==
  ASSUME TypeOK, Store, StoreGrows, NEW s \in Scans, NEW k \in Runs, WorkStep(s, k)
  PROVE  Progress(s, k)'
<1>0. Progress(s, k)
  BY DEF Store
<1>1. CASE Crawl(s, k)
  <2>1. PICK p \in Pages : page' = [page EXCEPT ![s][k] = p]
    BY <1>1 DEF Crawl
  <2>2. /\ page'[s][k] = p /\ idx'[s][k] = 1 /\ pc'[s][k] = "put"
    BY <1>1, <2>1 DEF Crawl, Goto, TypeOK
  <2>3. Len(Artefacts[p]) \in Nat /\ Len(Artefacts[p]) >= 1
    <3>1. Artefacts[p] \in Seq([key : Keys, truncated : BOOLEAN])
      BY ArtefactsTyped
    <3>2. QED
      BY <3>1, LenNat, ArtefactsTyped
  <2>4. 1 \in 1 .. Len(Artefacts[p]) /\ 1 .. (1 - 1) = {}
    BY <2>3
  <2>5. QED
    BY <2>2, <2>4 DEF Progress
<1>2. CASE PutBytes(s, k)
  <2>1. /\ pc[s][k] = "put" /\ pc'[s][k] = "asset"
        /\ page' = page /\ idx' = idx /\ assetRows' = assetRows
    BY <1>2 DEF PutBytes, Goto, TypeOK
  <2>2. /\ page[s][k] \in Pages /\ Artefact(s, k).key \in Keys
        /\ Artefact(s, k)' = Artefact(s, k) /\ \A i : Row(s, k, i)' = Row(s, k, i)
    BY <1>0, <2>1, ArtefactKey DEF Artefact, Row
  <2>3. ~Artefact(s, k).truncated => blob'[s][Artefact(s, k).key] = page[s][k]
    BY <1>2, <2>2 DEF PutBytes, TypeOK
  <2>4. QED
    BY <1>0, <2>1, <2>2, <2>3, NoPageIsNotAPage DEF Progress
<1>3. CASE InsertAsset(s, k)
  <2> DEFINE n == Len(Artefacts[page[s][k]])
  <2>1. /\ pc[s][k] = "asset" /\ page' = page
        /\ assetRows' = assetRows \cup {Row(s, k, idx[s][k])}
    BY <1>3 DEF InsertAsset, Artefact, Row
  <2>2. /\ idx'[s][k] = idx[s][k] + 1
        /\ pc'[s][k] = IF idx[s][k] = n THEN "techs" ELSE "put"
    BY <1>3 DEF InsertAsset, Goto, TypeOK
  <2>3. page[s][k] \in Pages /\ idx[s][k] \in 1 .. n /\ n \in Nat
    <3>1. page[s][k] \in Pages /\ idx[s][k] \in 1 .. n
      BY <1>0, <2>1 DEF Progress
    <3>2. Artefacts[page[s][k]] \in Seq([key : Keys, truncated : BOOLEAN])
      BY <3>1, ArtefactsTyped
    <3>3. QED
      BY <3>1, <3>2, LenNat
  <2>4. \A i \in 1 .. idx[s][k] : Row(s, k, i)' \in assetRows'
    <3>1. \A i \in 1 .. (idx[s][k] - 1) : Row(s, k, i) \in assetRows
      BY <1>0, <2>1 DEF Progress
    <3>2. \A i : Row(s, k, i)' = Row(s, k, i)
      BY <2>1 DEF Row
    <3>3. \A i \in 1 .. idx[s][k] : i = idx[s][k] \/ i \in 1 .. (idx[s][k] - 1)
      BY <2>3
    <3>4. QED
      BY <2>1, <3>1, <3>2, <3>3
  <2>5. CASE idx[s][k] = n
    BY <2>1, <2>2, <2>3, <2>4, <2>5 DEF Progress
  <2>6. CASE idx[s][k] # n
    <3>1. idx[s][k] + 1 \in 1 .. n /\ (idx[s][k] + 1) - 1 = idx[s][k]
      BY <2>3, <2>6
    <3>2. QED
      BY <2>1, <2>2, <2>3, <2>4, <2>6, <3>1 DEF Progress
  <2>7. QED
    BY <2>5, <2>6
<1>4. CASE InsertTechs(s, k)
  <2>1. /\ pc[s][k] = "techs" /\ page' = page /\ assetRows' = assetRows
        /\ \A i : Row(s, k, i)' = Row(s, k, i)
    BY <1>4 DEF InsertTechs, Row
  <2>2. CASE Detected[page[s][k]] \cap techs[s] = {}
    <3>1. /\ Goto(s, k, "succeed")
          /\ techs' = [techs EXCEPT ![s] = techs[s] \cup Detected[page[s][k]]]
      BY <1>4, <2>2 DEF InsertTechs
    <3>2. /\ pc'[s][k] = "succeed"
          /\ techs'[s] = techs[s] \cup Detected[page[s][k]]
      BY <3>1, GotoTyped DEF PCs, FailingSteps, TypeOK
    <3>3. QED
      BY <1>0, <2>1, <3>2 DEF Progress
  <2>3. CASE Detected[page[s][k]] \cap techs[s] # {}
    <3>1. Goto(s, k, "fail")
      BY <1>4, <2>3 DEF InsertTechs
    <3>2. pc'[s][k] = "fail"
      BY <3>1, GotoTyped DEF PCs, FailingSteps
    <3>3. QED
      BY <3>2 DEF Progress
  <2>4. QED
    BY <2>2, <2>3
<1>5. CASE \/ ReadRow(s, k) \/ MarkRunning(s, k) \/ MarkSucceeded(s, k)
           \/ StampWebsite(s, k) \/ MarkFailed(s, k) \/ StepFails(s, k)
  <2>1. page' = page /\ \E l \in PCs \ Claiming : Goto(s, k, l)
    BY <1>5 DEF ReadRow, MarkRunning, MarkSucceeded, StampWebsite, MarkFailed,
                StepFails, Handler, PCs, Gone, FailingSteps, Claiming
  <2>2. pc'[s][k] \notin Claiming
    BY <2>1, GotoTyped
  <2>3. QED
    BY <1>0, <2>1, <2>2, ProgressKept
<1>6. QED
  BY <1>1, <1>2, <1>3, <1>4, <1>5 DEF WorkStep

(* Steps of the queue and of the handler move runs only to labels where     *)
(* nothing is claimed.                                                      *)
LEMMA OtherProgress ==
  ASSUME TypeOK, Store, StoreGrows, Books, NEW t \in Scans, NEW j \in Runs,
         page' = page, idx' = idx,
         pc'[t][j] = pc[t][j] \/ pc'[t][j] \in {"read", "done", "dead"}
  PROVE  Progress(t, j)'
<1>1. pc'[t][j] \in {"read", "done", "dead"} => pc'[t][j] \notin Claiming
  BY DEF Claiming
<1>2. Progress(t, j)
  BY DEF Store
<1>3. QED
  BY <1>1, <1>2, ProgressKept

LEMMA StoreStep ==
  ASSUME TypeOK, Books, Store, [Next]_vars
  PROVE  Store'
<1>0. StoreGrows
  BY StoreOnlyGrows
<1>1. NoDanglingAsset'
  <2> SUFFICES ASSUME NEW a \in assetRows', a.bytes # NoPage
               PROVE  blob'[a.scan][a.key] # NoPage
    BY DEF NoDanglingAsset
  <2>1. CASE a \in assetRows
    <3>1. a.scan \in Scans /\ a.key \in Keys /\ blob[a.scan][a.key] # NoPage
      BY <2>1 DEF TypeOK, AssetRow, Store, NoDanglingAsset
    <3>2. QED
      BY <1>0, <3>1 DEF StoreGrows
  <2>2. ASSUME NEW s \in Scans, NEW k \in Runs, InsertAsset(s, k), a \notin assetRows
        PROVE  blob'[a.scan][a.key] # NoPage
    <3>1. /\ a.scan = s /\ a.key = Artefact(s, k).key /\ pc[s][k] = "asset"
          /\ ~Artefact(s, k).truncated /\ blob' = blob
      BY <2>2 DEF InsertAsset
    <3>2. QED
      BY <3>1 DEF Store, Progress
  <2>3. CASE assetRows' = assetRows
    BY <2>1, <2>3
  <2>4. QED
    BY <2>1, <2>2, <2>3, NextCases
       DEF InsertScan, Enqueue, LinkJob, RequestFails, TakeJob, BackoffEnds,
           RecoverStalled, LoseLock, GiveBack, Cancel, Return, Throw, WorkerCrash,
           ApiCrash, WorkStep, ReadRow, MarkRunning, Crawl, PutBytes, InsertTechs,
           MarkSucceeded, StampWebsite, MarkFailed, StepFails
<1>2. ASSUME NEW t \in Scans, NEW j \in Runs
      PROVE  Progress(t, j)'
  <2>1. ASSUME NEW s \in Scans, NEW k \in Runs, WorkStep(s, k)
        PROVE  Progress(t, j)'
    <3>1. CASE <<t, j>> = <<s, k>>
      BY <1>0, <2>1, <3>1, OwnProgress
    <3>2. CASE <<t, j>> # <<s, k>>
      <4>1. pc'[t][j] = pc[t][j]
        BY <2>1, <3>2, WorkStepFrame, GotoTyped
      <4>2. page'[t][j] = page[t][j] /\ idx'[t][j] = idx[t][j]
        <5>1. page \in [Scans -> [Runs -> Pages \cup {NoPage}]] /\ idx \in [Scans -> [Runs -> Nat]]
          BY DEF TypeOK
        <5>2. CASE Crawl(s, k)
          BY <3>2, <5>1, <5>2, CellFrame DEF Crawl
        <5>3. CASE InsertAsset(s, k)
          BY <3>2, <5>1, <5>3, CellFrame DEF InsertAsset
        <5>4. CASE page' = page /\ idx' = idx
          BY <5>4
        <5>5. QED
          BY <2>1, <5>2, <5>3, <5>4
             DEF WorkStep, ReadRow, MarkRunning, PutBytes, InsertTechs, MarkSucceeded,
                 StampWebsite, MarkFailed, StepFails
      <4>3. QED
        BY <1>0, <4>1, <4>2, ProgressKept DEF Store
    <3>3. QED
      BY <3>1, <3>2
  <2>2. ASSUME NEW s \in Scans, NEW k \in Runs, Return(s, k) \/ Throw(s, k)
        PROVE  Progress(t, j)'
    <3>1. Goto(s, k, "done") /\ page' = page /\ idx' = idx
      BY <2>2 DEF Return, Throw
    <3>2. pc'[t][j] = pc[t][j] \/ pc'[t][j] = "done"
      BY <3>1 DEF Goto, TypeOK
    <3>3. QED
      BY <1>0, <3>1, <3>2, OtherProgress
  <2>3. ASSUME NEW s \in Scans, Enqueue(s) \/ TakeJob(s)
        PROVE  Progress(t, j)'
    <3>1. page' = page /\ idx' = idx
      BY <2>3 DEF Enqueue, TakeJob, StartRun
    <3>2. pc'[t][j] = pc[t][j] \/ pc'[t][j] = "read"
      <4>1. pc' = pc \/ \E n : Goto(s, n, "read")
        BY <2>3 DEF Enqueue, TakeJob, StartRun
      <4>2. pc \in [Scans -> [Runs -> PCs]]
        BY DEF TypeOK
      <4>3. QED
        BY <4>1, <4>2 DEF Goto
    <3>3. QED
      BY <1>0, <3>1, <3>2, OtherProgress
  <2>4. CASE WorkerCrash \/ ApiCrash
    <3>1. page' = page /\ idx' = idx
      BY <2>4 DEF WorkerCrash, ApiCrash
    <3>2. pc'[t][j] = pc[t][j] \/ pc'[t][j] = "dead"
      <4>1. KillRuns \/ pc' = pc
        BY <2>4 DEF WorkerCrash, ApiCrash
      <4>2. QED
        BY <4>1 DEF KillRuns
    <3>3. QED
      BY <1>0, <3>1, <3>2, OtherProgress
  <2>5. CASE UNCHANGED runVars
    BY <1>0, <2>5, OtherProgress
  <2>6. QED
    BY <2>1, <2>2, <2>3, <2>4, <2>5, NextCases
       DEF InsertScan, LinkJob, RequestFails, BackoffEnds, RecoverStalled,
           LoseLock, GiveBack, Cancel
<1>3. QED
  BY <1>1, <1>2 DEF Store

-----------------------------------------------------------------------------
(* Honest rows.                                                             *)

(* A run past its crawl stays past it and keeps its page.                   *)
LEMMA PastCrawlStays ==
  ASSUME TypeOK, Books, [Next]_vars, NEW t \in Scans, NEW j \in Runs,
         pc[t][j] \notin Early
  PROVE  pc'[t][j] \notin Early /\ page'[t][j] = page[t][j]
<1>0. /\ pc \in [Scans -> [Runs -> PCs]]
      /\ page \in [Scans -> [Runs -> Pages \cup {NoPage}]]
  BY DEF TypeOK
<1>1. ASSUME NEW s \in Scans, NEW k \in Runs, WorkStep(s, k)
      PROVE  pc'[t][j] \notin Early /\ page'[t][j] = page[t][j]
  <2>1. pc[s][k] \notin Early => /\ page' = page
                                /\ \E l \in PCs \ Early : Goto(s, k, l)
    BY <1>1 DEF WorkStep, ReadRow, MarkRunning, Crawl, PutBytes, InsertAsset,
                InsertTechs, MarkSucceeded, StampWebsite, MarkFailed, StepFails,
                Handler, FailingSteps, PCs, Gone, Early
  <2>2. CASE <<t, j>> = <<s, k>>
    BY <2>1, <2>2, GotoTyped
  <2>3. CASE <<t, j>> # <<s, k>>
    <3>1. pc'[t][j] = pc[t][j]
      BY <1>1, <2>3, WorkStepFrame, GotoTyped
    <3>2. page' = page \/ \E p : page' = [page EXCEPT ![s][k] = p]
      BY <1>1 DEF WorkStep, ReadRow, MarkRunning, Crawl, PutBytes, InsertAsset,
                  InsertTechs, MarkSucceeded, StampWebsite, MarkFailed, StepFails
    <3>3. page'[t][j] = page[t][j]
      <4>1. CASE page' = page
        BY <4>1
      <4>2. ASSUME NEW p, page' = [page EXCEPT ![s][k] = p]
            PROVE  page'[t][j] = page[t][j]
        BY <1>0, <2>3, <4>2, CellFrame
      <4>3. QED
        BY <3>2, <4>1, <4>2
    <3>4. QED
      BY <3>1, <3>3
  <2>4. QED
    BY <2>2, <2>3
<1>2. ASSUME NEW s \in Scans, Enqueue(s) \/ TakeJob(s)
      PROVE  pc'[t][j] \notin Early /\ page'[t][j] = page[t][j]
  <2>1. page' = page /\ (pc' = pc \/ Goto(s, started[s] + 1, "read"))
    BY <1>2 DEF Enqueue, TakeJob, StartRun
  <2>2. <<t, j>> # <<s, started[s] + 1>>
    <3>1. SUFFICES ASSUME t = s, j = started[s] + 1 PROVE FALSE
      OBVIOUS
    <3>2. j > started[s]
      BY <3>1, JobTypes DEF JobTyped
    <3>3. pc[t][j] = "unborn"
      BY <3>1, <3>2 DEF Books, RunsInOrder
    <3>4. QED
      BY <3>3 DEF Early
  <2>3. pc'[t][j] = pc[t][j]
    <3>1. CASE pc' = pc
      BY <3>1
    <3>2. CASE pc' = [pc EXCEPT ![s][started[s] + 1] = "read"]
      BY <1>0, <2>2, <3>2, CellFrame
    <3>3. QED
      BY <2>1, <3>1, <3>2 DEF Goto
  <2>4. QED
    BY <2>1, <2>3
<1>3. ASSUME NEW s \in Scans, NEW k \in Runs, Return(s, k) \/ Throw(s, k)
      PROVE  pc'[t][j] \notin Early /\ page'[t][j] = page[t][j]
  <2>1. Goto(s, k, "done") /\ page' = page
    BY <1>3 DEF Return, Throw
  <2>2. pc'[t][j] = pc[t][j] \/ pc'[t][j] = "done"
    BY <1>0, <2>1 DEF Goto
  <2>3. QED
    BY <2>1, <2>2 DEF Early
<1>4. CASE WorkerCrash \/ ApiCrash
  <2>1. page' = page /\ (KillRuns \/ pc' = pc)
    BY <1>4 DEF WorkerCrash, ApiCrash
  <2>2. pc'[t][j] = pc[t][j] \/ pc'[t][j] = "dead"
    BY <2>1 DEF KillRuns
  <2>3. QED
    BY <2>1, <2>2 DEF Early
<1>5. CASE UNCHANGED runVars
  BY <1>5
<1>6. QED
  BY <1>1, <1>2, <1>3, <1>4, <1>5, NextCases
     DEF InsertScan, LinkJob, RequestFails, BackoffEnds, RecoverStalled, LoseLock,
         GiveBack, Cancel

(* What is recorded stays recorded.                                         *)
LEMMA RecordKept ==
  ASSUME StoreGrows, NEW t \in Scans, NEW j \in Runs, RecordedBy(t, j),
         page'[t][j] = page[t][j]
  PROVE  RecordedBy(t, j)'
BY DEF RecordedBy, StoreGrows

(* The only steps that write a row's outcome.                               *)
LEMMA OutcomeCases ==
  ASSUME TypeOK, [Next]_vars, NEW t \in Scans
  PROVE  \/ /\ status'[t] = status[t] /\ errored'[t] = errored[t]
            /\ finished'[t] = finished[t]
         \/ status'[t] \in {"queued", "running", "cancelled"}
         \/ status'[t] = "failed" /\ errored'[t] /\ finished'[t]
         \/ /\ status'[t] = "succeeded" /\ ~errored'[t] /\ finished'[t]
            /\ \E k \in Runs : MarkSucceeded(t, k)
<1>0. /\ status \in [Scans -> Statuses] /\ errored \in [Scans -> BOOLEAN]
      /\ finished \in [Scans -> BOOLEAN]
  BY DEF TypeOK
<1> DEFINE Same(s) == s # t => /\ status'[t] = status[t] /\ errored'[t] = errored[t]
                               /\ finished'[t] = finished[t]
<1>1. ASSUME NEW s \in Scans, InsertScan(s) \/ Cancel(s)
      PROVE  Same(s) /\ status'[s] \in {"queued", "cancelled"}
  BY <1>0, <1>1 DEF InsertScan, Cancel
<1>2. ASSUME NEW s \in Scans, NEW k \in Runs, MarkRunning(s, k)
      PROVE  Same(s) /\ status'[s] = "running"
  BY <1>0, <1>2 DEF MarkRunning
<1>3. ASSUME NEW s \in Scans, NEW k \in Runs, MarkFailed(s, k)
      PROVE  Same(s) /\ status'[s] = "failed" /\ errored'[s] /\ finished'[s]
  BY <1>0, <1>3 DEF MarkFailed
<1>4. ASSUME NEW s \in Scans, NEW k \in Runs, MarkSucceeded(s, k)
      PROVE  Same(s) /\ status'[s] = "succeeded" /\ ~errored'[s] /\ finished'[s]
  BY <1>0, <1>4 DEF MarkSucceeded
<1>5. \/ \E s \in Scans : InsertScan(s) \/ Cancel(s)
      \/ \E s \in Scans, k \in Runs : MarkRunning(s, k) \/ MarkFailed(s, k) \/ MarkSucceeded(s, k)
      \/ UNCHANGED rowVars
  BY NextCases
     DEF Enqueue, LinkJob, RequestFails, TakeJob, BackoffEnds, RecoverStalled, LoseLock,
         GiveBack, Return, Throw, WorkerCrash, ApiCrash, WorkStep, ReadRow, Crawl,
         PutBytes, InsertAsset, InsertTechs, StampWebsite, StepFails
<1>6. QED
  BY <1>1, <1>2, <1>3, <1>4, <1>5

LEMMA HonestyStep ==
  ASSUME TypeOK, Books, Store, Honesty, [Next]_vars
  PROVE  Honesty'
<1> SUFFICES ASSUME NEW t \in Scans PROVE Honest(t)'
  BY DEF Honesty
<1>0. Honest(t) /\ StoreGrows
  BY StoreOnlyGrows DEF Honesty
<1>1. CASE /\ status'[t] = status[t] /\ errored'[t] = errored[t]
           /\ finished'[t] = finished[t]
  <2>1. CASE status[t] = "succeeded"
    <3>1. PICK k \in Runs : RecordedBy(t, k) /\ pc[t][k] \notin Early
      BY <1>0, <2>1 DEF Honest
    <3>2. RecordedBy(t, k)' /\ pc'[t][k] \notin Early
      BY <1>0, <3>1, PastCrawlStays, RecordKept
    <3>3. QED
      BY <1>0, <1>1, <2>1, <3>2 DEF Honest
  <2>2. CASE status[t] # "succeeded"
    BY <1>0, <1>1, <2>2 DEF Honest
  <2>3. QED
    BY <2>1, <2>2
<1>2. CASE status'[t] \in {"queued", "running", "cancelled"}
  BY <1>2 DEF Honest
<1>3. CASE status'[t] = "failed" /\ errored'[t] /\ finished'[t]
  BY <1>3 DEF Honest
<1>4. ASSUME status'[t] = "succeeded", ~errored'[t], finished'[t],
             NEW k \in Runs, MarkSucceeded(t, k)
      PROVE  Honest(t)'
  <2>1. pc[t][k] = "succeed" /\ Goto(t, k, "stamp") /\ page' = page
    BY <1>4 DEF MarkSucceeded
  <2>2. RecordedBy(t, k)
    BY <2>1, NoPageIsNotAPage DEF Store, Progress, Row, RecordedBy
  <2>3. RecordedBy(t, k)' /\ pc'[t][k] \notin Early
    BY <1>0, <2>1, <2>2, RecordKept, PastCrawlStays DEF Early
  <2>4. QED
    BY <1>4, <2>3 DEF Honest
<1>5. QED
  BY <1>1, <1>2, <1>3, <1>4, OutcomeCases

-----------------------------------------------------------------------------
(* The theorems.                                                            *)

LEMMA InitInvariant == Init => Books /\ Store /\ Honesty
<1> SUFFICES ASSUME Init PROVE Books /\ Store /\ Honesty
  OBVIOUS
<1>1. Books
  BY Limits DEF Init, Books, JobBooks, RunsInOrder
<1>2. Store
  BY DEF Init, Store, NoDanglingAsset, Progress
<1>3. Honesty
  BY DEF Init, Honesty, Honest
<1>4. QED
  BY <1>1, <1>2, <1>3

LEMMA Invariant == Spec => [](TypeOK /\ Books /\ Store /\ Honesty)
<1>1. Init => TypeOK /\ Books /\ Store /\ Honesty
  BY InitTypeOK, InitInvariant
<1>2. TypeOK /\ Books /\ Store /\ Honesty /\ [Next]_vars
        => (TypeOK /\ Books /\ Store /\ Honesty)'
  BY TypeStep, BooksStep, StoreStep, HonestyStep
<1>3. QED
  BY <1>1, <1>2, PTL DEF Spec

(* Every variable keeps its type, the number of runs of a scan included:    *)
(* the queue never starts more of them than attempts and stalls allow.      *)
THEOREM TypeCorrect == Spec => []TypeOK
BY Invariant, PTL

(* Every scan_assets row with a storage key has an object under it.         *)
THEOREM NoDanglingAssets == Spec => []NoDanglingAsset
<1>1. Store => NoDanglingAsset
  BY DEF Store
<1>2. QED
  BY <1>1, Invariant, PTL

(* A succeeded row is complete and carries no error, a failed row carries   *)
(* one, whatever the interleaving of runs, crashes and failing writes.      *)
THEOREM SettledRowsAreHonest == Spec => []SettledRowIsHonest
<1>1. Honesty => SettledRowIsHonest
  BY DEF Honesty, Honest, SettledRowIsHonest
<1>2. QED
  BY <1>1, Invariant, PTL

-----------------------------------------------------------------------------
(* Locks.  The same runs, until a live one loses its lock.                  *)

(* Whatever happens to locks, a scan_assets row is of a run that has        *)
(* crawled, and describes the page of that run.                             *)
RowsOfRuns ==
  \A a \in assetRows :
    /\ pc[a.scan][a.run] \notin Early
    /\ a.bytes # NoPage => a.bytes = page[a.scan][a.run]

(* OneRunPerScan, made inductive: the live run of a job is the one that     *)
(* holds its lock, and it is the last that was started.                     *)
Exclusive(s) ==
  /\ Driver = "inline" => job[s] = "none"
  /\ \A k \in Runs : Live(s, k) => /\ Driver = "redis" => holder[s] = k
                                   /\ k = started[s]

(* LastRunReadsBack, made inductive: nobody has written over what the last  *)
(* run stored.                                                              *)
Latest(s) ==
  /\ \A a \in assetRows :
       a.scan = s /\ a.run = started[s] /\ a.bytes # NoPage => blob[s][a.key] = a.bytes
  /\ \A k \in Runs : pc[s][k] = "asset" /\ ~Artefact(s, k).truncated =>
       blob[s][Artefact(s, k).key] = page[s][k]

Locked == \A s \in Scans : Exclusive(s) /\ Latest(s)

-----------------------------------------------------------------------------
(* Rows and their runs.                                                     *)

LEMMA RowTyped ==
  ASSUME TypeOK, NEW a \in assetRows
  PROVE  a.scan \in Scans /\ a.run \in Runs /\ a.key \in Keys
BY DEF TypeOK, AssetRow

LEMMA RowsCases ==
  ASSUME [Next]_vars
  PROVE  assetRows' = assetRows \/ \E s \in Scans, k \in Runs : InsertAsset(s, k)
BY NextCases
   DEF InsertScan, Enqueue, LinkJob, RequestFails, TakeJob, BackoffEnds, RecoverStalled,
       LoseLock, GiveBack, Cancel, Return, Throw, WorkerCrash, ApiCrash, WorkStep, ReadRow,
       MarkRunning, Crawl, PutBytes, InsertTechs, MarkSucceeded, StampWebsite, MarkFailed,
       StepFails

(* The row that InsertAsset adds, and where it leaves its run.              *)
LEMMA NewRow ==
  ASSUME TypeOK, NEW s \in Scans, NEW k \in Runs, InsertAsset(s, k),
         NEW a \in assetRows', a \notin assetRows
  PROVE  /\ a.scan = s /\ a.run = k /\ a.key = Artefact(s, k).key
         /\ a.bytes = IF Artefact(s, k).truncated THEN NoPage ELSE page[s][k]
         /\ pc[s][k] = "asset" /\ pc'[s][k] \in {"techs", "put"}
         /\ UNCHANGED <<page, blob, jobVars>>
<1>1. a = [scan |-> s, run |-> k, key |-> Artefact(s, k).key,
           bytes |-> IF Artefact(s, k).truncated THEN NoPage ELSE page[s][k]]
  BY DEF InsertAsset
<1>2. pc[s][k] = "asset" /\ UNCHANGED <<page, blob, jobVars>>
  BY DEF InsertAsset
<1>3. pc'[s][k] \in {"techs", "put"}
  BY DEF InsertAsset, Goto, TypeOK
<1>4. QED
  BY <1>1, <1>2, <1>3

LEMMA RowsStep ==
  ASSUME TypeOK, Books, RowsOfRuns, [Next]_vars PROVE RowsOfRuns'
<1> SUFFICES ASSUME NEW a \in assetRows'
             PROVE  /\ pc'[a.scan][a.run] \notin Early
                    /\ a.bytes # NoPage => a.bytes = page'[a.scan][a.run]
  BY DEF RowsOfRuns
<1>1. CASE a \in assetRows
  <2>1. a.scan \in Scans /\ a.run \in Runs /\ pc[a.scan][a.run] \notin Early
    BY <1>1, RowTyped DEF RowsOfRuns
  <2>2. pc'[a.scan][a.run] \notin Early /\ page'[a.scan][a.run] = page[a.scan][a.run]
    BY <2>1, PastCrawlStays
  <2>3. QED
    BY <1>1, <2>2 DEF RowsOfRuns
<1>2. CASE a \notin assetRows
  <2>1. PICK s \in Scans, k \in Runs : InsertAsset(s, k)
    BY <1>2, RowsCases
  <2>2. QED
    BY <1>2, <2>1, NewRow DEF Early
<1>3. QED
  BY <1>1, <1>2

-----------------------------------------------------------------------------
(* One run at a time.                                                       *)

LEMMA ExclusiveKept ==
  ASSUME NEW t \in Scans, Exclusive(t), Driver = "inline" => job'[t] = "none",
         started'[t] = started[t],
         \A k \in Runs : Live(t, k)' => Live(t, k) /\ holder'[t] = holder[t]
  PROVE  Exclusive(t)'
BY DEF Exclusive

(* A job that no run holds has no live run.                                 *)
LEMMA NobodyLive ==
  ASSUME TypeOK, Books, NEW t \in Scans, Exclusive(t), job[t] \notin {"none", "active"}
  PROVE  Driver = "redis" /\ \A k \in Runs : ~Live(t, k)
<1>1. Driver = "redis"
  BY DriverTyped DEF Exclusive
<1>2. holder[t] = 0
  BY DEF Books, JobBooks
<1>3. QED
  BY <1>1, <1>2, Limits DEF Exclusive

(* Where no run of a scan is left, the one that is started is alone.        *)
LEMMA StartedAlone ==
  ASSUME TypeOK, NEW t \in Scans, NEW n \in Runs, n = started[t] + 1,
         \A k \in Runs : ~Live(t, k), Goto(t, n, "read"),
         started' = [started EXCEPT ![t] = n],
         Driver = "inline" => job'[t] = "none",
         Driver = "redis" => holder'[t] = n
  PROVE  Exclusive(t)'
<1>1. started'[t] = n
  BY JobTypes DEF JobTyped
<1>2. \A k \in Runs : k # n => pc'[t][k] = pc[t][k]
  BY GotoTyped DEF PCs, FailingSteps
<1>3. \A k \in Runs : Live(t, k)' => k = n
  BY <1>2 DEF Live
<1>4. QED
  BY <1>1, <1>3 DEF Exclusive

LEMMA ExclusiveStep ==
  ASSUME TypeOK, Books, \A s \in Scans : Exclusive(s), [Next]_vars,
         ~ \E s \in Scans : LoseLock(s), NEW t \in Scans
  PROVE  Exclusive(t)'
<1>0. /\ Exclusive(t) /\ job \in [Scans -> JobStates] /\ holder \in [Scans -> Nat]
      /\ started \in [Scans -> Nat]
  BY JobTypes DEF JobTyped
<1>1. ASSUME NEW s \in Scans, InsertScan(s) \/ LinkJob(s) \/ RequestFails(s) \/ Cancel(s)
      PROVE  Exclusive(t)'
  <2>1. UNCHANGED <<jobVars, pc>>
    BY <1>1 DEF InsertScan, LinkJob, RequestFails, Cancel
  <2>2. QED
    BY <1>0, <2>1, ExclusiveKept DEF Exclusive, Live
<1>2. ASSUME NEW s \in Scans, Enqueue(s) PROVE Exclusive(t)'
  <2>1. started[s] = 0 /\ \A k \in Runs : ~Live(s, k)
    <3>1. started[s] = 0
      BY <1>2 DEF Enqueue, Books, JobBooks
    <3>2. \A k \in Runs : pc[s][k] = "unborn"
      BY <3>1, Limits DEF Books, RunsInOrder
    <3>3. QED
      BY <3>1, <3>2 DEF Live, Gone
  <2>2. CASE Driver = "inline"
    <3>1. /\ Goto(s, 1, "read") /\ started' = [started EXCEPT ![s] = 1]
          /\ UNCHANGED <<job, holder>>
      BY <1>2, <2>1, <2>2 DEF Enqueue, StartRun
    <3>2. CASE t = s
      <4>1. 1 \in Runs /\ 1 = started[s] + 1 /\ job'[s] = "none"
        BY <2>1, <2>2, <3>1, Limits DEF Exclusive
      <4>2. QED
        BY <2>1, <2>2, <3>1, <3>2, <4>1, StartedAlone
    <3>3. CASE t # s
      <4>1. pc'[t] = pc[t] /\ started'[t] = started[t] /\ job'[t] = job[t]
        BY <1>0, <3>1, <3>3 DEF Goto, TypeOK
      <4>2. QED
        BY <1>0, <3>1, <4>1, ExclusiveKept DEF Exclusive, Live
    <3>4. QED
      BY <3>2, <3>3
  <2>3. CASE Driver # "inline"
    <3>1. UNCHANGED <<holder, started, pc>>
      BY <1>2, <2>3 DEF Enqueue
    <3>2. QED
      BY <1>0, <2>3, <3>1, ExclusiveKept DEF Exclusive, Live
  <2>4. QED
    BY <2>2, <2>3
<1>3. ASSUME NEW s \in Scans, TakeJob(s) PROVE Exclusive(t)'
  <2>1. /\ Goto(s, started[s] + 1, "read")
        /\ started' = [started EXCEPT ![s] = started[s] + 1]
        /\ holder' = [holder EXCEPT ![s] = started[s] + 1]
        /\ job' = [job EXCEPT ![s] = "active"] /\ job[s] = "waiting"
    BY <1>3 DEF TakeJob, StartRun
  <2>2. started[s] + 1 \in Runs
    BY <2>1, RunLeft DEF Books
  <2>3. Driver = "redis" /\ \A k \in Runs : ~Live(s, k)
    BY <2>1, NobodyLive
  <2>4. CASE t = s
    <3>1. holder'[s] = started[s] + 1
      BY <1>0, <2>1
    <3>2. QED
      BY <2>1, <2>2, <2>3, <2>4, <3>1, StartedAlone
  <2>5. CASE t # s
    <3>1. pc'[t] = pc[t] /\ started'[t] = started[t] /\ holder'[t] = holder[t]
      BY <1>0, <2>1, <2>5 DEF Goto, TypeOK
    <3>2. QED
      BY <1>0, <2>3, <3>1, ExclusiveKept DEF Live
  <2>6. QED
    BY <2>4, <2>5
<1>4. ASSUME NEW s \in Scans, BackoffEnds(s) PROVE Exclusive(t)'
  <2>1. Driver = "redis"
    BY <1>4, NobodyLive DEF BackoffEnds
  <2>2. UNCHANGED <<holder, started, pc>>
    BY <1>4 DEF BackoffEnds
  <2>3. QED
    BY <1>0, <2>1, <2>2, ExclusiveKept DEF Live
<1>5. ASSUME NEW s \in Scans, RecoverStalled(s) PROVE Exclusive(t)'
  <2>1. /\ job[s] = "active" /\ pc[s][holder[s]] = "dead" /\ UNCHANGED <<started, pc>>
        /\ holder' = [holder EXCEPT ![s] = 0]
    BY <1>5 DEF RecoverStalled, GiveBack
  <2>2. Driver = "redis"
    BY <2>1, DriverTyped DEF Exclusive
  <2>3. \A k \in Runs : ~Live(s, k)
    BY <2>1, <2>2 DEF Exclusive, Live, Gone
  <2>4. t # s => holder'[t] = holder[t]
    BY <1>0, <2>1
  <2>5. \A k \in Runs : Live(t, k)' => Live(t, k)
    BY <2>1 DEF Live
  <2>6. QED
    BY <1>0, <2>1, <2>2, <2>3, <2>4, <2>5, ExclusiveKept
<1>6. ASSUME NEW s \in Scans, NEW k \in Runs, WorkStep(s, k) PROVE Exclusive(t)'
  <2>1. /\ UNCHANGED jobVars /\ pc[s][k] \in FailingSteps
        /\ \E l \in PCs \ {"unborn"} : Goto(s, k, l)
    BY <1>6, WorkStepFrame
  <2>2. \A j \in Runs : <<t, j>> # <<s, k>> => pc'[t][j] = pc[t][j]
    BY <2>1, GotoTyped
  <2>3. Live(s, k)
    BY <2>1 DEF Live, Gone, FailingSteps
  <2>4. \A j \in Runs : Live(t, j)' => Live(t, j)
    BY <2>2, <2>3 DEF Live
  <2>5. QED
    BY <1>0, <2>1, <2>4, ExclusiveKept DEF Exclusive
<1>7. ASSUME NEW s \in Scans, NEW k \in Runs, Return(s, k) \/ Throw(s, k) PROVE Exclusive(t)'
  <2>1. /\ Goto(s, k, "done") /\ UNCHANGED started /\ Live(s, k)
        /\ \/ holder[s] = k /\ holder' = [holder EXCEPT ![s] = 0]
              /\ \E j : job' = [job EXCEPT ![s] = j]
           \/ UNCHANGED <<job, holder>>
    BY <1>7 DEF Return, Throw, Live, Gone
  <2>2. \A j \in Runs : <<t, j>> # <<s, k>> => pc'[t][j] = pc[t][j]
    BY <2>1, GotoTyped DEF PCs, Gone
  <2>3. ~Live(s, k)'
    <3>1. pc'[s][k] = "done"
      BY <2>1, GotoTyped DEF PCs, Gone
    <3>2. QED
      BY <3>1 DEF Live, Gone
  <2>4. \A j \in Runs : Live(t, j)' => Live(t, j) /\ <<t, j>> # <<s, k>>
    BY <2>2, <2>3 DEF Live
  <2>5. CASE UNCHANGED <<job, holder>>
    BY <1>0, <2>1, <2>4, <2>5, ExclusiveKept DEF Exclusive
  <2>6. CASE t # s
    <3>1. holder'[t] = holder[t] /\ job'[t] = job[t]
      BY <1>0, <2>1, <2>6
    <3>2. QED
      BY <1>0, <2>1, <2>4, <3>1, ExclusiveKept DEF Exclusive
  <2>7. CASE t = s /\ holder[s] = k
    <3>1. job[s] = "active"
      BY <2>7, Limits DEF Books, JobBooks
    <3>2. Driver = "redis"
      BY <3>1, DriverTyped DEF Exclusive
    <3>3. \A j \in Runs : ~Live(t, j)'
      BY <2>4, <2>7, <3>2 DEF Exclusive
    <3>4. QED
      BY <1>0, <2>1, <3>2, <3>3, ExclusiveKept
  <2>8. QED
    BY <2>1, <2>5, <2>6, <2>7
<1>8. CASE WorkerCrash \/ ApiCrash
  <2>1. UNCHANGED jobVars /\ (KillRuns \/ UNCHANGED pc)
    BY <1>8 DEF WorkerCrash, ApiCrash
  <2>2. \A k \in Runs : pc'[t][k] = pc[t][k] \/ pc'[t][k] = "dead"
    BY <2>1 DEF KillRuns
  <2>3. \A k \in Runs : Live(t, k)' => Live(t, k)
    BY <2>2 DEF Live, Gone
  <2>4. QED
    BY <1>0, <2>1, <2>3, ExclusiveKept DEF Exclusive
<1>9. CASE UNCHANGED vars
  BY <1>0, <1>9, ExclusiveKept DEF Exclusive, Live
<1>10. QED
  BY <1>1, <1>2, <1>3, <1>4, <1>5, <1>6, <1>7, <1>8, <1>9, NextCases

-----------------------------------------------------------------------------
(* What the last run stored.                                                *)

LEMMA LatestKept ==
  ASSUME NEW t \in Scans, Latest(t), UNCHANGED <<assetRows, blob>>, started'[t] = started[t],
         \A k \in Runs : pc'[t][k] = "asset" =>
           pc[t][k] = "asset" /\ page'[t][k] = page[t][k] /\ idx'[t][k] = idx[t][k]
  PROVE  Latest(t)'
<1>1. \A a \in assetRows' :
        a.scan = t /\ a.run = started'[t] /\ a.bytes # NoPage => blob'[t][a.key] = a.bytes
  BY DEF Latest
<1>2. \A k \in Runs : pc'[t][k] = "asset" => Artefact(t, k)' = Artefact(t, k)
  BY DEF Artefact
<1>3. \A k \in Runs : pc'[t][k] = "asset" /\ ~Artefact(t, k)'.truncated =>
        blob'[t][Artefact(t, k)'.key] = page'[t][k]
  BY <1>2 DEF Latest
<1>4. QED
  BY <1>1, <1>3 DEF Latest

(* A run that starts has recorded nothing yet.                              *)
LEMMA LatestAtStart ==
  ASSUME TypeOK, Books, RowsOfRuns, NEW s \in Scans, NEW n \in Runs, n = started[s] + 1,
         Goto(s, n, "read"), started' = [started EXCEPT ![s] = n],
         UNCHANGED <<assetRows, blob, page, idx>>, NEW t \in Scans, Latest(t)
  PROVE  Latest(t)'
<1>1. \A u \in Scans, k \in Runs : pc'[u][k] = IF <<u, k>> = <<s, n>> THEN "read" ELSE pc[u][k]
  BY GotoTyped DEF PCs, FailingSteps
<1>2. CASE t = s
  <2>1. started'[t] = n /\ n > started[s]
    BY <1>2, JobTypes DEF JobTyped
  <2>2. pc[s][n] = "unborn"
    BY <2>1 DEF Books, RunsInOrder
  <2>3. \A a \in assetRows : ~(a.scan = t /\ a.run = n)
    BY <1>2, <2>2 DEF RowsOfRuns, Early
  <2>4. \A k \in Runs : pc'[t][k] = "asset" => pc[t][k] = "asset" /\ Artefact(t, k)' = Artefact(t, k)
    BY <1>1 DEF Artefact
  <2>5. QED
    BY <2>1, <2>3, <2>4 DEF Latest
<1>3. CASE t # s
  <2>1. started'[t] = started[t]
    BY <1>3, JobTypes DEF JobTyped
  <2>2. QED
    BY <1>1, <2>1, LatestKept
<1>4. QED
  BY <1>2, <1>3

LEMMA PutKeepsLatest ==
  ASSUME TypeOK, Store, RowsOfRuns, NEW s \in Scans, NEW k \in Runs, Exclusive(s),
         PutBytes(s, k), NEW t \in Scans, Latest(t)
  PROVE  Latest(t)'
<1>1. /\ pc[s][k] = "put" /\ Goto(s, k, "asset") /\ UNCHANGED <<page, idx, assetRows, started>>
      /\ blob' = IF Artefact(s, k).truncated THEN blob
                  ELSE [blob EXCEPT ![s][Artefact(s, k).key] = page[s][k]]
  BY DEF PutBytes
<1>2. \A u \in Scans, j \in Runs : pc'[u][j] = IF <<u, j>> = <<s, k>> THEN "asset" ELSE pc[u][j]
  BY <1>1, GotoTyped DEF PCs, FailingSteps
<1>3. \A j : Artefact(t, j)' = Artefact(t, j)
  BY <1>1 DEF Artefact
<1>4. blob \in [Scans -> [Keys -> Pages \cup {NoPage}]] /\ Artefact(s, k).key \in Keys
  BY <1>1, ArtefactKey DEF TypeOK, Store
<1>5. CASE t # s
  <2>1. blob'[t] = blob[t]
    BY <1>1, <1>4, <1>5
  <2>2. \A j \in Runs : pc'[t][j] = pc[t][j]
    BY <1>2, <1>5
  <2>3. QED
    BY <1>1, <1>3, <2>1, <2>2 DEF Latest
<1>6. CASE t = s
  <2>1. k = started[s] /\ \A j \in Runs : Live(s, j) => j = k
    BY <1>1 DEF Exclusive, Live, Gone
  <2>2. \A j \in Runs : pc'[s][j] = "asset" => j = k
    BY <1>2, <2>1 DEF Live, Gone
  <2>3. ~Artefact(s, k).truncated => blob'[s][Artefact(s, k).key] = page[s][k]
    BY <1>1, <1>4
  <2>4. ASSUME NEW a \in assetRows, a.scan = s, a.run = k, a.bytes # NoPage
        PROVE  blob'[s][a.key] = a.bytes
    <3>1. a.bytes = page[s][k] /\ blob[s][a.key] = a.bytes /\ a.key \in Keys
      BY <1>6, <2>1, <2>4, RowTyped DEF RowsOfRuns, Latest
    <3>2. QED
      BY <1>1, <1>4, <3>1
  <2>5. QED
    BY <1>1, <1>3, <1>6, <2>1, <2>2, <2>3, <2>4 DEF Latest
<1>7. QED
  BY <1>5, <1>6

LEMMA InsertKeepsLatest ==
  ASSUME TypeOK, NEW s \in Scans, NEW k \in Runs, InsertAsset(s, k), Latest(s),
         NEW t \in Scans, Latest(t)
  PROVE  Latest(t)'
<1>1. /\ pc[s][k] = "asset" /\ UNCHANGED <<page, blob, started>>
      /\ idx' = [idx EXCEPT ![s][k] = idx[s][k] + 1]
      /\ \E l \in {"techs", "put"} : Goto(s, k, l)
  BY DEF InsertAsset
<1>2. pc'[s][k] # "asset"
      /\ \A u \in Scans, j \in Runs : <<u, j>> # <<s, k>> => pc'[u][j] = pc[u][j]
  BY <1>1, GotoTyped DEF PCs, FailingSteps
<1>3. \A j \in Runs : <<t, j>> # <<s, k>> => idx'[t][j] = idx[t][j]
  <2>1. idx \in [Scans -> [Runs -> Nat]]
    BY DEF TypeOK
  <2>2. QED
    BY <1>1, <2>1, CellFrame
<1>4. \A j \in Runs : pc'[t][j] = "asset" => pc[t][j] = "asset" /\ Artefact(t, j)' = Artefact(t, j)
  BY <1>1, <1>2, <1>3 DEF Artefact
<1>5. ASSUME NEW a \in assetRows', a.scan = t, a.run = started[t], a.bytes # NoPage
      PROVE  blob[t][a.key] = a.bytes
  <2>1. CASE a \in assetRows
    BY <1>5, <2>1 DEF Latest
  <2>2. CASE a \notin assetRows
    <3>1. /\ a.scan = s /\ a.run = k /\ a.key = Artefact(s, k).key
          /\ a.bytes = IF Artefact(s, k).truncated THEN NoPage ELSE page[s][k]
      BY <2>2, NewRow
    <3>2. QED
      BY <1>1, <1>5, <3>1 DEF Latest
  <2>3. QED
    BY <2>1, <2>2
<1>6. QED
  BY <1>1, <1>4, <1>5 DEF Latest

LEMMA LatestStep ==
  ASSUME TypeOK, Books, Store, RowsOfRuns, Locked, [Next]_vars, NEW t \in Scans
  PROVE  Latest(t)'
<1>0. Latest(t) /\ started \in [Scans -> Nat] /\ pc \in [Scans -> [Runs -> PCs]]
  BY JobTypes DEF Locked, JobTyped, TypeOK
<1>1. ASSUME NEW s \in Scans, NEW k \in Runs, WorkStep(s, k) PROVE Latest(t)'
  <2>1. CASE PutBytes(s, k)
    BY <1>0, <2>1, PutKeepsLatest DEF Locked
  <2>2. CASE InsertAsset(s, k)
    BY <1>0, <2>2, InsertKeepsLatest DEF Locked
  <2>3. CASE Crawl(s, k)
    <3>1. /\ Goto(s, k, "put") /\ UNCHANGED <<assetRows, blob, started>>
          /\ \E p : page' = [page EXCEPT ![s][k] = p] /\ idx' = [idx EXCEPT ![s][k] = 1]
      BY <2>3 DEF Crawl
    <3>2. \A j \in Runs : /\ <<t, j>> # <<s, k>> => pc'[t][j] = pc[t][j]
                          /\ <<t, j>> = <<s, k>> => pc'[t][j] = "put"
      BY <3>1, GotoTyped DEF PCs, FailingSteps
    <3>3. \A j \in Runs : <<t, j>> # <<s, k>> => page'[t][j] = page[t][j] /\ idx'[t][j] = idx[t][j]
      <4>1. page \in [Scans -> [Runs -> Pages \cup {NoPage}]] /\ idx \in [Scans -> [Runs -> Nat]]
        BY DEF TypeOK
      <4>2. QED
        BY <3>1, <4>1, CellFrame
    <3>4. QED
      BY <1>0, <3>1, <3>2, <3>3, LatestKept
  <2>4. CASE \/ ReadRow(s, k) \/ MarkRunning(s, k) \/ InsertTechs(s, k) \/ MarkSucceeded(s, k)
             \/ StampWebsite(s, k) \/ MarkFailed(s, k) \/ StepFails(s, k)
    <3>1. /\ UNCHANGED <<assetRows, blob, started, page, idx>>
          /\ \E l \in PCs \ {"asset"} : Goto(s, k, l)
      BY <2>4 DEF ReadRow, MarkRunning, InsertTechs, MarkSucceeded, StampWebsite, MarkFailed,
                  StepFails, Handler, PCs, Gone, FailingSteps
    <3>2. \A j \in Runs : pc'[t][j] = "asset" => pc[t][j] = "asset"
      BY <3>1, GotoTyped
    <3>3. QED
      BY <1>0, <3>1, <3>2, LatestKept
  <2>5. QED
    BY <1>1, <2>1, <2>2, <2>3, <2>4 DEF WorkStep
<1>2. ASSUME NEW s \in Scans, Enqueue(s) \/ TakeJob(s) PROVE Latest(t)'
  <2>1. UNCHANGED <<assetRows, blob, page, idx>>
    BY <1>2 DEF Enqueue, TakeJob, StartRun
  <2>2. CASE UNCHANGED <<started, pc>>
    BY <1>0, <2>1, <2>2, LatestKept
  <2>3. CASE StartRun(s)
    <3>1. started[s] + 1 \in Runs
      <4>1. CASE TakeJob(s)
        BY <4>1, RunLeft DEF Books, TakeJob
      <4>2. CASE Enqueue(s)
        BY <4>2, Limits DEF Books, JobBooks, Enqueue
      <4>3. QED
        BY <1>2, <4>1, <4>2
    <3>2. Goto(s, started[s] + 1, "read") /\ started' = [started EXCEPT ![s] = started[s] + 1]
      BY <2>3 DEF StartRun
    <3>3. QED
      BY <1>0, <2>1, <3>1, <3>2, LatestAtStart
  <2>4. QED
    BY <1>2, <2>2, <2>3 DEF Enqueue, TakeJob
<1>3. ASSUME NEW s \in Scans, NEW k \in Runs, Return(s, k) \/ Throw(s, k) PROVE Latest(t)'
  <2>1. Goto(s, k, "done") /\ UNCHANGED <<assetRows, blob, page, idx, started>>
    BY <1>3 DEF Return, Throw
  <2>2. \A j \in Runs : pc'[t][j] = pc[t][j] \/ pc'[t][j] = "done"
    BY <1>0, <2>1 DEF Goto
  <2>3. QED
    BY <1>0, <2>1, <2>2, LatestKept
<1>4. CASE WorkerCrash \/ ApiCrash
  <2>1. UNCHANGED <<assetRows, blob, page, idx, started>> /\ (KillRuns \/ UNCHANGED pc)
    BY <1>4 DEF WorkerCrash, ApiCrash
  <2>2. \A k \in Runs : pc'[t][k] = pc[t][k] \/ pc'[t][k] = "dead"
    BY <2>1 DEF KillRuns
  <2>3. QED
    BY <1>0, <2>1, <2>2, LatestKept
<1>5. CASE UNCHANGED <<assetRows, blob, page, idx, started, pc>>
  BY <1>0, <1>5, LatestKept
<1>6. QED
  BY <1>1, <1>2, <1>3, <1>4, <1>5, NextCases
     DEF InsertScan, LinkJob, RequestFails, BackoffEnds, RecoverStalled, LoseLock, GiveBack,
         Cancel

-----------------------------------------------------------------------------
(* The theorems about locks.                                                *)

LInv == TypeOK /\ Books /\ Store /\ RowsOfRuns /\ (lockLost \/ Locked)

LEMMA LocksInit == NotedInit => LInv
<1> SUFFICES ASSUME NotedInit PROVE LInv
  OBVIOUS
<1>1. TypeOK /\ Books /\ Store
  BY InitTypeOK, InitInvariant DEF NotedInit
<1>2. RowsOfRuns
  BY DEF NotedInit, Init, RowsOfRuns
<1>3. Locked
  BY DEF NotedInit, Init, Locked, Exclusive, Latest, Live, Gone
<1>4. QED
  BY <1>1, <1>2, <1>3 DEF LInv

LEMMA LocksStep == LInv /\ [NotedNext]_<<vars, lockLost, silent>> => LInv'
<1> SUFFICES ASSUME LInv, [NotedNext]_<<vars, lockLost, silent>> PROVE LInv'
  OBVIOUS
<1>1. [Next]_vars
  BY DEF NotedNext
<1>2. TypeOK' /\ Books' /\ Store' /\ RowsOfRuns'
  BY <1>1, TypeStep, BooksStep, StoreStep, RowsStep DEF LInv
<1>3. ~lockLost' => ~lockLost /\ ~ \E s \in Scans : LoseLock(s)
  <2>1. CASE NotedNext
    BY <2>1 DEF NotedNext
  <2>2. CASE UNCHANGED <<vars, lockLost, silent>>
    <3>1. \A s \in Scans : ~LoseLock(s)
      BY <2>2 DEF LInv, LoseLock, GiveBack, TypeOK
    <3>2. QED
      BY <2>2, <3>1
  <2>3. QED
    BY <2>1, <2>2
<1>4. ~lockLost' => Locked'
  BY <1>1, <1>3, ExclusiveStep, LatestStep DEF LInv, Locked
<1>5. QED
  BY <1>2, <1>4 DEF LInv

LEMMA LocksInvariant == NotedSpec => []LInv
BY LocksInit, LocksStep, PTL DEF NotedSpec

(* As long as no live run loses the lock of its job, a scan is crawled by   *)
(* one run at a time, through crashes, stalled jobs and retries.            *)
THEOREM OneRunHoldsTheLock == NotedSpec => []OneRunWhileLocked
<1>1. LInv => OneRunWhileLocked
  BY DEF LInv, Locked, Exclusive, OneRunWhileLocked, OneRunPerScan
<1>2. QED
  BY <1>1, LocksInvariant, PTL

(* And what the run that succeeds has recorded can be read back, whatever   *)
(* earlier attempts left under the same keys.                               *)
THEOREM LockedRunsReadBack == NotedSpec => []ReadsBackWhileLocked
<1>1. LInv => ReadsBackWhileLocked
  BY DEF LInv, Locked, Latest, ReadsBackWhileLocked, LastRunReadsBack
<1>2. QED
  BY <1>1, LocksInvariant, PTL

-----------------------------------------------------------------------------
(* What the row says.                                                       *)

(* A row that no attempt has marked as running has no run past that step.   *)
Resting == {"unborn", "read", "mark", "thrown", "returned", "done", "dead"}
Untouched(s) ==
  /\ request[s] = "new" => status[s] = "absent"
  /\ status[s] \in {"absent", "queued", "cancelled"} => \A k \in Runs : pc[s][k] \in Resting

(* The labels of a run that works on its row, and of one that is failing.   *)
Crawling == {"crawl", "put", "asset", "techs", "succeed"}
Failing == {"fail", "fallback"}

(* JobAndRowAgree, made inductive: what a run that is about to end leaves.  *)
Stamped(s) == (status[s] = "succeeded" /\ stamped[s]) \/ status[s] = "cancelled"
Agreed(s) ==
  /\ \A k \in Runs :
       /\ pc[s][k] = "thrown" => status[s] = "failed"
       /\ pc[s][k] = "stamp" => status[s] = "succeeded"
       /\ pc[s][k] = "returned" => Stamped(s)
  /\ job[s] = "delayed" => status[s] = "failed"
  /\ job[s] = "failed" => status[s] = "failed" \/ StalledOut(s)
  /\ job[s] = "completed" => Stamped(s)

(* A step of a run moves it from one label to one label, and does one of    *)
(* nine things to the row.                                                  *)
LEMMA WorkCases ==
  ASSUME TypeOK, NEW s \in Scans, NEW k \in Runs, WorkStep(s, k)
  PROVE  \E l \in PCs \ {"unborn"} :
    /\ Goto(s, k, l)
    /\ \/ /\ pc[s][k] = "read" /\ status' = status
          /\ \/ l = "mark" /\ status[s] # "cancelled"
             \/ l = "returned" /\ status[s] = "cancelled"
             \/ l = "thrown" /\ StepFails(s, k)
       \/ /\ pc[s][k] = "mark" /\ l = "crawl" /\ status' = [status EXCEPT ![s] = "running"]
       \/ /\ pc[s][k] = "mark" /\ l = "thrown" /\ status' = status /\ StepFails(s, k)
       \/ /\ pc[s][k] \in Crawling /\ status' = status
          /\ l \in Crawling \cup {"fail"}
       \/ /\ pc[s][k] = "succeed" /\ l = "stamp" /\ status' = [status EXCEPT ![s] = "succeeded"]
       \/ /\ pc[s][k] = "fail" /\ l = "fallback" /\ status' = status
       \/ /\ pc[s][k] = "fallback" /\ l = "thrown" /\ status' = status /\ StepFails(s, k)
       \/ /\ pc[s][k] \in Failing /\ l = "thrown"
          /\ status' = [status EXCEPT ![s] = "failed"]
       \/ /\ pc[s][k] = "stamp" /\ l = "returned" /\ status' = status
          /\ stamped' = [stamped EXCEPT ![s] = TRUE]
       \/ /\ pc[s][k] = "stamp" /\ l = "fail" /\ status' = status
<1>1. CASE ReadRow(s, k) \/ MarkRunning(s, k) \/ MarkSucceeded(s, k) \/ StampWebsite(s, k)
  BY <1>1 DEF ReadRow, MarkRunning, MarkSucceeded, StampWebsite, PCs, FailingSteps
<1>2. CASE Crawl(s, k) \/ PutBytes(s, k) \/ InsertAsset(s, k) \/ InsertTechs(s, k)
  BY <1>2 DEF Crawl, PutBytes, InsertAsset, InsertTechs, PCs, FailingSteps, Crawling
<1>3. CASE MarkFailed(s, k)
  BY <1>3 DEF MarkFailed, PCs, Failing
<1>4. CASE StepFails(s, k)
  <2>1. /\ pc[s][k] \in FailingSteps /\ Goto(s, k, Handler(pc[s][k])) /\ status' = status
    BY <1>4 DEF StepFails
  <2>2. \/ pc[s][k] \in {"read", "mark", "fallback"} /\ Handler(pc[s][k]) = "thrown"
        \/ pc[s][k] = "fail" /\ Handler(pc[s][k]) = "fallback"
        \/ pc[s][k] \in Crawling \cup {"stamp"} /\ Handler(pc[s][k]) = "fail"
    BY <2>1 DEF Handler, FailingSteps, Crawling
  <2>3. {"thrown", "fallback", "fail"} \subseteq PCs \ {"unborn"}
    BY DEF PCs, FailingSteps
  <2>4. QED
    BY <1>4, <2>1, <2>2, <2>3
<1>5. QED
  BY <1>1, <1>2, <1>3, <1>4 DEF WorkStep

LEMMA StampsStay ==
  ASSUME TypeOK, [Next]_vars, NEW t \in Scans, stamped[t] PROVE stamped'[t]
<1>1. stamped' = stamped \/ \E s \in Scans : stamped' = [stamped EXCEPT ![s] = TRUE]
  BY NextCases
     DEF InsertScan, Enqueue, LinkJob, RequestFails, TakeJob, BackoffEnds, RecoverStalled,
         LoseLock, GiveBack, Cancel, Return, Throw, WorkerCrash, ApiCrash, WorkStep, ReadRow,
         MarkRunning, Crawl, PutBytes, InsertAsset, InsertTechs, MarkSucceeded, StampWebsite,
         MarkFailed, StepFails
<1>2. QED
  BY <1>1 DEF TypeOK

(* Runs that are killed are dead; all others are where they were.           *)
LEMMA CrashFacts ==
  ASSUME WorkerCrash \/ ApiCrash
  PROVE  /\ UNCHANGED <<rowVars, jobVars, storeVars>>
         /\ \A s \in Scans, k \in Runs :
              \/ pc'[s][k] = pc[s][k]
              \/ /\ pc'[s][k] = "dead" /\ Live(s, k)
                 /\ Driver = "inline" \/ "workerCrash" \in Mishaps
         /\ \A s \in Scans : request'[s] = request[s] \/ request'[s] = "error"
<1>1. UNCHANGED <<rowVars, jobVars, storeVars>>
  BY DEF WorkerCrash, ApiCrash
<1>2. (KillRuns /\ (Driver = "inline" \/ "workerCrash" \in Mishaps)) \/ UNCHANGED pc
  BY DEF WorkerCrash, ApiCrash
<1>3. \A s \in Scans : request'[s] = request[s] \/ request'[s] = "error"
  BY DEF WorkerCrash, ApiCrash
<1>4. \A s \in Scans, k \in Runs :
        \/ pc'[s][k] = pc[s][k]
        \/ /\ pc'[s][k] = "dead" /\ Live(s, k)
           /\ Driver = "inline" \/ "workerCrash" \in Mishaps
  <2>1. CASE UNCHANGED pc
    BY <2>1
  <2>2. CASE KillRuns /\ (Driver = "inline" \/ "workerCrash" \in Mishaps)
    <3>1. \A s \in Scans, k \in Runs : pc'[s][k] = IF Live(s, k) THEN "dead" ELSE pc[s][k]
      BY <2>2 DEF KillRuns
    <3>2. QED
      BY <2>2, <3>1
  <2>3. QED
    BY <1>2, <2>1, <2>2
<1>5. QED
  BY <1>1, <1>3, <1>4

(* A step that sends a run somewhere leaves every run there or in place.    *)
LEMMA GotoCells ==
  ASSUME TypeOK, NEW s, NEW n, NEW l, Goto(s, n, l), NEW t \in Scans, NEW j \in Runs
  PROVE  pc'[t][j] = pc[t][j] \/ pc'[t][j] = l
BY DEF TypeOK, Goto

LEMMA UntouchedKept ==
  ASSUME NEW t \in Scans, Untouched(t), request'[t] \in {request[t], "enqueue", "link", "accepted", "error"},
         status'[t] = status[t],
         \A k \in Runs : pc'[t][k] = pc[t][k] \/ pc'[t][k] \in Resting
  PROVE  Untouched(t)'
BY DEF Untouched

LEMMA UntouchedStep ==
  ASSUME TypeOK, Books, NEW t \in Scans, \A s \in Scans : Untouched(s), [Next]_vars
  PROVE  Untouched(t)'
<1>0. /\ Untouched(t) /\ pc \in [Scans -> [Runs -> PCs]] /\ status \in [Scans -> Statuses]
      /\ request \in [Scans -> RequestStates]
  BY DEF TypeOK
<1>1. ASSUME NEW s \in Scans, InsertScan(s) PROVE Untouched(t)'
  <2>1. \A k \in Runs : pc[s][k] = "unborn"
    BY <1>1, Limits DEF InsertScan, Books, JobBooks, RunsInOrder
  <2>2. CASE t = s
    BY <1>0, <1>1, <2>1, <2>2 DEF InsertScan, Untouched, Resting
  <2>3. CASE t # s
    BY <1>0, <1>1, <2>3, UntouchedKept DEF InsertScan
  <2>4. QED
    BY <2>2, <2>3
<1>2. ASSUME NEW s \in Scans, Enqueue(s) \/ TakeJob(s) PROVE Untouched(t)'
  <2>1. UNCHANGED status /\ (request' = request \/ request' = [request EXCEPT ![s] = "link"])
        /\ (pc' = pc \/ \E n : Goto(s, n, "read"))
    BY <1>2 DEF Enqueue, TakeJob, StartRun
  <2>2. \A k \in Runs : pc'[t][k] = pc[t][k] \/ pc'[t][k] = "read"
    BY <2>1, GotoCells
  <2>3. request'[t] = request[t] \/ request'[t] = "link"
    BY <1>0, <2>1
  <2>4. QED
    BY <1>0, <2>1, <2>2, <2>3, UntouchedKept DEF Resting
<1>3. ASSUME NEW s \in Scans, LinkJob(s) \/ RequestFails(s) PROVE Untouched(t)'
  <2>1. UNCHANGED <<status, pc>> /\ \E x \in {"accepted", "error"} : request' = [request EXCEPT ![s] = x]
    BY <1>3 DEF LinkJob, RequestFails
  <2>2. request'[t] \in {request[t], "accepted", "error"}
    BY <1>0, <2>1
  <2>3. QED
    BY <1>0, <2>1, <2>2, UntouchedKept
<1>4. ASSUME NEW s \in Scans, Cancel(s) PROVE Untouched(t)'
  <2>1. /\ status[s] = "queued" /\ status' = [status EXCEPT ![s] = "cancelled"]
        /\ UNCHANGED <<request, pc>>
    BY <1>4 DEF Cancel
  <2>2. CASE t = s
    BY <1>0, <2>1, <2>2 DEF Untouched
  <2>3. CASE t # s
    BY <1>0, <2>1, <2>3, UntouchedKept
  <2>4. QED
    BY <2>2, <2>3
<1>5. ASSUME NEW s \in Scans, NEW k \in Runs, WorkStep(s, k) PROVE Untouched(t)'
  <2>1. UNCHANGED request
    BY <1>5, WorkStepFrame
  <2>2. PICK l \in PCs \ {"unborn"} :
          /\ Goto(s, k, l)
          /\ \/ pc[s][k] \in {"read", "mark"} /\ status' = status /\ l \in Resting
             \/ pc[s][k] \notin {"read", "mark"} /\ pc[s][k] \in FailingSteps /\ status' = status
             \/ \E x \in {"running", "succeeded", "failed"} : status' = [status EXCEPT ![s] = x]
    BY <1>5, WorkCases DEF Resting, FailingSteps, Crawling, Failing
  <2>3. \A u \in Scans, j \in Runs : pc'[u][j] = IF <<u, j>> = <<s, k>> THEN l ELSE pc[u][j]
    BY <2>2, GotoTyped
  <2>4. CASE t # s
    <3>1. \A j \in Runs : pc'[t][j] = pc[t][j]
      BY <2>3, <2>4
    <3>2. status'[t] = status[t]
      BY <1>0, <2>2, <2>4
    <3>3. QED
      BY <1>0, <2>1, <3>1, <3>2, UntouchedKept
  <2>5. CASE t = s /\ status' = status /\ l \in Resting
    BY <1>0, <2>1, <2>3, <2>5, UntouchedKept
  <2>6. CASE t = s /\ pc[s][k] \notin {"read", "mark"} /\ pc[s][k] \in FailingSteps /\ status' = status
    <3>1. pc[t][k] \notin Resting
      BY <2>6 DEF FailingSteps, Resting
    <3>2. status[t] \notin {"absent", "queued", "cancelled"} /\ request[t] # "new"
      BY <1>0, <3>1 DEF Untouched
    <3>3. QED
      BY <2>1, <2>6, <3>2 DEF Untouched
  <2>7. CASE t = s /\ \E x \in {"running", "succeeded", "failed"} : status' = [status EXCEPT ![s] = x]
    <3>1. status'[t] \in {"running", "succeeded", "failed"}
      BY <1>0, <2>7
    <3>2. request[t] # "new"
      <4>1. pc[t][k] # "unborn"
        BY <1>5, <2>7, WorkStepFrame DEF FailingSteps
      <4>2. k > started[t] => FALSE
        BY <4>1 DEF Books, RunsInOrder
      <4>3. request[t] = "new" => started[t] = 0
        BY DEF Books, JobBooks
      <4>4. QED
        BY <4>2, <4>3, Limits
    <3>3. QED
      BY <2>1, <3>1, <3>2 DEF Untouched
  <2>8. QED
    BY <2>2, <2>4, <2>5, <2>6, <2>7
<1>6. ASSUME NEW s \in Scans, NEW k \in Runs, Return(s, k) \/ Throw(s, k) PROVE Untouched(t)'
  <2>1. UNCHANGED <<status, request>> /\ Goto(s, k, "done")
    BY <1>6 DEF Return, Throw
  <2>2. \A j \in Runs : pc'[t][j] = pc[t][j] \/ pc'[t][j] = "done"
    BY <2>1, GotoCells
  <2>3. QED
    BY <1>0, <2>1, <2>2, UntouchedKept DEF Resting
<1>7. CASE WorkerCrash \/ ApiCrash
  BY <1>0, <1>7, CrashFacts, UntouchedKept DEF Resting
<1>8. CASE UNCHANGED <<status, request, pc>>
  BY <1>0, <1>8, UntouchedKept
<1>9. QED
  BY <1>1, <1>2, <1>3, <1>4, <1>5, <1>6, <1>7, <1>8, NextCases
     DEF BackoffEnds, RecoverStalled, LoseLock, GiveBack

(* A cancellation that no run has read past is kept: the runs to come read  *)
(* it and return.                                                           *)
LEMMA CancelStep ==
  ASSUME TypeOK, NEW t \in Scans, \A s \in Scans : Untouched(s), [Next]_vars, CancelSeen(t)
  PROVE  CancelSeen(t)'
<1>0. /\ status[t] = "cancelled" /\ \A k \in Runs : pc[t][k] # "mark" /\ pc[t][k] \in Resting
      /\ pc \in [Scans -> [Runs -> PCs]] /\ status \in [Scans -> Statuses]
  BY DEF TypeOK, CancelSeen, Untouched
<1>1. ASSUME status'[t] = status[t],
             \A k \in Runs : pc'[t][k] = pc[t][k] \/ pc'[t][k] # "mark"
      PROVE  CancelSeen(t)'
  BY <1>0, <1>1 DEF CancelSeen
<1>2. ASSUME NEW s \in Scans, InsertScan(s) \/ Cancel(s) PROVE CancelSeen(t)'
  <2>1. s # t /\ UNCHANGED pc /\ \E x : status' = [status EXCEPT ![s] = x]
    BY <1>0, <1>2 DEF InsertScan, Cancel, Untouched
  <2>2. QED
    BY <1>0, <1>1, <2>1
<1>3. ASSUME NEW s \in Scans, Enqueue(s) \/ TakeJob(s) PROVE CancelSeen(t)'
  <2>1. UNCHANGED status /\ (pc' = pc \/ \E n : Goto(s, n, "read"))
    BY <1>3 DEF Enqueue, TakeJob, StartRun
  <2>2. \A k \in Runs : pc'[t][k] = pc[t][k] \/ pc'[t][k] = "read"
    BY <2>1, GotoCells
  <2>3. QED
    BY <1>1, <2>1, <2>2
<1>4. ASSUME NEW s \in Scans, NEW k \in Runs, WorkStep(s, k) PROVE CancelSeen(t)'
  <2>1. PICK l \in PCs \ {"unborn"} :
          /\ Goto(s, k, l)
          /\ \/ status' = status /\ (l = "mark" => status[s] # "cancelled")
             \/ /\ pc[s][k] = "mark" \/ pc[s][k] \notin Resting
                /\ l # "mark" /\ \E x : status' = [status EXCEPT ![s] = x]
    BY <1>4, WorkCases DEF Resting, Crawling, Failing
  <2>2. \A u \in Scans, j \in Runs : pc'[u][j] = IF <<u, j>> = <<s, k>> THEN l ELSE pc[u][j]
    BY <2>1, GotoTyped
  <2>3. CASE t # s
    <3>1. status'[t] = status[t] /\ \A j \in Runs : pc'[t][j] = pc[t][j]
      BY <1>0, <2>1, <2>2, <2>3
    <3>2. QED
      BY <1>1, <3>1
  <2>4. CASE t = s
    <3>1. status' = status /\ l # "mark"
      BY <1>0, <2>1, <2>4
    <3>2. QED
      BY <1>1, <2>2, <3>1
  <2>5. QED
    BY <2>3, <2>4
<1>5. ASSUME NEW s \in Scans, NEW k \in Runs, Return(s, k) \/ Throw(s, k) PROVE CancelSeen(t)'
  <2>1. UNCHANGED status /\ Goto(s, k, "done")
    BY <1>5 DEF Return, Throw
  <2>2. \A j \in Runs : pc'[t][j] = pc[t][j] \/ pc'[t][j] = "done"
    BY <2>1, GotoCells
  <2>3. QED
    BY <1>1, <2>1, <2>2
<1>6. CASE WorkerCrash \/ ApiCrash
  BY <1>1, <1>6, CrashFacts
<1>7. CASE UNCHANGED <<status, pc>>
  BY <1>1, <1>7
<1>8. QED
  BY <1>2, <1>3, <1>4, <1>5, <1>6, <1>7, NextCases
     DEF LinkJob, RequestFails, BackoffEnds, RecoverStalled, LoseLock, GiveBack

LEMMA UntouchedInvariant == Spec => [](TypeOK /\ Books /\ Store /\ \A s \in Scans : Untouched(s))
<1> DEFINE Inv == TypeOK /\ Books /\ Store /\ \A s \in Scans : Untouched(s)
<1>1. Init => Inv
  <2>1. Init => \A s \in Scans : Untouched(s)
    BY DEF Init, Untouched, Resting
  <2>2. QED
    BY <2>1, InitTypeOK, InitInvariant
<1>2. Inv /\ [Next]_vars => Inv'
  BY TypeStep, BooksStep, StoreStep, UntouchedStep
<1>3. QED
  BY <1>1, <1>2, PTL DEF Spec

(* Nothing the queue or a run does undoes a cancellation that was in time.  *)
THEOREM CancellationsAreKept == Spec => CancelIsKept
<1>1. TypeOK /\ (\A s \in Scans : Untouched(s)) /\ [Next]_vars
        => [\A s \in Scans : CancelSeen(s) => CancelSeen(s)']_vars
  BY CancelStep
<1>2. QED
  BY <1>1, UntouchedInvariant, PTL DEF Spec, CancelIsKept

-----------------------------------------------------------------------------
(* The contract.                                                            *)

(* A scan that was requested has a row.                                     *)
Known(s) == request[s] # "new" => status[s] # "absent"

LEMMA KnownStep ==
  ASSUME TypeOK, [Next]_vars, NEW t \in Scans, Known(t) PROVE Known(t)'
<1>0. status \in [Scans -> Statuses] /\ request \in [Scans -> RequestStates]
  BY DEF TypeOK
<1>1. ASSUME NEW s \in Scans, InsertScan(s) PROVE Known(t)'
  BY <1>0, <1>1 DEF InsertScan, Known
<1>2. ASSUME NEW s \in Scans, Enqueue(s) \/ LinkJob(s) \/ RequestFails(s) PROVE Known(t)'
  <2>1. UNCHANGED status /\ request[s] # "new" /\ \E x : request' = [request EXCEPT ![s] = x]
    BY <1>2 DEF Enqueue, LinkJob, RequestFails
  <2>2. QED
    BY <1>0, <2>1 DEF Known
<1>3. ASSUME NEW s \in Scans, NEW k \in Runs, WorkStep(s, k) PROVE Known(t)'
  <2>1. UNCHANGED request
    BY <1>3, WorkStepFrame
  <2>2. \/ status' = status
        \/ \E x \in {"running", "succeeded", "failed"} : status' = [status EXCEPT ![s] = x]
    BY <1>3, WorkCases
  <2>3. QED
    BY <1>0, <2>1, <2>2 DEF Known
<1>4. ASSUME NEW s \in Scans, Cancel(s) PROVE Known(t)'
  BY <1>0, <1>4 DEF Cancel, Known
<1>5. CASE WorkerCrash \/ ApiCrash
  BY <1>5 DEF WorkerCrash, ApiCrash, Known
<1>6. ASSUME UNCHANGED <<request, status>> PROVE Known(t)'
  BY <1>6 DEF Known
<1>7. QED
  BY <1>1, <1>2, <1>3, <1>4, <1>5, <1>6, NextCases
     DEF TakeJob, BackoffEnds, RecoverStalled, LoseLock, GiveBack, Return, Throw

LEMMA PhasesTyped ==
  /\ PhaseOf \in [PCs -> Contract!Phases]
  /\ TypeOK => phases \in [Scans -> [Runs -> Contract!Phases]]
<1>1. PhaseOf \in [PCs -> Contract!Phases]
  <2>1. PhaseOf = [x \in PCs |-> PhaseOf[x]]
    BY DEF PhaseOf
  <2>2. \A x \in PCs : PhaseOf[x] \in Contract!Phases
    BY DEF PhaseOf, Contract!Phases
  <2>3. QED
    BY <2>1, <2>2
<1>2. pc \in [Scans -> [Runs -> PCs]] => phases \in [Scans -> [Runs -> Contract!Phases]]
  BY <1>1 DEF phases
<1>3. QED
  BY <1>1, <1>2 DEF TypeOK

(* A step that sends a run to a label moves its attempt to that phase.      *)
LEMMA PhaseMoves ==
  ASSUME TypeOK, NEW s \in Scans, NEW k \in Runs, NEW l \in PCs, Goto(s, k, l)
  PROVE  phases' = [phases EXCEPT ![s][k] = PhaseOf[l]]
<1>1. pc \in [Scans -> [Runs -> PCs]] /\ pc' = [pc EXCEPT ![s][k] = l]
  BY DEF TypeOK, Goto
<1>2. \A t \in Scans, j \in Runs :
        phases'[t][j] = IF t = s /\ j = k THEN PhaseOf[l] ELSE phases[t][j]
  BY <1>1 DEF phases
<1>3. /\ phases = [t \in Scans |-> [j \in Runs |-> phases[t][j]]]
      /\ phases' = [t \in Scans |-> [j \in Runs |-> phases'[t][j]]]
  BY DEF phases
<1>4. ASSUME NEW t \in Scans
      PROVE  phases'[t] = [phases EXCEPT ![s][k] = PhaseOf[l]][t]
  <2>1. /\ phases[t] = [j \in Runs |-> phases[t][j]]
        /\ phases'[t] = [j \in Runs |-> phases'[t][j]]
    BY DEF phases
  <2>2. CASE t # s
    BY <1>2, <1>3, <2>1, <2>2
  <2>3. CASE t = s
    BY <1>2, <1>3, <2>1, <2>3
  <2>4. QED
    BY <2>2, <2>3
<1>5. QED
  BY <1>3, <1>4

LEMMA PhaseCell ==
  ASSUME NEW s \in Scans, NEW k \in Runs PROVE phases[s][k] = PhaseOf[pc[s][k]]
BY DEF phases

LEMMA EndsAttempts ==
  ASSUME TypeOK', UNCHANGED status,
         \A s \in Scans, k \in Runs :
           \/ pc'[s][k] = pc[s][k]
           \/ PhaseOf[pc[s][k]] # "none" /\ PhaseOf[pc'[s][k]] = "over"
  PROVE  Contract!End
<1>1. phases' \in [Scans -> [Runs -> Contract!Phases]]
  <2>1. pc' \in [Scans -> [Runs -> PCs]]
    BY DEF TypeOK
  <2>2. QED
    BY <2>1, PhasesTyped DEF phases
<1>2. \A s \in Scans, k \in Runs :
        phases[s][k] = PhaseOf[pc[s][k]] /\ phases'[s][k] = PhaseOf[pc'[s][k]]
  BY DEF phases
<1>3. QED
  BY <1>1, <1>2 DEF Contract!End, Contract!Attempts

(* Every step of a run, of the queue and of the request is a step of the    *)
(* contract, or none.                                                       *)
LEMMA BeginsAttempt ==
  ASSUME TypeOK, Books, NEW s \in Scans, Known(s), request[s] # "new",
         NEW k \in Runs, k = started[s] + 1, Goto(s, k, "read"), UNCHANGED status
  PROVE  Contract!Begin(s, k)
<1>1. pc[s][k] = "unborn"
  <2>1. started[s] \in Nat
    BY JobTypes DEF JobTyped
  <2>2. k > started[s]
    BY <2>1
  <2>3. QED
    BY <2>2 DEF Books, RunsInOrder
<1>2. "read" \in PCs /\ PhaseOf["read"] = "begun" /\ PhaseOf["unborn"] = "none"
  BY DEF PCs, FailingSteps, Gone, PhaseOf
<1>3. phases[s][k] = "none" /\ phases' = [phases EXCEPT ![s][k] = "begun"]
  BY <1>1, <1>2, PhaseCell, PhaseMoves
<1>4. QED
  BY <1>3 DEF Contract!Begin, Contract!Move, Known

LEMMA WorkIsContracted ==
  ASSUME TypeOK, TypeOK', NEW s \in Scans, NEW k \in Runs, WorkStep(s, k)
  PROVE  \/ Contract!Work(s, k) \/ Contract!Succeed(s, k) \/ Contract!GiveUp(s, k)
         \/ Contract!Fail(s, k) \/ Contract!End \/ UNCHANGED <<status, phases>>
<1>1. PICK l \in PCs \ {"unborn"} :
    /\ Goto(s, k, l)
    /\ \/ /\ pc[s][k] \in {"read", "mark"} /\ status' = status
          /\ l \in {"mark", "returned", "thrown"}
       \/ /\ pc[s][k] = "mark" /\ l = "crawl" /\ status' = [status EXCEPT ![s] = "running"]
       \/ /\ pc[s][k] \in Crawling /\ status' = status
          /\ l \in Crawling \cup {"fail"}
       \/ /\ pc[s][k] = "succeed" /\ l = "stamp" /\ status' = [status EXCEPT ![s] = "succeeded"]
       \/ /\ pc[s][k] \in Failing /\ l \in {"fallback", "thrown"} /\ status' = status
       \/ /\ pc[s][k] \in Failing /\ l = "thrown"
          /\ status' = [status EXCEPT ![s] = "failed"]
       \/ /\ pc[s][k] = "stamp" /\ l \in {"returned", "fail"} /\ status' = status
  BY WorkCases DEF Failing
<1>2. /\ phases[s][k] = PhaseOf[pc[s][k]]
      /\ phases' = [phases EXCEPT ![s][k] = PhaseOf[l]]
  BY <1>1, PhaseCell, PhaseMoves
<1>3. /\ PhaseOf["read"] = "begun" /\ PhaseOf["mark"] = "begun"
      /\ \A x \in Crawling : PhaseOf[x] = "working"
      /\ PhaseOf["stamp"] = "claimed"
      /\ \A x \in Failing : PhaseOf[x] = "failing"
      /\ PhaseOf["returned"] = "over" /\ PhaseOf["thrown"] = "over"
  BY DEF PhaseOf, PCs, FailingSteps, Gone, Crawling, Failing
<1>4. ASSUME PhaseOf[l] = "over", PhaseOf[pc[s][k]] # "none", status' = status
      PROVE  Contract!End
  <2>1. \A t \in Scans, j \in Runs : pc'[t][j] = IF <<t, j>> = <<s, k>> THEN l ELSE pc[t][j]
    BY <1>1, GotoTyped
  <2>2. QED
    BY <1>4, <2>1, EndsAttempts
<1>5. ASSUME PhaseOf[l] = PhaseOf[pc[s][k]] PROVE UNCHANGED phases
  <2>1. phases \in [Scans -> [Runs -> Contract!Phases]]
    BY PhasesTyped
  <2>2. QED
    BY <1>2, <1>5, <2>1
<1>6. CASE pc[s][k] \in {"read", "mark"} /\ status' = status /\ l \in {"mark", "returned", "thrown"}
  BY <1>3, <1>4, <1>5, <1>6
<1>7. CASE pc[s][k] = "mark" /\ l = "crawl" /\ status' = [status EXCEPT ![s] = "running"]
  BY <1>2, <1>3, <1>7 DEF Contract!Work, Contract!Move, Crawling
<1>8. CASE pc[s][k] \in Crawling /\ status' = status /\ l \in Crawling \cup {"fail"}
  <2>1. CASE l \in Crawling
    BY <1>3, <1>5, <1>8, <2>1
  <2>2. CASE l = "fail"
    BY <1>2, <1>3, <1>8, <2>2 DEF Contract!GiveUp, Contract!Move, Failing
  <2>3. QED
    BY <1>8, <2>1, <2>2
<1>9. CASE pc[s][k] = "succeed" /\ l = "stamp" /\ status' = [status EXCEPT ![s] = "succeeded"]
  BY <1>2, <1>3, <1>9 DEF Contract!Succeed, Contract!Move, Crawling
<1>10. CASE pc[s][k] \in Failing /\ l \in {"fallback", "thrown"} /\ status' = status
  BY <1>3, <1>4, <1>5, <1>10 DEF Failing
<1>11. CASE pc[s][k] \in Failing /\ l = "thrown" /\ status' = [status EXCEPT ![s] = "failed"]
  BY <1>2, <1>3, <1>11 DEF Contract!Fail, Contract!Move
<1>12. CASE pc[s][k] = "stamp" /\ l \in {"returned", "fail"} /\ status' = status
  <2>1. CASE l = "returned"
    BY <1>3, <1>4, <1>12, <2>1
  <2>2. CASE l = "fail"
    BY <1>2, <1>3, <1>12, <2>2 DEF Contract!GiveUp, Contract!Move, Failing
  <2>3. QED
    BY <1>12, <2>1, <2>2
<1>13. QED
  BY <1>1, <1>6, <1>7, <1>8, <1>9, <1>10, <1>11, <1>12

LEMMA ContractStep ==
  ASSUME TypeOK, TypeOK', Books, \A s \in Scans : Untouched(s) /\ Known(s), [Next]_vars
  PROVE  [Contract!Next]_<<status, phases>>
<1> USE DEF Contract!Attempts
<1>1. ASSUME NEW s \in Scans, InsertScan(s) PROVE Contract!Request(s)
  <2>1. UNCHANGED phases
    BY <1>1 DEF InsertScan, phases
  <2>2. QED
    BY <1>1, <2>1 DEF InsertScan, Untouched, Contract!Request
<1>2. ASSUME NEW s \in Scans, Cancel(s) PROVE Contract!Cancel(s)
  <2>1. UNCHANGED phases
    BY <1>2 DEF Cancel, phases
  <2>2. QED
    BY <1>2, <2>1 DEF Cancel, Contract!Cancel
<1>3. ASSUME NEW s \in Scans, Enqueue(s)
      PROVE  (\E k \in Runs : Contract!Begin(s, k)) \/ UNCHANGED <<status, phases>>
  <2>1. request[s] = "enqueue" /\ UNCHANGED status
    BY <1>3 DEF Enqueue
  <2>2. CASE UNCHANGED pc
    BY <2>1, <2>2 DEF phases
  <2>3. CASE Goto(s, started[s] + 1, "read")
    <3>1. started[s] + 1 = 1 /\ 1 \in Runs
      BY <2>1, Limits DEF Books, JobBooks
    <3>2. Contract!Begin(s, 1)
      BY <2>1, <2>3, <3>1, BeginsAttempt
    <3>3. QED
      BY <3>1, <3>2
  <2>4. QED
    BY <1>3, <2>2, <2>3 DEF Enqueue, StartRun
<1>4. ASSUME NEW s \in Scans, TakeJob(s) PROVE \E k \in Runs : Contract!Begin(s, k)
  <2>1. /\ job[s] = "waiting" /\ UNCHANGED status
        /\ Goto(s, started[s] + 1, "read")
    BY <1>4 DEF TakeJob, StartRun
  <2>2. request[s] # "new"
    BY <2>1 DEF Books, JobBooks
  <2>3. started[s] + 1 \in Runs
    BY <2>1, RunLeft DEF Books
  <2>4. QED
    BY <2>1, <2>2, <2>3, BeginsAttempt
<1>5. ASSUME NEW s \in Scans, NEW k \in Runs, Return(s, k) \/ Throw(s, k)
      PROVE  UNCHANGED <<status, phases>>
  <2>1. UNCHANGED status /\ Goto(s, k, "done") /\ pc[s][k] \in {"returned", "thrown"}
    BY <1>5 DEF Return, Throw
  <2>2. /\ PhaseOf["returned"] = "over" /\ PhaseOf["thrown"] = "over"
        /\ PhaseOf["done"] = "over" /\ "done" \in PCs
    BY DEF PhaseOf, PCs, FailingSteps, Gone
  <2>3. phases' = [phases EXCEPT ![s][k] = phases[s][k]]
    BY <2>1, <2>2, PhaseCell, PhaseMoves
  <2>4. phases \in [Scans -> [Runs -> Contract!Phases]]
    BY PhasesTyped
  <2>5. QED
    BY <2>1, <2>3, <2>4
<1>6. CASE WorkerCrash \/ ApiCrash
  <2>1. UNCHANGED status
    BY <1>6, CrashFacts
  <2>2. \A s \in Scans, k \in Runs :
          pc'[s][k] = pc[s][k] \/ (pc'[s][k] = "dead" /\ Live(s, k))
    BY <1>6, CrashFacts
  <2>3. \A x \in PCs \ Gone : PhaseOf[x] # "none"
    BY DEF PhaseOf, Gone
  <2>4. PhaseOf["dead"] = "over"
    BY DEF PhaseOf, PCs, Gone
  <2>5. \A s \in Scans, k \in Runs : Live(s, k) => PhaseOf[pc[s][k]] # "none"
    BY <2>3 DEF Live, TypeOK
  <2>6. Contract!End
    BY <2>1, <2>2, <2>4, <2>5, EndsAttempts
  <2>7. QED
    BY <2>6 DEF Contract!Next
<1>7. ASSUME UNCHANGED <<status, pc>> PROVE UNCHANGED <<status, phases>>
  BY <1>7 DEF phases
<1>8. ASSUME NEW s \in Scans, NEW k \in Runs, WorkStep(s, k)
      PROVE  [Contract!Next]_<<status, phases>>
  BY <1>8, WorkIsContracted DEF Contract!Next
<1>9. QED
  BY <1>1, <1>2, <1>3, <1>4, <1>5, <1>6, <1>7, <1>8, NextCases
     DEF Contract!Next, LinkJob, RequestFails, BackoffEnds, RecoverStalled, LoseLock, GiveBack

(* Whatever goes wrong, a client that polls the row sees what ScanContract  *)
(* allows: the row is written in the order of attempts that are under way,  *)
(* a success is taken back only by the attempt that wrote it or by another  *)
(* that is not over, and there are no more attempts than the queue gives.   *)
THEOREM RowKeepsTheContract == Spec => ImplementsContract
<1> DEFINE CInv == TypeOK /\ Books /\ Store /\ \A s \in Scans : Untouched(s) /\ Known(s)
<1>1. Init => CInv
  <2>1. Init => \A s \in Scans : Untouched(s) /\ Known(s)
    BY DEF Init, Untouched, Known, Resting
  <2>2. QED
    BY <2>1, InitTypeOK, InitInvariant
<1>2. CInv /\ [Next]_vars => CInv' /\ [Contract!Next]_<<status, phases>>
  <2> SUFFICES ASSUME CInv, [Next]_vars PROVE CInv' /\ [Contract!Next]_<<status, phases>>
    OBVIOUS
  <2>1. TypeOK' /\ Books' /\ Store'
    BY TypeStep, BooksStep, StoreStep
  <2>2. \A s \in Scans : Untouched(s)' /\ Known(s)'
    BY UntouchedStep, KnownStep
  <2>3. [Contract!Next]_<<status, phases>>
    BY <2>1, ContractStep
  <2>4. QED
    BY <2>1, <2>2, <2>3
<1>3. Init => Contract!Init
  BY DEF Init, Contract!Init, Contract!Attempts, phases, PhaseOf, PCs, Gone
<1> HIDE DEF CInv
<1>4. QED
  BY <1>1, <1>2, <1>3, PTL DEF Spec, ImplementsContract, Contract!Spec

-----------------------------------------------------------------------------
(* The queue and the row.  They can part where a failure leaves no word on  *)
(* the row, where a run goes on without its lock, and where the last stall  *)
(* of a job fails it while its row says running.                            *)

LEMMA StallsStay ==
  ASSUME TypeOK, [Next]_vars, NEW t \in Scans, StalledOut(t) PROVE StalledOut(t)'
<1>1. stalls' = stalls \/ \E s \in Scans : stalls' = [stalls EXCEPT ![s] = stalls[s] + 1]
  BY NextCases, WorkStepFrame
     DEF InsertScan, Enqueue, LinkJob, RequestFails, TakeJob, BackoffEnds, RecoverStalled,
         LoseLock, GiveBack, Cancel, Return, Throw, WorkerCrash, ApiCrash
<1>2. stalls \in [Scans -> Nat]
  BY JobTypes DEF JobTyped
<1>3. QED
  BY <1>1, <1>2, LimitsTyped DEF StalledOut

LEMMA AgreedKept ==
  ASSUME NEW t \in Scans, Agreed(t), status'[t] = status[t], stamped[t] => stamped'[t],
         StalledOut(t) => StalledOut(t)',
         job'[t] = job[t] \/ job'[t] \in {"waiting", "active"},
         \A k \in Runs : pc'[t][k] = pc[t][k] \/ pc'[t][k] \notin {"thrown", "stamp", "returned"}
  PROVE  Agreed(t)'
BY DEF Agreed, Stamped

LEMMA AgreedWork ==
  ASSUME TypeOK, Books, NEW s \in Scans, Exclusive(s), Agreed(s), stamped[s] => stamped'[s],
         ~FailsSilently(s), NEW k \in Runs, WorkStep(s, k)
  PROVE  Agreed(s)'
<1>0. /\ status \in [Scans -> Statuses] /\ stamped \in [Scans -> BOOLEAN]
      /\ Live(s, k) /\ UNCHANGED job
  BY WorkStepFrame DEF TypeOK, FailingSteps, Live, Gone
<1>1. \A j \in Runs : j # k => ~Live(s, j)
  BY <1>0 DEF Exclusive
<1>2. job[s] \in {"none", "active"}
  BY <1>0, NobodyLive
<1>3. pc[s][k] \in {"read", "mark", "fallback"} => ~StepFails(s, k)
  BY DEF FailsSilently
<1>4. PICK l \in PCs \ {"unborn"} :
        /\ Goto(s, k, l)
        /\ \/ l = "returned" /\ status[s] = "cancelled" /\ status'[s] = status[s]
           \/ l = "thrown" /\ status'[s] = "failed"
           \/ l = "stamp" /\ status'[s] = "succeeded"
           \/ /\ l = "returned" /\ pc[s][k] = "stamp" /\ status'[s] = status[s]
              /\ stamped' = [stamped EXCEPT ![s] = TRUE]
           \/ l \notin {"thrown", "stamp", "returned"}
  BY <1>0, <1>3, WorkCases DEF Crawling
<1>5. pc'[s][k] = l /\ \A j \in Runs : j # k => pc'[s][j] = pc[s][j] /\ ~Live(s, j)'
  BY <1>1, <1>4, GotoTyped DEF Live
<1>6. l = "returned" => Stamped(s)'
  BY <1>0, <1>4 DEF Agreed, Stamped
<1>7. /\ l = "thrown" => status'[s] = "failed"
      /\ l = "stamp" => status'[s] = "succeeded"
  BY <1>4
<1>8. \A j \in Runs : j # k => pc'[s][j] \notin {"thrown", "stamp", "returned"}
  BY <1>5 DEF Live, Gone
<1>9. QED
  BY <1>0, <1>2, <1>5, <1>6, <1>7, <1>8 DEF Agreed

LEMMA AgreedStep ==
  ASSUME TypeOK, Books, [Next]_vars, \A s \in Scans : ~LoseLock(s),
         NEW t \in Scans, Exclusive(t), Agreed(t), ~FailsSilently(t)
  PROVE  Agreed(t)'
<1>0. /\ pc \in [Scans -> [Runs -> PCs]] /\ status \in [Scans -> Statuses]
      /\ job \in [Scans -> JobStates] /\ stalls \in [Scans -> Nat]
      /\ stamped[t] => stamped'[t]
      /\ StalledOut(t) => StalledOut(t)'
  BY JobTypes, StampsStay, StallsStay DEF TypeOK, JobTyped
<1>1. ASSUME NEW s \in Scans, InsertScan(s) PROVE Agreed(t)'
  <2>1. /\ UNCHANGED <<pc, job>> /\ status' = [status EXCEPT ![s] = "queued"]
        /\ request[s] = "new"
    BY <1>1 DEF InsertScan
  <2>2. job[s] = "none" /\ \A k \in Runs : pc[s][k] = "unborn"
    BY <2>1, Limits DEF Books, JobBooks, RunsInOrder
  <2>3. CASE t = s
    BY <2>1, <2>2, <2>3 DEF Agreed
  <2>4. CASE t # s
    BY <1>0, <2>1, <2>4, AgreedKept
  <2>5. QED
    BY <2>3, <2>4
<1>2. ASSUME NEW s \in Scans, Cancel(s) PROVE Agreed(t)'
  <2>1. /\ UNCHANGED <<pc, job, stalls>> /\ status' = [status EXCEPT ![s] = "cancelled"]
        /\ status[s] = "queued"
    BY <1>2 DEF Cancel
  <2>2. CASE t = s
    <3>1. status'[t] = "cancelled" /\ (StalledOut(t)' <=> StalledOut(t))
      BY <1>0, <2>1, <2>2 DEF StalledOut
    <3>2. QED
      BY <1>0, <2>1, <2>2, <3>1 DEF Agreed, Stamped
  <2>3. CASE t # s
    BY <1>0, <2>1, <2>3, AgreedKept
  <2>4. QED
    BY <2>2, <2>3
<1>3. ASSUME NEW s \in Scans, Enqueue(s) \/ TakeJob(s) PROVE Agreed(t)'
  <2>1. /\ UNCHANGED status
        /\ UNCHANGED job \/ \E x \in {"waiting", "active"} : job' = [job EXCEPT ![s] = x]
        /\ UNCHANGED pc \/ Goto(s, started[s] + 1, "read")
    BY <1>3 DEF Enqueue, TakeJob, StartRun
  <2>2. job'[t] = job[t] \/ job'[t] \in {"waiting", "active"}
    BY <1>0, <2>1
  <2>3. \A k \in Runs : pc'[t][k] = pc[t][k] \/ pc'[t][k] = "read"
    BY <2>1, GotoCells
  <2>4. QED
    BY <1>0, <2>1, <2>2, <2>3, AgreedKept
<1>4. ASSUME NEW s \in Scans, BackoffEnds(s) PROVE Agreed(t)'
  <2>1. UNCHANGED <<status, pc>> /\ job' = [job EXCEPT ![s] = "waiting"]
    BY <1>4 DEF BackoffEnds
  <2>2. QED
    BY <1>0, <2>1, AgreedKept
<1>5. ASSUME NEW s \in Scans, RecoverStalled(s) PROVE Agreed(t)'
  <2>1. /\ UNCHANGED <<status, pc, stamped>> /\ stalls' = [stalls EXCEPT ![s] = @ + 1]
        /\ job' = [job EXCEPT ![s] = IF stalls[s] < MaxStalled THEN "waiting" ELSE "failed"]
    BY <1>5 DEF RecoverStalled, GiveBack
  <2>2. CASE t # s \/ stalls[s] < MaxStalled
    <3>1. job'[t] = job[t] \/ job'[t] = "waiting"
      BY <1>0, <2>1, <2>2
    <3>2. QED
      BY <1>0, <2>1, <3>1, AgreedKept
  <2>3. CASE t = s /\ ~(stalls[s] < MaxStalled)
    <3>1. job'[t] = "failed" /\ stalls'[t] = stalls[t] + 1
      BY <1>0, <2>1, <2>3
    <3>2. StalledOut(t)'
      BY <1>0, <2>3, <3>1, LimitsTyped DEF StalledOut
    <3>3. QED
      BY <2>1, <3>1, <3>2 DEF Agreed, Stamped
  <2>4. QED
    BY <2>2, <2>3
<1>6. ASSUME NEW s \in Scans, NEW k \in Runs, WorkStep(s, k) PROVE Agreed(t)'
  <2>1. CASE t = s
    BY <1>0, <1>6, <2>1, AgreedWork
  <2>2. CASE t # s
    <3>1. UNCHANGED job /\ \A j \in Runs : pc'[t][j] = pc[t][j]
      BY <1>6, <2>2, WorkStepFrame, GotoTyped
    <3>2. status' = status \/ \E x : status' = [status EXCEPT ![s] = x]
      BY <1>6, WorkCases
    <3>3. status'[t] = status[t]
      BY <1>0, <2>2, <3>2
    <3>4. QED
      BY <1>0, <3>1, <3>3, AgreedKept
  <2>3. QED
    BY <2>1, <2>2
<1>7. ASSUME NEW s \in Scans, NEW k \in Runs, Return(s, k) \/ Throw(s, k) PROVE Agreed(t)'
  <2>1. /\ UNCHANGED <<status, stamped, stalls>> /\ Goto(s, k, "done")
        /\ \/ UNCHANGED job
           \/ pc[s][k] = "returned" /\ job' = [job EXCEPT ![s] = "completed"]
           \/ /\ pc[s][k] = "thrown"
              /\ \E x \in {"delayed", "failed"} : job' = [job EXCEPT ![s] = x]
    BY <1>7 DEF Return, Throw
  <2>2. \A j \in Runs : pc'[t][j] = pc[t][j] \/ pc'[t][j] = "done"
    BY <2>1, GotoCells
  <2>3. \/ job'[t] = job[t]
        \/ job'[t] = "completed" /\ Stamped(t)
        \/ job'[t] \in {"delayed", "failed"} /\ status[t] = "failed"
    <3>1. t = s => /\ pc[s][k] = "returned" => Stamped(t)
                   /\ pc[s][k] = "thrown" => status[t] = "failed"
      BY DEF Agreed
    <3>2. QED
      BY <1>0, <2>1, <3>1
  <2>4. (Stamped(t)' <=> Stamped(t)) /\ (StalledOut(t)' <=> StalledOut(t))
    BY <2>1 DEF Stamped, StalledOut
  <2>5. QED
    BY <1>0, <2>1, <2>2, <2>3, <2>4 DEF Agreed
<1>8. CASE WorkerCrash \/ ApiCrash
  <2>1. /\ UNCHANGED <<status, job>>
        /\ \A k \in Runs : pc'[t][k] = pc[t][k] \/ pc'[t][k] = "dead"
    BY <1>8, CrashFacts
  <2>2. QED
    BY <1>0, <2>1, AgreedKept
<1>9. ASSUME UNCHANGED <<status, job, pc>> PROVE Agreed(t)'
  BY <1>0, <1>9, AgreedKept
<1>10. QED
  BY <1>1, <1>2, <1>3, <1>4, <1>5, <1>6, <1>7, <1>8, <1>9, NextCases DEF LinkJob, RequestFails

Agreement == lockLost \/ \A s \in Scans : Exclusive(s) /\ (s \in silent \/ Agreed(s))

LEMMA AgreementStep ==
  ASSUME TypeOK, Books, Agreement, [NotedNext]_<<vars, lockLost, silent>>
  PROVE  Agreement'
<1>1. CASE NotedNext
  <2> SUFFICES ASSUME ~lockLost', NEW t \in Scans
               PROVE  Exclusive(t)' /\ (t \in silent' \/ Agreed(t)')
    BY DEF Agreement
  <2>1. ~lockLost /\ \A s \in Scans : ~LoseLock(s)
    BY <1>1 DEF NotedNext
  <2>2. [Next]_vars /\ \A s \in Scans : Exclusive(s)
    BY <1>1, <2>1 DEF NotedNext, Agreement
  <2>3. Exclusive(t)'
    BY <2>1, <2>2, ExclusiveStep
  <2>4. t \notin silent' => t \notin silent /\ ~FailsSilently(t)
    BY <1>1 DEF NotedNext
  <2>5. t \notin silent' => Agreed(t)'
    BY <2>1, <2>2, <2>4, AgreedStep DEF Agreement
  <2>6. QED
    BY <2>3, <2>5
<1>2. CASE UNCHANGED <<vars, lockLost, silent>>
  BY <1>2 DEF Agreement, Exclusive, Live, Agreed, Stamped, StalledOut
<1>3. QED
  BY <1>1, <1>2

(* What the queue and the row say agrees, but for the exceptions that       *)
(* JobAndRowAgree names: a completed job left a succeeded row and a stamped *)
(* website or a cancellation, one in backoff or out of attempts left a      *)
(* failed row.                                                              *)
THEOREM JobsAndRowsAgree == NotedSpec => []JobAndRowAgree
<1> DEFINE AInv == TypeOK /\ Books /\ Store /\ Agreement
<1>1. NotedInit => AInv
  <2>1. Init => \A s \in Scans : Exclusive(s) /\ Agreed(s)
    BY DEF Init, Exclusive, Live, Gone, Agreed
  <2>2. QED
    BY <2>1, InitTypeOK, InitInvariant DEF NotedInit, Agreement
<1>2. AInv /\ [NotedNext]_<<vars, lockLost, silent>> => AInv'
  <2> SUFFICES ASSUME AInv, [NotedNext]_<<vars, lockLost, silent>> PROVE AInv'
    OBVIOUS
  <2>1. [Next]_vars
    BY DEF NotedNext
  <2>2. TypeOK' /\ Books' /\ Store'
    BY <2>1, TypeStep, BooksStep, StoreStep
  <2>3. Agreement'
    BY AgreementStep
  <2>4. QED
    BY <2>2, <2>3
<1>3. AInv => JobAndRowAgree
  BY DEF Agreement, JobAndRowAgree, Agreed, Stamped
<1> HIDE DEF AInv
<1>4. QED
  BY <1>1, <1>2, <1>3, PTL DEF NotedSpec
=============================================================================
