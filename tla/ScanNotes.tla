------------------------------ MODULE ScanNotes -------------------------------
(* ScanLifecycle with notes of two kinds of mishap: that a live run lost    *)
(* the lock of its job, and the scans of which a write failed that would    *)
(* have told the row how a run ended.                                       *)
EXTENDS ScanLifecycle

VARIABLES lockLost, silent

(* The SELECT and the first UPDATE of runScan are outside its try block,    *)
(* and after the fallback of markFailed there is nothing left to try.       *)
FailsSilently(s) ==
  \E k \in Runs : pc[s][k] \in {"read", "mark", "fallback"} /\ StepFails(s, k)

NotedInit == Init /\ lockLost = FALSE /\ silent = {}
NotedNext ==
  /\ Next
  /\ lockLost' = (lockLost \/ \E s \in Scans : LoseLock(s))
  /\ silent' = silent \cup {s \in Scans : FailsSilently(s)}
NotedSpec == NotedInit /\ [][NotedNext]_<<vars, lockLost, silent>>
NotedFairSpec == NotedSpec /\ Fairness

-----------------------------------------------------------------------------
(* Properties.                                                              *)

(* As long as live jobs keep their locks, a scan is crawled by one run at a *)
(* time.                                                                    *)
OneRunWhileLocked == lockLost \/ OneRunPerScan

(* And the run that succeeds can read back what it stored.                  *)
ReadsBackWhileLocked == lockLost \/ LastRunReadsBack

(* The job was failed by BullMQ, which does not call runScan, since it had  *)
(* stalled too often.                                                       *)
StalledOut(s) == stalls[s] > MaxStalled

(* What the queue and the row say agrees: a completed job's row says        *)
(* succeeded with the website stamped (or cancelled), a job waiting for its *)
(* backoff or out of attempts left the row at failed.                       *)
JobAndRowAgree == lockLost \/
  \A s \in Scans \ silent :
    /\ job[s] = "completed" => \/ status[s] = "succeeded" /\ stamped[s]
                               \/ status[s] = "cancelled"
    /\ job[s] = "delayed" => status[s] = "failed"
    /\ job[s] = "failed" => status[s] = "failed" \/ StalledOut(s)

(* A scan handed to the queue settles and stays settled, however often its  *)
(* runs fail and its worker dies, with three exceptions: a lost lock, a     *)
(* failure that leaves no word, and a job that stalled too often.           *)
EnqueuedScanSettles == \A s \in Scans :
  job[s] # "none" ~> [](Settled(s) \/ lockLost \/ s \in silent \/ StalledOut(s))
=============================================================================
