---------------------------- MODULE ScanContract -----------------------------
(***************************************************************************)
(* What GET /scans/:id lets a client that polls it see, whatever goes wrong *)
(* behind it.  A row is written by attempts that are under way and by       *)
(* nobody else, but for a cancellation while it is queued.  An attempt      *)
(* writes 'running' once and then 'succeeded' once at most; it may still    *)
(* fail after that, and then writes 'failed' once at most and is over.  So  *)
(* a row that has settled moves again only for an attempt that is not over, *)
(* and there are no more than Limit of them.                                *)
(***************************************************************************)
EXTENDS Naturals

CONSTANTS Scans, Limit

VARIABLES
  state,  \* the status the client reads
  phase   \* how far each attempt is

Attempts == 1 .. Limit
Phases == {"none", "begun", "working", "claimed", "failing", "over"}

Init ==
  /\ state = [s \in Scans |-> "absent"]
  /\ phase = [s \in Scans |-> [k \in Attempts |-> "none"]]

Move(s, k, from, to) ==
  /\ phase[s][k] = from
  /\ phase' = [phase EXCEPT ![s][k] = to]

Request(s) ==
  /\ state[s] = "absent"
  /\ state' = [state EXCEPT ![s] = "queued"]
  /\ UNCHANGED phase

Cancel(s) ==
  /\ state[s] = "queued"
  /\ state' = [state EXCEPT ![s] = "cancelled"]
  /\ UNCHANGED phase

Begin(s, k) ==
  /\ state[s] # "absent"
  /\ Move(s, k, "none", "begun")
  /\ UNCHANGED state

Work(s, k) ==
  /\ Move(s, k, "begun", "working")
  /\ state' = [state EXCEPT ![s] = "running"]

Succeed(s, k) ==
  /\ Move(s, k, "working", "claimed")
  /\ state' = [state EXCEPT ![s] = "succeeded"]

GiveUp(s, k) ==
  /\ \E from \in {"working", "claimed"} : Move(s, k, from, "failing")
  /\ UNCHANGED state

Fail(s, k) ==
  /\ Move(s, k, "failing", "over")
  /\ state' = [state EXCEPT ![s] = "failed"]

(* Attempts end without a word to the row: they are done, they died, or     *)
(* their last write failed.  A process that dies ends several at once.      *)
End ==
  /\ UNCHANGED state
  /\ phase' \in [Scans -> [Attempts -> Phases]]
  /\ \A s \in Scans, k \in Attempts : phase'[s][k] # phase[s][k] =>
       phase[s][k] # "none" /\ phase'[s][k] = "over"

Next ==
  \/ \E s \in Scans :
       \/ Request(s) \/ Cancel(s)
       \/ \E k \in Attempts :
            Begin(s, k) \/ Work(s, k) \/ Succeed(s, k) \/ GiveUp(s, k) \/ Fail(s, k)
  \/ End

Spec == Init /\ [][Next]_<<state, phase>>
=============================================================================
