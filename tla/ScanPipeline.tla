----------------------------- MODULE ScanPipeline -----------------------------
(***************************************************************************)
(* What becomes of one thing a user typed: the API resolves it (ScanTarget) *)
(* and refuses it or queues it; each run of the scan resolves it anew and   *)
(* turns it away or captures the site, and the capture goes through the     *)
(* detection engine (Detection).  What a host resolves to may change at any *)
(* time.  How runs come to fail is ScanLifecycle; here any of them may.     *)
(*                                                                          *)
(* Outside the model: after a run has resolved the host the browser looks   *)
(* it up once more for itself, and that answer may be another one still     *)
(* (the comment of resolveTarget calls it the residual TOCTOU).  So `site'  *)
(* is whatever the browser was served, unrelated to `answers', and nothing  *)
(* below says which address it came from.                                   *)
(***************************************************************************)
EXTENDS Detection, ScanTarget

CONSTANT Inputs  \* a URL, what its host may resolve to, and the site there

VARIABLES
  input,    \* the URL, and what its host may resolve to at one time or another
  answers,  \* what the host resolves to now; nothing when the lookup fails
  judged,   \* what it resolved to when resolveTarget was last called
  target    \* what has become of it

pipelineVars == <<input, answers, judged, target, vars>>

ASSUME InputsTyped ==
  \A i \in Inputs :
    /\ i.url \in Url /\ i.site \in Sites
    /\ i.lookups \subseteq SUBSET (IPv4 \cup IPv6)
    /\ i.url.host = "IPv4" =>
         \E x \in UNION i.lookups : x \in IPv4 /\ i.lookups = {{x}}

PipelineInit ==
  /\ \E i \in Inputs :
       /\ input = [url |-> i.url, lookups |-> i.lookups]
       /\ answers \in i.lookups
       /\ Init /\ site = i.site
  /\ judged = {}
  /\ target = "asked"

(* resolveTarget throws unless all is well.                                 *)
Judge(good, bad) ==
  /\ judged' = answers
  /\ target' = IF resolveTarget(input.url, answers) THEN good ELSE bad
  /\ UNCHANGED <<input, answers, vars>>

(* requestScan: a bad address is answered with 400, before any row is made. *)
Resolve == target = "asked" /\ Judge("admitted", "refused")

(* Slip: the run crawls the target that the request resolved.               *)
CrawlAsAdmitted ==
  /\ target \in {"admitted", "retried"}
  /\ target' = "crawled"
  /\ UNCHANGED <<input, answers, judged, vars>>

(* crawl, at the start of a run.                                            *)
Crawl == target \in {"admitted", "retried"} /\ Judge("crawled", "turnedAway")

(* detect, on the capture in memory.                                        *)
Detect ==
  /\ target = "crawled"
  /\ Next
  /\ UNCHANGED <<input, answers, judged, target>>

(* The run fails, by a target turned away or wherever else, and the next    *)
(* attempt starts with nothing but the URL of the job.                      *)
Retry ==
  /\ target \in {"crawled", "turnedAway"}
  /\ target' = "retried"
  /\ found' = <<>> /\ pass' = 0 /\ at' = 1
  /\ UNCHANGED <<input, answers, judged, site, order>>

(* External: the records of the host change, or its name server fails.      *)
AnswersChange ==
  /\ answers' \in input.lookups
  /\ UNCHANGED <<input, judged, target, vars>>

PipelineNext == Resolve \/ Crawl \/ Detect \/ Retry \/ AnswersChange
PipelineSpec == PipelineInit /\ [][PipelineNext]_pipelineVars

-----------------------------------------------------------------------------
(* Properties.                                                              *)

PipelineTypeOK ==
  /\ TypeOK
  /\ input.url \in Url
  /\ answers \in input.lookups /\ judged \in input.lookups \cup {{}}
  /\ target \in {"asked", "refused", "admitted", "turnedAway", "crawled", "retried"}

(* The three /16 networks that are refused as a whole for the sake of one   *)
(* or two /24 blocks in them.                                               *)
Widened(x) ==
  /\ x.family = 4 \/ x.form = "mapped"
  /\ <<x.quad[1], x.quad[2]>> \in {<<192, 0>>, <<198, 51>>, <<203, 0>>}

(* The first groups of the IPv6 addresses that are in use on the Internet.  *)
GlobalUnicast(x) ==
  \/ x.family = 4 \/ x.form = "mapped"
  \/ x.form = "plain" /\ x.group \in 8192 .. 16383

Harmless(addresses) == addresses # {} /\ \A x \in addresses : ~IsReserved(x)

(* A target is let through only if every address that resolveTarget was     *)
(* given for its host, at that call, lies outside all of the blocks the     *)
(* comments in isPublicIPv4 and isPublicIPv6 name, the blocks written as    *)
(* prefixes and lengths; and nothing is reported of a target that is not.   *)
(* And no web address is turned away without a reason: some address it was  *)
(* given is reserved, shares a /16 with a block that is, or is no IPv6      *)
(* address in use on the Internet.                                          *)
TargetIsJudgedRight ==
  /\ target \in {"admitted", "crawled"} \/ pass > 0 => Harmless(judged)
  /\ target \in {"refused", "turnedAway"} /\ Parses(input.url) /\ judged # {} =>
       \E x \in judged : IsReserved(x) \/ Widened(x) \/ ~GlobalUnicast(x)

(* However long ago the request was admitted and whatever the host resolved *)
(* to then or in an earlier attempt, no run begins to crawl a host that now *)
(* resolves to a reserved address or to nothing: crawl resolves again.      *)
CrawlIsJudgedAfresh ==
  [][target # "crawled" /\ target' = "crawled" => Harmless(answers)]_pipelineVars
=============================================================================
