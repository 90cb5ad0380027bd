---------------------------- MODULE MCScanRequests ----------------------------
(* Values for TLC: a free user and a paying one, and pages as in             *)
(* MCScanLifecycle: pA has a stylesheet and technology t1, pC the HTML alone. *)
EXTENDS ScanRequests

CONSTANTS free, paid, h1, h2, pA, pC, kHtml, kCss, t1, s1, s2

MCArtefacts ==
  [p \in Pages |-> IF p = pA THEN <<[key |-> kHtml, truncated |-> FALSE],
                                    [key |-> kCss, truncated |-> FALSE]>>
                   ELSE <<[key |-> kHtml, truncated |-> FALSE]>>]
MCDetected == [p \in Pages |-> {t1}]

(* The first request is the free user's, the second anyone's.               *)
MCAskers == {f \in [Scans -> Users] : f[s1] = free}

(* Every kind of failure there is under the inline driver; of the steps that *)
(* store things, whose failures all go the same way, the last stands for all. *)
InlineMishaps ==
  {"read", "mark", "crawl", "succeed", "stamp", "fail", "fallback",
   "enqueue", "link", "cancel", "apiCrash"}
=============================================================================
