--------------------------- MODULE MCScanLifecycle ---------------------------
(* Values for TLC.  Page pA has a stylesheet and shows technology t1; page  *)
(* pB has the same stylesheet, too large to be stored, and shows nothing;   *)
(* page pC is the HTML alone and shows t1 as well.                          *)
EXTENDS ScanLifecycle

CONSTANTS pA, pB, pC, kHtml, kCss, t1, s1, s2

Html == [key |-> kHtml, truncated |-> FALSE]
Css(t) == [key |-> kCss, truncated |-> t]

MCArtefacts ==
  [p \in Pages |-> IF p = pA THEN <<Html, Css(FALSE)>>
                   ELSE IF p = pB THEN <<Html, Css(TRUE)>> ELSE <<Html>>]
MCDetected == [p \in Pages |-> IF p = pB THEN {} ELSE {t1}]

(* Every failure this model knows.                                          *)
Everything == AllMishaps

(* Every failure but that of a live job's lock.                              *)
AllButLocks == AllMishaps \ {"lockLoss"}
OnlySucceed == {"succeed"}
=============================================================================
