------------------------------- MODULE MCCrawler -------------------------------
(* Names for TLC.  The page of the first crawl loads a stylesheet and a      *)
(* script; that of the second one nothing more.                                *)
EXTENDS Crawler

CONSTANTS c1, c2, page, css, js

TwoCrawls == {c1, c2}
ThreeUrls == {page, css, js}
TwoAssets == {css, js}
OneLarge == {js}
MCLoads == [c \in Crawls |-> IF c = c1 THEN ThreeUrls ELSE {}]
=============================================================================
