-------------------------------- MODULE Crawler --------------------------------
(***************************************************************************)
(* The crawler (services/crawler.ts): crawls of one worker process that     *)
(* share a browser.  A crawl opens a context and a page of its own, loads   *)
(* the site, asks the page for what it wants to know, and closes the        *)
(* context whatever happens.  Meanwhile a handler per HTTP response records *)
(* the assets; it awaits the body, so handlers of one page overlap with     *)
(* each other and with the crawl itself.                                    *)
(*                                                                          *)
(* A browser instance is a number, in the order of the launches.            *)
(***************************************************************************)
EXTENDS Naturals, Sequences, FiniteSets

CONSTANTS
  Crawls,       \* scans that runScan crawls in this process
  Urls,         \* URLs
  Loads,        \* those that the page of each crawl can load
  Assets,       \* those among them that are stylesheets or scripts
  Large,        \* those whose body exceeds CRAWLER_MAX_ASSET_BYTES
  MaxAssets,    \* CRAWLER_MAX_ASSETS
  MaxRequested, \* CRAWLER_MAX_REQUEST_URLS
  MaxRepeats,   \* bound: handlers that await the body of one URL at once
  MaxLaunches   \* bound: browsers launched in one behaviour

ASSUME UrlsTyped == Assets \subseteq Urls /\ Large \subseteq Assets /\ IsFiniteSet(Urls)
ASSUME LoadsTyped == Loads \in [Crawls -> SUBSET Urls]
ASSUME BoundsTyped == MaxAssets \in Nat /\ MaxRequested \in Nat /\ MaxRepeats \in Nat \ {0} /\ MaxLaunches \in Nat

VARIABLES
  browser,    \* the module's variable; 0 while null
  alive,      \* browser instances that are running
  launched,   \* number of launches so far
  stopped,    \* the worker has shut down
  began,      \* history: the launches that were over when a crawl began
  raced,      \* history: browsers overwritten by a launch begun before they ran
  pc,         \* where each crawl stands
  using,      \* the browser a crawl got, 0 before
  context,    \* crawls whose browser context is open
  outcome,    \* "none", "captured", "refused" (an AppError) or "fault"
  requested,  \* URLs the page requested, as far as they are recorded
  seen,       \* URLs of assets a handler has taken on
  reading,    \* handlers awaiting response.body(), by URL
  assets,     \* what was captured, in order
  overlap,    \* history: crawls that had two bodies under way at once
  missing     \* what the warning about assets not stored says, 0 without one

browserVars == <<browser, alive, launched, stopped, began, raced>>
captureVars == <<requested, seen, reading, assets, overlap>>
vars == <<browserVars, pc, using, context, outcome, captureVars, missing>>

Instances == 1 .. MaxLaunches

(* What a crawl asks of the page once it is loaded, and what comes after    *)
(* each of these steps.                                                     *)
Asked == {"content", "globals", "cookies", "workers", "manifest", "robots"}
Following == [content |-> "globals", globals |-> "cookies", cookies |-> "workers",
              workers |-> "manifest", manifest |-> "robots", robots |-> "count"]
Labels == Asked \cup
  {"idle", "launch", "context", "page", "goto", "settle", "count", "close", "done"}

TypeOK ==
  /\ alive \subseteq Instances /\ raced \subseteq Instances
  /\ browser \in 0 .. launched /\ launched \in 0 .. MaxLaunches
  /\ stopped \in BOOLEAN /\ began \in [Crawls -> 0 .. launched]
  /\ pc \in [Crawls -> Labels]
  /\ using \in [Crawls -> 0 .. launched]
  /\ context \subseteq Crawls
  /\ outcome \in [Crawls -> {"none", "captured", "refused", "fault"}]
  /\ requested \in [Crawls -> {U \in SUBSET Urls : Cardinality(U) <= MaxRequested}]
  /\ seen \in [Crawls -> SUBSET Assets]
  /\ reading \in [Crawls -> [Assets -> 0 .. MaxRepeats]]
  /\ assets \in [Crawls -> Seq([url : Assets, truncated : BOOLEAN])]
  /\ overlap \subseteq Crawls
  /\ missing \in [Crawls -> Nat]

Init ==
  /\ browser = 0 /\ alive = {} /\ launched = 0 /\ stopped = FALSE /\ raced = {}
  /\ began = [c \in Crawls |-> 0]
  /\ pc = [c \in Crawls |-> "idle"]
  /\ using = [c \in Crawls |-> 0]
  /\ context = {}
  /\ outcome = [c \in Crawls |-> "none"]
  /\ requested = [c \in Crawls |-> {}]
  /\ seen = [c \in Crawls |-> {}]
  /\ reading = [c \in Crawls |-> [u \in Assets |-> 0]]
  /\ assets = [c \in Crawls |-> <<>>]
  /\ overlap = {}
  /\ missing = [c \in Crawls |-> 0]

Goto(c, label) == pc' = [pc EXCEPT ![c] = label]
Running(c) == using[c] \in alive

(* Slip: the context is only closed after a crawl that worked.              *)
ThrowPastClose(c, how) ==
  /\ outcome' = [outcome EXCEPT ![c] = how]
  /\ Goto(c, "done")

(* The crawl throws: the finally clause comes next.                         *)
Throw(c, how) ==
  /\ outcome' = [outcome EXCEPT ![c] = how]
  /\ Goto(c, "close")

-----------------------------------------------------------------------------
(* getBrowser and closeBrowser.                                             *)

(* Slip: the browser is launched afresh for every crawl.                    *)
BeginAfresh(c) ==
  /\ pc[c] = "idle" /\ ~stopped
  /\ began' = [began EXCEPT ![c] = launched]
  /\ Goto(c, "launch") /\ UNCHANGED using
  /\ UNCHANGED <<browser, alive, launched, stopped, raced, context, outcome, captureVars, missing>>

(* A connected browser is used, else one is launched.                       *)
Begin(c) ==
  /\ pc[c] = "idle" /\ ~stopped
  /\ began' = [began EXCEPT ![c] = launched]
  /\ IF browser \in alive
       THEN Goto(c, "context") /\ using' = [using EXCEPT ![c] = browser]
       ELSE Goto(c, "launch") /\ UNCHANGED using
  /\ UNCHANGED <<browser, alive, launched, stopped, raced, context, outcome, captureVars, missing>>

(* The launch is over: the variable is set to the new browser, whatever it  *)
(* holds by now.                                                            *)
Launch(c) ==
  /\ pc[c] = "launch" /\ launched < MaxLaunches
  /\ launched' = launched + 1
  /\ browser' = launched' /\ alive' = alive \cup {launched'}
  /\ raced' = IF browser > began[c] THEN raced \cup {browser} ELSE raced
  /\ using' = [using EXCEPT ![c] = launched']
  /\ Goto(c, "context")
  /\ UNCHANGED <<stopped, began, context, outcome, captureVars, missing>>

(* It fails: outside the try block, nothing to close.                       *)
LaunchFails(c) ==
  /\ pc[c] = "launch"
  /\ outcome' = [outcome EXCEPT ![c] = "fault"]
  /\ Goto(c, "done")
  /\ UNCHANGED <<browserVars, using, context, captureVars, missing>>

(* The browser process dies; every call on it rejects from here on.         *)
BrowserDies(b) ==
  /\ b \in alive
  /\ alive' = alive \ {b}
  /\ UNCHANGED <<browser, launched, stopped, began, raced, pc, using, context, outcome,
                 captureVars, missing>>

(* The worker shuts down: it takes no more jobs, waits for the active ones, *)
(* then closes the module's browser.                                        *)
Stop ==
  /\ ~stopped /\ \A c \in Crawls : pc[c] \in {"idle", "done"}
  /\ stopped' = TRUE
  /\ browser' = 0 /\ alive' = alive \ {browser}
  /\ UNCHANGED <<launched, began, raced, pc, using, context, outcome, captureVars, missing>>

-----------------------------------------------------------------------------
(* crawlTarget up to the loaded page.                                       *)

NewContext(c) ==
  /\ pc[c] = "context" /\ Running(c)
  /\ context' = context \cup {c}
  /\ Goto(c, "page")
  /\ UNCHANGED <<browserVars, using, outcome, captureVars, missing>>

(* The new page, with its response handler, and page.goto: each succeeds or *)
(* is followed by the close.                                                *)
NewPage(c) ==
  /\ pc[c] = "page" /\ Running(c)
  /\ Goto(c, "goto")
  /\ UNCHANGED <<browserVars, using, context, outcome, captureVars, missing>>

Loaded(c) ==
  /\ pc[c] = "goto" /\ Running(c)
  /\ Goto(c, "settle")
  /\ UNCHANGED <<browserVars, using, context, outcome, captureVars, missing>>

(* Timeout, error or no response: an AppError with a message for the user.  *)
LoadFails(c) ==
  /\ pc[c] = "goto"
  /\ Throw(c, "refused")
  /\ UNCHANGED <<browserVars, using, context, captureVars, missing>>

(* newContext or newPage rejects.                                           *)
OpenFails(c) ==
  /\ pc[c] \in {"context", "page"}
  /\ Throw(c, "fault")
  /\ UNCHANGED <<browserVars, using, context, captureVars, missing>>

(* networkidle, load, or the time for settling is over, which is a warning  *)
(* and no failure.                                                          *)
Settle(c) ==
  /\ pc[c] = "settle"
  /\ Goto(c, "content")
  /\ UNCHANGED <<browserVars, using, context, outcome, captureVars, missing>>

-----------------------------------------------------------------------------
(* What the page is asked.  The two calls of page.content() throw when they *)
(* fail, which the page can bring about by navigating; every other failure  *)
(* is caught.  On a page that is gone nothing is answered, and all calls    *)
(* fail.                                                                    *)
Answered(c) ==
  /\ pc[c] \in Asked /\ Running(c)
  /\ Goto(c, Following[pc[c]])
  /\ UNCHANGED <<browserVars, using, context, outcome, captureVars, missing>>

(* Slip: what failed is asked again.                                        *)
AnswerFailsAsksAgain(c) ==
  /\ pc[c] \in Asked
  /\ UNCHANGED <<browserVars, pc, using, context, outcome, captureVars, missing>>

AnswerFails(c) ==
  /\ pc[c] \in Asked
  /\ IF pc[c] \in {"content", "manifest"} THEN Throw(c, "fault")
     ELSE Goto(c, Following[pc[c]]) /\ UNCHANGED outcome
  /\ UNCHANGED <<browserVars, using, context, captureVars, missing>>

(* The warning about assets not stored, and the result.                     *)
Count(c) ==
  /\ pc[c] = "count"
  /\ missing' = [missing EXCEPT ![c] =
       IF Cardinality(seen[c]) > Len(assets[c]) THEN Cardinality(seen[c]) - Len(assets[c]) ELSE 0]
  /\ outcome' = [outcome EXCEPT ![c] = "captured"]
  /\ Goto(c, "close")
  /\ UNCHANGED <<browserVars, using, context, captureVars>>

(* The finally clause; bodies still awaited reject with the page gone.      *)
Close(c) ==
  /\ pc[c] = "close"
  /\ context' = context \ {c}
  /\ reading' = [reading EXCEPT ![c] = [u \in Assets |-> 0]]
  /\ Goto(c, "done")
  /\ UNCHANGED <<browserVars, using, outcome, requested, seen, assets, overlap, missing>>

-----------------------------------------------------------------------------
(* The handler of page.on('response').                                      *)

PageIsOpen(c) == pc[c] \notin {"idle", "launch", "context", "page", "done"} /\ c \in context /\ Running(c)

(* The URL is recorded as requested, whatever it is, until the list is full. *)
Record(c, u) ==
  requested' = IF Cardinality(requested[c]) < MaxRequested
                 THEN [requested EXCEPT ![c] = @ \cup {u}] ELSE requested

StartReading(c, u) ==
  /\ reading' = [reading EXCEPT ![c][u] = @ + 1]
  /\ overlap' = IF \E v \in Assets : reading[c][v] > 0 THEN overlap \cup {c} ELSE overlap

(* Slips: the URL of an asset is not noted; the cap lets one asset more     *)
(* pass.                                                                    *)
ResponseUnnoted(c, u) ==
  /\ PageIsOpen(c) /\ Record(c, u)
  /\ u \in Assets
  /\ Len(assets[c]) < MaxAssets /\ reading[c][u] < MaxRepeats
  /\ StartReading(c, u)
  /\ UNCHANGED <<browserVars, pc, using, context, outcome, seen, assets, missing>>
ResponseOneMore(c, u) ==
  /\ PageIsOpen(c) /\ Record(c, u)
  /\ u \in Assets \ seen[c]
  /\ seen' = [seen EXCEPT ![c] = @ \cup {u}]
  /\ IF Len(assets[c]) > MaxAssets THEN UNCHANGED <<reading, overlap>> ELSE StartReading(c, u)
  /\ UNCHANGED <<browserVars, pc, using, context, outcome, assets, missing>>

(* Up to the await: a URL that is not an asset or was seen before stops     *)
(* here, and so does one that comes when the cap is reached.                *)
Response(c, u) ==
  /\ PageIsOpen(c) /\ Record(c, u)
  /\ IF u \in Assets \ seen[c]
       THEN /\ seen' = [seen EXCEPT ![c] = @ \cup {u}]
            /\ IF Len(assets[c]) >= MaxAssets THEN UNCHANGED <<reading, overlap>>
               ELSE StartReading(c, u)
       ELSE UNCHANGED <<seen, reading, overlap>>
  /\ UNCHANGED <<browserVars, pc, using, context, outcome, assets, missing>>

(* The body is there: too large, it leaves an entry without bytes.          *)
Body(c, u) ==
  /\ PageIsOpen(c) /\ reading[c][u] > 0
  /\ reading' = [reading EXCEPT ![c][u] = @ - 1]
  /\ assets' = [assets EXCEPT ![c] = Append(@, [url |-> u, truncated |-> u \in Large])]
  /\ UNCHANGED <<browserVars, pc, using, context, outcome, requested, seen, overlap, missing>>

(* Redirected, aborted or cached: no body, and the error is swallowed.      *)
NoBody(c, u) ==
  /\ reading[c][u] > 0
  /\ reading' = [reading EXCEPT ![c][u] = @ - 1]
  /\ UNCHANGED <<browserVars, pc, using, context, outcome, requested, seen, assets, overlap, missing>>

-----------------------------------------------------------------------------
(* The specification.                                                       *)

(* Steps that end by themselves or by one of the crawler's timeouts.        *)
Bounded(c) ==
  \/ Begin(c) \/ Launch(c) \/ LaunchFails(c)
  \/ NewContext(c) \/ NewPage(c) \/ OpenFails(c) \/ Loaded(c) \/ LoadFails(c)
  \/ Settle(c) \/ Count(c) \/ Close(c)

(* A call on a browser that is gone rejects.                                *)
Rejected(c) == ~Running(c) /\ AnswerFails(c)

Handlers(c) ==
  (\E u \in Loads[c] : Response(c, u)) \/ (\E u \in Assets : Body(c, u) \/ NoBody(c, u))

Next ==
  \/ \E c \in Crawls : Bounded(c) \/ Answered(c) \/ AnswerFails(c) \/ Handlers(c)
  \/ \E b \in Instances : BrowserDies(b)
  \/ Stop

Spec == Init /\ [][Next]_vars

(* The crawler's own steps are taken; whether the page ever answers what it *)
(* is asked is up to the site, since page.evaluate and page.content have no *)
(* timeout.                                                                 *)
BoundedSpec == Spec /\ \A c \in Crawls : WF_vars(Bounded(c)) /\ WF_vars(Rejected(c))

(* The page answers.                                                        *)
FairSpec == BoundedSpec /\ \A c \in Crawls : WF_vars(Answered(c) \/ Rejected(c))

-----------------------------------------------------------------------------
(* Properties.                                                              *)

(* No URL is captured twice, however often and however concurrently the     *)
(* page loads it.                                                           *)
NoAssetTwice ==
  \A c \in Crawls : \A i, j \in DOMAIN assets[c] :
    assets[c][i].url = assets[c][j].url => i = j

(* The cap on assets holds on a page whose bodies come in one at a time; it *)
(* is checked before the await, so a page with two under way can pass it.   *)
CapHoldsUnlessOverlap ==
  \A c \in Crawls : Len(assets[c]) > MaxAssets => c \in overlap

(* No context outlives its crawl, whichever step failed.                    *)
ContextsAreClosed == \A c \in context : pc[c] # "done"

(* Browsers are shared: one that runs and is not the module's browser was   *)
(* overwritten by a second launch that had begun before it was there.       *)
SpareBrowsersComeFromRaces == alive \ {browser} \subseteq raced

(* A crawl that has begun comes to its end, with a result or an error.      *)
CrawlEnds == \A c \in Crawls : pc[c] # "idle" ~> pc[c] = "done"
=============================================================================
