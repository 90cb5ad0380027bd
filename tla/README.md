# A TLA+ model of web-tech

The repository is a web application that captures a web page and reports the
technologies it is built with: an Express API and a BullMQ worker over
Postgres, Redis and an object store (`src/backend`), and a Next.js browser
client (`src/frontend`). This directory holds TLA+ modules for the parts of it
where the order of steps matters or a rule set has to be consistent, the TLC
configurations that check them on small instances, and TLAPS proofs of what
holds for every instance.

`PROJECT.json` lists the components, the runs, a mutation for every checked
property, the source lines behind every definition, the hazards found in the
code and the theorems.

## Inventory

| Component | State | Operations | What is hard about it |
|---|---|---|---|
| Scan lifecycle (`services/scan-service.ts`, `queue/`, `workers/`) | `scans`, `scan_assets`, `technologies`, `websites.lastScannedAt`; BullMQ jobs; objects in storage | `requestScan`, `enqueueScan`, the worker, `runScan`, `storeAsset`, `markFailed` | a run is a dozen awaited writes to three stores without a transaction; jobs are retried, locks expire, processes die, and each new attempt starts over what the last one left |
| Scan quota and websites (`scan-service.ts`) | rows counted per user and day; `websites.host` unique | `assertScanQuota`, `upsertWebsite` | count and insert are separate statements |
| Sessions (`services/token-service.ts`, `http/routes/auth.ts`) | `refresh_tokens` | issue, rotate, revoke one / family / user, prune | concurrent rotations of one token; revocations that race with a rotation; crashes between the claim and the successor |
| Browser client (`frontend/src/lib/api.ts`, `stores/auth.ts`, `providers.tsx`, `site-header.tsx`) | access token, user and refresh in flight per tab; one cookie jar | `request`, `refreshOnce`, `restoreSession`, login, logout | one refresh per tab, one cookie for all tabs; lost answers; answers that come after a login or a logout |
| Accounts (`services/auth-service.ts`) | `users` (status, failed logins, lock, verified), `verification_tokens` | signup, login, verify, forgot / reset / change password | lost updates of the failure counter; a reset interrupted between three writes; a one-time token redeemed twice |
| OAuth (`services/oauth-service.ts`) | state parameters in Redis; `oauth_accounts`, `users` | `buildAuthorizationUrl`, `handleCallback`, `resolveOAuthUser` | find-or-create in separate statements, concurrent callbacks |
| Rate limits (`http/middleware/rate-limit.ts`, `lib/redis.ts`) | counters in Redis | one middleware per route | several limiters are consumed for one request; Redis away; commands sent twice |
| Crawler (`services/crawler.ts`) | one shared browser; per crawl: assets, URLs seen | `crawlTarget`, response handlers, `getBrowser`, `closeBrowser` | handlers run concurrently against shared caps; two crawls launch at once; a page that does not answer |
| Detection (`services/detectors`) | none that lives on | `mergeByName`, `runRule`, `detect` | lists that have to agree across files; implications followed in a fixed number of passes |
| Scan target (`lib/scan-target.ts`) | none | `parseTarget`, `resolveTarget`, `isPublicAddress` | blocks of addresses written as comparisons of numbers and prefixes of text |
| Scan reading, password policy, storage drivers, JWT and hashing, e-mail, configuration, wiring, pages | none that lives on, or set-up | | queries, library calls, I/O, rendering |

How they interact: the API process judges the target, writes the scan row, then
puts a job whose id is the scan id on the queue; the worker process takes it,
calls the crawler and the detectors, writes bytes to storage and rows to
Postgres, and settles the row; the browser polls the row until it is settled.
Every authenticated call carries a short-lived access token; the browser trades
its refresh cookie for a new one, and the token service rotates the cookie's
token each time. The routes that hand out sessions stand behind rate limits.

What makes each part correct:

- Scan lifecycle: a row that says `succeeded` has a complete capture behind it;
  no row points at bytes that are not there; every accepted scan settles; queue
  and row agree; a row moves only for an attempt that is under way.
- Quota: who asks one at a time is held to the plan; a host has one row.
- Sessions: one live token per session; a session belongs to one user; an
  ended session stays ended; reuse ends the session.
- Client: it never presents a spent token of its own accord; it sends the user
  to the login page only when the session is over; who logs out stays out.
- Accounts: the lock is earned, a link is redeemed once, old sessions end with
  the old password. OAuth: one account per identity, and by a proven address.
- Rate limits: nobody passes without his points; every request is answered.
- Crawler: the caps hold, contexts and browsers are closed, a crawl ends.
- Detection: every signal counts, everything implied is reported.
- Target: exactly the reserved blocks are refused.

## Modules

| Module | Models | Depends on |
|---|---|---|
| `ScanLifecycle` | request, queue, worker, run, settle | |
| `ScanContract` | what a poller of one row may rely on (abstract) | refined by `ScanLifecycle` |
| `ScanNotes` | `ScanLifecycle` with notes of lost locks and of failures the row is not told of | extends `ScanLifecycle` |
| `ScanRequests` | `POST /scans` up to the row, then the run | `INSTANCE ScanLifecycle` |
| `RefreshTokens` | `refresh_tokens` under concurrent handlers | |
| `Sessions` | what rotation promises (abstract) | refined by `RefreshTokens` |
| `ClientSession` | tabs, cookie jar and network against the rotation | `INSTANCE RefreshTokens` |
| `Accounts` | passwords, lockout and e-mailed links under concurrent handlers | |
| `OAuth` | callbacks beside the password side | extends `Accounts` |
| `RateLimits` | the limiters of a route over Redis | |
| `Crawler` | crawls of one worker that share a browser | |
| `TechRules` | the rules of `rules.ts` as data | |
| `Detection` | the engine of `detectors/index.ts` | extends `TechRules` |
| `ScanTarget` | URLs and addresses, pure operators | |
| `ScanPipeline` | target, attempts, captures and report of one request, while DNS changes | extends `Detection`, `ScanTarget` |
| `MC...` | values, names and symmetry for TLC | the module they name |
| `ScanLifecycle_proofs`, `ScanRequests_proofs`, `RefreshTokens_proofs`, `ClientSession_proofs`, `OAuth_proofs`, `RateLimits_proofs`, `Crawler_proofs`, `ScanPipeline_proofs` | theorems | the module they name; that of `ScanLifecycle` covers `ScanNotes` |

Operators marked *Slip* are mutations: each is the definition that follows it
with one plausible mistake. They are never part of a specification; a property
is worth keeping only if replacing the definition by its slip breaks it.

Variables and actions are named after the code. A variable described as
*history* records what happened and is read by properties only. Where a module
has type invariants that no run lists, they were checked with TLC once and
stand as documentation and as the start of a proof.

### ScanLifecycle

A scan is its row, its BullMQ job and its runs. The k-th time a worker starts
the job of scan `s` is run `k`, with a program counter named after the next
awaited statement of `runScan`: `read`, `mark`, `crawl`, then `put` and `asset`
for each artefact, `techs`, `succeed`, `stamp`; `fail` and `fallback` are the
two writes of `markFailed`. One action is one await, because that is where
another run, a failure or a crash can come between.

| Code | Model |
|---|---|
| `requestScan` from the INSERT on | `InsertScan`, `Enqueue`, `LinkJob`, `RequestFails` |
| `Worker` with `concurrency`, `lockDuration` | `TakeJob`, `RecoverStalled`, `LoseLock` |
| `attempts`, exponential `backoff` | `Throw`, `BackoffEnds` |
| `runScan`, `storeAsset` | `ReadRow` ... `StampWebsite` |
| the `catch` of `runScan`, `markFailed` | `StepFails` (with `Handler`), `MarkFailed` |
| process death | `WorkerCrash`, `ApiCrash` |
| a row set to `cancelled` by hand | `Cancel` |

Data is abstract: a page is one model value per content it can have, and fixes
the artefacts and detections a crawl of it yields. An object is the page whose
bytes it holds; a `scan_assets` row carries the page its digest describes.
`errored` and `finished` stand for `errorCode` / `errorMessage` and
`finishedAt`. BullMQ itself is external and modelled by what this code relies
on: one job per id, a lock, counted attempts and stalls, and the refusal to
move a job without its lock. The constant `Mishaps` says which failures an
instance is exposed to, by the name of the step that fails.

`ScanNotes` adds two notes to it that properties read: whether a live run ever
lost the lock of its job, and the scans of which a failure told the row nothing
(the SELECT and the UPDATE to `running` stand outside the `try`, and nothing
follows the fallback of `markFailed`).

`ScanContract` is what a client that polls the row may rely on, stated of what
the code does and not of what one would wish: every attempt says `running`,
`succeeded` and `failed` at most once each and in that order, and only an
attempt that is not over writes to the row. So a success can be taken back, by
the attempt that claimed it when its website UPDATE fails or by a later one,
and a failed row can move again; but never without an attempt under way, and
there are at most `JobAttempts + MaxStalled` of them. `phases` in
`ScanLifecycle` maps the program counters.

### ScanRequests

The handler of `POST /scans` before the INSERT, one action per await: `Count`
(the quota; a paying user passes), `Resolve` (the address, judged in
`ScanTarget`), `InsertWebsite` with ON CONFLICT DO NOTHING, `LookupWebsite` for
the loser, `Insert`. From there on the request is `ScanLifecycle`'s, whose
actions it shares through `INSTANCE`, under the inline driver, where runs live in
the process of the handlers and `ApiCrash` ends both. `DayPasses` lets the oldest scan leave
the 24 hours that are counted. A website row is named by the request that
inserted it, so a second row of a host would be seen. `stranded` is history:
the scans struck by a failure that tells the row nothing, which are an enqueue
that fails, a process that dies, and the silent failures of a run.

### RefreshTokens

`rows` is the table, in the order of insertion; a token is its row number and a
family is named by its first token. A handler of `POST /refresh` is idle, or
about to execute its SELECT (`lookup`), the revocation of the family (`kill`)
or the INSERT of the successor (`issue`); `Refresh` is the conditional UPDATE
together with the expiry check on what it returned. `Open` is the INSERT of a
login, an OAuth callback or the end of `password/change`; `EndAll` is
`revokeAllForUser`; `RevokeOne` is logout and `DELETE /sessions/:id`. A
statement that fails ends its handler where it stands (`CutOff`), and the death
of the process ends all of them (`Crash`).

A client may present any token ever issued, at any time and as often as it
likes. So lost, duplicated and late answers need no action of their own: a
token whose answer was lost is one that is never presented. Tokens expire in
any order. The variable `ended` is history: what ended a family, and whether a
rotation of it was under way at that moment.

### ClientSession

Here the client is not free but the code of `lib/api.ts`. An *exchange* is a
refresh or a logout on the network: `Send` puts the cookie as it is at that
moment into it; `Serve` takes the server through the statements of its handler
(those of `RefreshTokens`, and the read of the account after the rotation);
`Deliver`, `ConnectionFails` and `Discard` say what becomes of the answer. The
`Set-Cookie` header takes effect on the shared jar, the body on the tab.

| Code | Model |
|---|---|
| `refreshOnce` with `refreshInFlight` | `refreshOnce(t)`: joins the tab's refresh or sends one |
| `restoreSession` on mount | `Mount` |
| `request`: send, 401, refresh, one retry | `Ask`, `Accepted`, `Rejected`, `RejectedAgain`, `CallFails` |
| what a settled refresh does to its callers | `Renewed`, `NotRenewed`, `Settled`, `Release` |
| `setSession`, `clear` of the store | `setSession`, `clear` |
| login, the OAuth callback page | `Login` |
| `site-header.tsx` signing out | `SignOut` |

A login's own request is atomic here. The variable `excuse` is history: the
kinds of mishap that happened (an answer lost, two tabs refreshing at once,
a refresh refused, somebody else logging in, a session ended elsewhere), so
that a property can name exactly the ones it does not survive.

### Accounts and OAuth

A handler's program counter is the next statement it awaits, and its record
holds the local variables that statement uses, as read before. Anything may
come between two statements, and `CutOff` may end the handler there.

| Code | Model |
|---|---|
| `signup`: policy and SELECT, then INSERT ... ON CONFLICT DO NOTHING | `Signup`, `Create` |
| `createOneTimeToken` at the end of signup, resend and forgot | `AskLink`, `MailLink` |
| `consumeOneTimeToken` | `Redeemable`, `Redeem` |
| `verifyEmail` | `VerifyEmail`, `SetVerified` |
| `login`, then `establishSession` | `Login`, `Welcome`, `OpenSession` |
| `registerFailedLogin` | `Fail` |
| `resetPassword` | `Reset` (peek and policy), `Consume`, `SetPassword`, `Revoke` |
| `changePassword` and the rest of its route | `Change`, `ChangePassword`, `Revoke`, `OpenSession` |
| `buildAuthorizationUrl`, `handleCallback` | `Authorize`, `FlowExpires`, `HandleCallback` |
| `resolveOAuthUser` | `FindLink`, `FindEmail`, `InsertLinkOrNot`, `Patch`, `InsertUser`, `InsertLink` |
| the session after a callback | `Issue` |

A live session is represented by the password that opened it, because that is
what a reset or a change must end; how a session goes on is `RefreshTokens`. A
lock is a flag that time clears. What a provider says of one of its accounts
(address, verified or not) is an input. `lastLoginAt` and the profile fields
are left out.

### RateLimits

A request walks over the limiters of its route: `Skip` (no key), `Send`, and
then `Consume` when the counter answers, or `FailOpen` when the command
rejects. Redis is up or down; while it is down commands are held back, which is
what `maxRetriesPerRequest: null` and the offline queue do, and `ReplyLost`
sends a command again that was already counted. `WindowEnds` drops a counter.
`took` is history: who got a point of a window.

### Crawler

A browser is a number, in the order of launches. A crawl stands before one of
the awaited calls of `crawlTarget`: `launch`, `context`, `page`, `goto`,
`settle`, what it asks of the page (`content`, `globals`, `cookies`, `workers`,
`manifest`, `robots`), `count`, `close`. `Response` is the synchronous part of
the response handler and `Body` / `NoBody` the rest, so handlers of one page
overlap with each other and with the crawl. `BrowserDies` and `Stop` are the
death of the browser and the shutdown of the worker.

### TechRules, Detection, ScanTarget, ScanPipeline

`TechRules` is `rules.ts` without the patterns: per rule its technology, what
it implies and, per signal, the global it looks for and its confidence.
`Detection` translates the engine: `mergeByName`, `PROBE_GLOBALS` (what the
crawler asks for), `runHits`, and the two passes, in which each `Visit` sees
what earlier visits added. A merged rule is one element of a set, and the
constant `Visited` gives the orders in which a pass may take them (rules that
imply nothing add nothing and may be left out): the run takes them as written
and in reverse, and the proof in any order, so that what holds does not hang on
the order of the file. What does hang on the data of the two lists is stated as
two assumptions, `GlobalsAreProbed` and `RulesAreShallow`; no constant enters
them, so TLC decides them when it evaluates them. `ScanTarget` translates
`isPublicIPv4`, `isPublicIPv6`, `parseTarget` and `resolveTarget`; `Reserved`
is the reference, the blocks the comments name written as prefix and length.
`ScanPipeline` puts them together. The code resolves a host twice and more:
`requestScan` does, to answer a bad address with 400 (`Resolve`), and `crawl`
does at the start of every attempt (`Crawl`), with whatever DNS says by then
(`AnswersChange`); `judged` is what the last call was given. `Detect` is the
engine on the capture of a crawled target, `Retry` the next attempt. The
browser's own lookup comes after all that and may differ again, which the
comment of `resolveTarget` calls the residual TOCTOU: it is outside the model,
and what the site shows is independent of the addresses.

## Runs

| Run | Question | Result |
|---|---|---|
| `ScanAllFaults` | what survives every mishap at once, lost locks included? | `TypeOK`, `NoDanglingAsset`, `SettledRowIsHonest`, `CancelIsKept` hold; `OneRunWhileLocked`, `ReadsBackWhileLocked` and `JobAndRowAgree` hold as long as no live run lost its lock |
| `ScanSettles` | do accepted scans settle, what may a poller rely on? | under every mishap but lost locks, deaths after the success and failures of the website UPDATE included: `EnqueuedScanSettles` holds but for scans with a silent failure or too many stalls, `ScanContract` without exception |
| `ScanRequests` | quota, one row per host, and which rows of the inline driver stay behind? | `QuotaHoldsOneAtATime`, `OneWebsitePerHost` hold; `UnsettledIsAttended` under every kind of mishap of that driver: rows are only left behind by the failures it names |
| `TokenRotation` | can racing requests double or revive a session, can it change hands? | `TypeOK`, `OneHeirPerFamily`, `CleanEndIsFinal`, `FamilyHasOneOwner` and `Sessions` hold |
| `ClientSession` | does the shared refresh keep its promises across tabs and a bad network? | `NoFalseAlarm`, `LogoutWins`, `TabShowsItsUser`, `OutMeansOver` hold, each but for the mishaps it names |
| `AccountRaces` | what survives any interleaving of two requests, passwords and callbacks mixed? | `OAuthTypeOK`, `LinkSpentOnce`, `OldSessionsEnd`, `LockNeedsFailures`, `RejectedPasswordCostsNothing`, `SignupNeverReplaces`, `IdentityIsProven`, `EveryAccountHasADoor` hold |
| `RateLimits` | does anybody get past a limiter, is every request answered once Redis is back? | `LimitsHold`, `EveryRequestAnswered` hold |
| `Crawl` | do caps, contexts and browsers survive concurrent handlers and failures? | `NoAssetTwice`, `CapHoldsUnlessOverlap`, `ContextsAreClosed`, `SpareBrowsersComeFromRaces`, `CrawlEnds` hold |
| `ScanPipeline` | do the rules, the probe list and the passes agree; is a target judged by the blocks, and anew at each attempt? | `EverySignalCounts`, `ImplicationsAreComplete`, `TargetIsJudgedRight`, `CrawlIsJudgedAfresh` hold |

The other runs end in a violation, each of something a comment says:

| Run | What happens |
|---|---|
| `ScanBlockedRetry` | technologies stored by a failed attempt make every retry fail on the unique index, although failures are rethrown "so BullMQ can retry" |
| `RedisOutage` | while Redis is away the limiter's command waits for it, so nothing fails open and the request hangs, although "a Redis outage must not take authentication down with it" |
| `HungPage` | `page.evaluate` and `page.content` have no timeout, so a page that does not answer holds its crawl, although "a hung page must not hold a slot forever" |

### What the properties leave out, on purpose

Where the code does not do what one would wish, a property says how far it
goes, and the rest is written down here. Each of these was met while modelling.

Scans:

- A retry overwrites the objects of an earlier attempt under the same keys, so
  the rows of a failed attempt can describe bytes that are gone. The rows of
  the run that succeeds do read back.
- A worker that dies more often than `maxStalledCount` leaves a job that BullMQ
  fails without calling `runScan`: nobody calls `markFailed` and the row stays
  `running`. `EnqueuedScanSettles` and `JobAndRowAgree` except such a job.
- The SELECT and the first UPDATE of `runScan` are outside its `try`, and when
  the fallback of `markFailed` fails nothing follows. Under the queue the job is
  tried again, but on the last attempt the row stays as it was. Under the
  inline driver it always does, although `scan-queue.ts:47` says that "runScan
  has already recorded the failure on the row".
- An enqueue that fails after the INSERT, or a process that dies before it,
  leaves a row in `queued` for good, under either driver. Under the inline
  driver a crash of the API process leaves the rows it was working on in
  `queued` or `running`. Nothing in the code finds such rows again.
- If the UPDATE of the website fails, or the worker dies before BullMQ hears of
  the success, a row that said `succeeded` is taken back to `failed` or
  `running`. `ScanContract` allows that, since the code does it.
- A row the pages show as `failed`, at which they stop polling, goes back to
  `running` while attempts are left. `isPending`, "True while the scan can still
  change on its own" (`scan-status-badge.tsx:24`), is false of both.
- A cancellation that falls between the SELECT and the UPDATE to `running` is
  overwritten; `CancelIsKept` keeps those that no run has read past.
- Two runs of one scan, after a lost lock, write under the same keys and to the
  same row; `NoDanglingAsset`, `SettledRowIsHonest` and the contract survive it,
  that the succeeding run reads back its own bytes does not.
- Requests of one user that overlap are all counted before the first has its
  row, and can pass the quota together.

Sessions and accounts:

- `revokeAllForUser` between the claim and the INSERT of a rotation does not
  see the successor, which lives on.
- Failed logins that overlap count once, and one that is late, having read the
  row before the lock, writes `lockedUntil` back to null.
- A callback that ends between the INSERT of the user and that of the link
  leaves an account without a password and without an identity. Its address
  can still be given a password by a reset, or a link by another callback.

Client:

- A refresh that fails on its way, or is refused with 429, is answered like a
  session that is over: the tab logs out although the cookie is good
  (`api.ts:80`, `:101`).
- When the answer of a refresh is lost, or `findUserById` fails after the
  rotation (`routes/auth.ts:105`), the browser keeps the spent token; its next
  refresh reads as reuse, and a logout revokes nothing that is live.
- Two tabs that refresh at once present the same token.
- "The refresh cookie is dead to us either way" (`site-header.tsx:27-28`) does
  not hold when the logout does not arrive: the next load restores the session.
- A login while a refresh is under way is undone in the tab by the late answer
  of the refresh; and after a login in another tab, a tab's next refresh is
  for the new user while the tab shows the old one.

The rest:

- A limiter's command that is sent again can cost two points. The middleware
  answers with the first refusal it meets and not with the longest wait of all
  limiters, as `rate-limit.ts:61-62` has it, and a request refused by a later
  limiter has spent the points of the earlier ones.
- The cap on assets is checked before the body is awaited, so bodies that
  overlap can pass it, and the warning about assets over the cap also counts
  bodies that failed. Two launches at once leave a browser nobody closes.
- Between the lookup that a crawl judges and the one the browser makes, DNS can
  change (`scan-target.ts:172-177`). No property says which address a captured
  page came from; the properties end at what `resolveTarget` was given.
- `isPublicIPv4` refuses the whole of 192.0.0.0/16, 198.51.0.0/16 and
  203.0.0.0/16 where its comments name /24 blocks (`scan-target.ts:108-112`).
- Gatsby's rule asks for the global `___gatsby`, which the crawler does not
  probe. A technology that is implied is reported with the confidence of the
  implication only where no signal of its own matches, so a weak signal of
  its own can make the report less sure than none.

### Bounds

Scans: they share nothing but the worker's slots (keys are prefixed with the
scan id, rows carry it), so one scan is enough for the queue and the run, and
two for what requests share. Two pages tell the content of one attempt from
that of the next; a page has at most two artefacts, so that a run can fail
between them, one of which can be truncated. Two attempts and one stall give up
to three runs, two at the same time after a lost lock. `ScanSettles` checks
liveness and has one run at a time, since locks are kept there; the worker may
die in each of them. `ScanRequests` has a free and a paying user, two hosts
and a limit of one, so the second request is the one in question. Of the
steps of a run that store something and whose failures all go to the same
handler, only the last fails there; the proof has them all.

Tokens: three rows give a login, a rotation and a rotation of the successor, or
two sessions and a rotation; two handlers let a reuse and its revocation race
with a rotation. `MaxTokens` bounds the INSERTs by a guard; when it is reached
the rest of the system goes on. Requests and users are interchangeable, and the
run uses that symmetry (it checks no liveness).

Client: two tabs, two calls in one of them (they share a refresh), two
exchanges (a refresh against a refresh, or against a logout), two tokens and
one kind of mishap per behaviour; a second kind could only excuse more.

Accounts: they meet only at the unique indexes, so one address is enough; two
passwords tell old from new and a third is refused by the policy; two handlers
race every pair of statements; two flows and four profiles give two callbacks
of one identity, and of two. `MaxFailed` is two, so that failures that overlap
and failures in a row come to different counts.

Rate limits: three requests of one user and address under two limiters of one
and two points, so a refusal can come from either; two breaks, so that a
command can be sent twice. Crawler: two crawls for the browser they share; one
page with two assets and a cap of one; two handlers of one URL; two launches.
Pipeline: every signal of every rule alone and beside the weakest signal of
what it implies; addresses at both sides of every border of every block; a
host whose answers alternate between none, a good address, a doubtful one and
both, at any time. Attempts are not counted there.

`CHECK_DEADLOCK FALSE` is set where a behaviour ends: a scan that has settled,
a crawl that is over, a request that is answered.

### Fairness

Liveness is checked under weak fairness of what runs by itself:

- `ScanSettles`: the request handler's own steps; every step of
  a run while its process lives (a crash is never fair); the worker's polling, delayed-job promotion and stalled
  check, which BullMQ does on timers. That a crawl ends is assumed there.
- `Crawl`: the steps of the crawler that end by themselves or by a timeout it
  sets, and, in `FairSpec`, that the page answers. `HungPage` is the same
  without the last, and shows that it is needed.
- `RateLimits`: the loop over the limiters, and that the connection to Redis is
  made again; `RedisOutage` is the same without the latter.

Nothing else is fair: no failure has to happen, and no attempt has to succeed.
`ScanAllFaults`, `ScanRequests`, `TokenRotation`, `ClientSession`,
`AccountRaces` and `ScanPipeline` check safety only.

## Proofs

TLAPS checks the theorems for any sets and any values of the constants that
satisfy the named assumptions: limits are natural numbers, a page has at least
its HTML and no key twice, the table of refresh tokens holds at most
`MaxTokens` rows, a route has at least one limiter and each at least one point,
a profile has the fields of a profile, an order of the rules names every
technology that implies something. The two assumptions on the rules themselves
are facts about `rules.ts` and the crawler's list that TLC evaluates. The bounds of the runs (how many
handlers, crawls, tokens, attempts, deaths of the worker) are any number here.

Each proof module names the parts of its inductive invariant, shows that
`Init` gives them and that every action keeps them, one lemma per action or per
way of writing the state, and then reads the properties off. Many actions keep
a part for the same reason, and those reasons are lemmas: what is live only
narrows, nothing of a run moved, a handler only moved on.

### Scans

`ScanLifecycle_proofs`: `TypeCorrect`, `NoDanglingAssets` and
`SettledRowsAreHonest`, whatever fails. The inductive
invariant adds

- `Books`: how attempts, stalls, started runs, the job's state and the lock's
  holder relate. A job that waits has spent one run on each failure and stall;
  this bounds the runs, without which the tables would be ill-typed;
- `Store`: how far the store has come when a run stands at a step. The row of
  an artefact is written only after its object, and rows `1 .. idx-1` are in;
- `Honesty`: the run that is the witness for a succeeded row is past its crawl,
  so it never captures another page. Without that, a later step of the witness
  could take the evidence away.

The second part of the module goes on to locks and the contract:

- `OneRunHoldsTheLock`, `LockedRunsReadBack`: until a live run loses its lock,
  `Exclusive` (the live run of a job is the holder of its lock and the last one
  started) and `Latest` (nobody wrote over what the last run stored; a run that
  stands before its row finds its own bytes) are inductive. The first is needed
  for the second: another live run would write under the same keys.
- `CancellationsAreKept`, whatever fails: a row is cancelled before any run has
  read it (`Untouched`), and then every run turns away when it reads it.
- `RowKeepsTheContract`: `ScanLifecycle` implements `ScanContract`, whatever
  fails, lost locks and two runs of one scan included. Each step of a run is a
  step of its attempt or a stutter (`WorkIsContracted`); the death of a process
  ends several attempts at once. What it needs of the invariant is that a run
  starts only for a scan that was requested (`Books`), that such a scan has a row
  (`Known`), and that one not yet requested has none (`Untouched`).
- `JobsAndRowsAgree`: `Agreed` adds what a run that is about to end leaves on
  the row. It is an invariant of `ScanNotes` without hypotheses: the exceptions
  are in the property, as notes of what has happened.

`ScanRequests_proofs`: `QuotaIsKept` from `Quota` (a user whose requests never
overlapped has one at most before its INSERT, and once it was counted there is
room for its row), `HostsHaveOneWebsite` from `Hung` (past `upsertWebsite` a
request holds the row of its host, and one that met a conflict has a row to look
up), `RowsAreAttended` from `OneRun` and `Told`
(under the inline driver a scan has one run, and what it leaves at its end is
settled or noted), and `RequestsAreLifecycles`: the composition implements `ScanLifecycle`, so
what is proved there holds of scans that came through the handler.

### Sessions, accounts

`RefreshTokens_proofs`: `TypeCorrect`, `OneHeir`, `OneOwner`, `CleanEnd`.
`CleanEndIsFinal` is not inductive: a rotation under way could insert a
successor. `Closed` adds that no rotation of a cleanly ended family is under
way, which holds because a rotation starts only from a live token. Most steps
only narrow what is live (`NarrowStep`); only a claim, a login and the INSERT
of a successor need an argument of their own. `RotationImplementsSessions` is
the refinement: `Described` says what the mapping reads in a state, and under
it a login is `Open`, a claim `Claim`, the INSERT `Renew`, and every other step,
crashes included, closes the sessions that lost their token or their rotation.

`OAuth_proofs` proves its theorems of `OAuthSpec`, where passwords, links and
callbacks interleave: `TypeCorrect`, `LinksAreSpentOnce`, `LocksAreEarned`,
`NewPasswordsEndSessions`, `IdentitiesAreProven`, `AccountsHaveADoor`, and the
action properties `RejectionsAreFree` and `SignupsNeverReplace`. The work lies
in `StillTrue(h)`: what a handler read before it was interrupted and may still
rely on when it writes (its account is there, its link is of that account, the
failures it counted were made), against every other handler's writes. `Typed`
gives each program counter the record of local variables that goes with it.

### Client

`ClientSession_proofs` proves all of the run's properties for any number of
tabs, calls, exchanges, tokens and mishaps. Its server takes steps of
`RefreshTokens` only (`ServerIsRefreshTokens`), so the theorems of
`RefreshTokens_proofs` hold of it and are used by name. On top of them:

- `Typed` ties the parts together: a handler of the server works for the
  exchange that is on its way to it, a tab's shared refresh is the one it has on
  the network, and who waits for it waits in that tab.
- `NoFalseAlarm`, that no refresh reads as reuse unless something went wrong
  first, needs `Quiet`: until a mishap there is one exchange at most and its tab
  awaits it; every token in play, in the jar or in flight, is live or of a
  session that was ended elsewhere; only the jar's token may be the one that
  the exchange under way has just spent.
- `LogoutWins` rests on an ended session staying ended (`CleanEnd`): the
  families of users who logged out are over and no step brings a token of them
  back into play.
- `TabShowsItsUser`: all the users in play, of the jar, of the exchanges and of
  the tabs, are one (`OneUser`); only a login brings in another, and that is the
  mishap the property names.
- `OutMeansOver`: what a tab that is sent to the login page was told
  (`Refusal`), or that it had no cookie to show (`CookieLess`).

### Limits, crawler, target, detection

`RateLimits_proofs`: `TypeCorrect`, `LimitsAreKept`. `Window` counts: those who
got a point of a window are no more than were counted and no more than the
limiter has; `OnItsWay` says that a request has been settled by every limiter
before the one it stands at.

`Crawler_proofs`: `TypeCorrect`, `CapturesAreUnique` (`CapturedOnce`: a URL is
noted as seen before its body is read, and read by one handler),
`CapIsKept` (`RoomForBody`: without an overlap the one body under way still has
room), `NoContextIsLeft`, and `SpareBrowsersHaveOneCause` (`LaunchesRace`: a
launch that will overwrite a live browser began before it ran).

`ScanPipeline_proofs`: `TargetsAreJudgedRight`, for every IPv4 address and every
first group of an IPv6 address where the run tries the borders. Each reserved
block is reduced to a condition on the first two bytes (`BlocksOfBytes`, by
division of the number the bytes make) and compared with what `isPublicIPv4`
asks (`PublicQuads`); the hexadecimal prefixes of `isPublicIPv6` are compared
with the blocks as numbers (`PublicGroups`). `Judged`, the invariant, says that
every verdict is that of `resolveTarget` on the addresses it was called with,
while the host's answers go on changing; `CrawlsAreJudgedAfresh` follows since
the step that begins a crawl judges the answers of that moment. The proof corrected the property: the /16 networks
that are refused whole are refused for IPv4-mapped addresses too.

`SignalsCount` and `TwoPassesSuffice` say of the engine, for every site however
much it shows, what the run tries signal by signal. After the merge each
technology has one rule with all its sections say (`RulesOfNames`); with
`GlobalsAreProbed`, what that rule finds in the capture is what the site shows
(`HitsAreShown`), which gives `Evidence`, and no visit takes it away. For the
passes, `Closed` says how far they have come: the first visit of a technology
the site shows adds all it brings, so after the first pass only technologies
that were brought can lack something; by `RulesAreShallow` what those bring
brings nothing itself, and the second pass, in any order, leaves nothing out.
That is the comment's "one extra pass covers the depth the rule set actually
has", and a rule set that is one step deeper would make TLC refuse the
assumption. `Founded` says that nothing is made up.

### Model-checked only

- The liveness properties: `EnqueuedScanSettles`,
  `EveryRequestAnswered`, `CrawlEnds` (fairness and ENABLED are out of the
  prover's reach).

Every other property of a passing run is stated by a theorem. `ScanSettles`
leaves out lost locks to keep its liveness check small; that the contract
survives them is proved.

## Plan

Done: every component that keeps state and whose steps can interleave or fail,
and a theorem for every safety property and refinement a run checks. Left:
whatever a change of the code asks for.

## Not modelled

- Scan reading (list, single scan, assets): queries; what a poller may rely on
  is `ScanContract`.
- Patterns, versions, categories and evidence of the rules, `derive.ts`, and
  `lookupDnsRecords`: string matching over HTML and records. The components
  Detection and Address validation are *partly* modelled for that reason.
- Password policy and breach check: a chain of checks over one string and one
  call that fails open; `Accounts` has passwords the policy refuses.
- Object storage: `put` and `get` over a disk or S3; `ScanLifecycle` models
  what a put leaves.
- Access tokens and hashing: library calls. `ClientSession` has an access token
  as a number that expires.
- E-mail: one call per message. Configuration, database set-up, migrations,
  wiring, error formatting, pages, developer scripts: set-up and rendering; the
  values that matter are CONSTANTS.
- Of BullMQ and Redis only what this code relies on; the order in which waiting
  jobs are taken is left open.
