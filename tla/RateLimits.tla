------------------------------ MODULE RateLimits ------------------------------
(***************************************************************************)
(* The middleware that rateLimit builds for a route: its limiters are asked *)
(* one after the other, each for a point under the key the request has for  *)
(* it.  Counters live in Redis for the length of a window.  The connection  *)
(* of lib/redis.ts holds commands back while Redis is away and sends those  *)
(* again whose reply it missed (maxRetriesPerRequest: null).                *)
(***************************************************************************)
EXTENDS Naturals, Sequences, FiniteSets

CONSTANTS
  Requests,         \* requests to the route
  Keys,             \* addresses, e-mail addresses, users
  NoKey,            \* the request carries nothing to key on
  Specs,            \* the limiters of the route
  RateLimitEnabled, \* env.RATE_LIMIT_ENABLED
  MaxDrops          \* bound: how often the connection breaks

Limiters == DOMAIN Specs
By == {"ip", "email", "user", "refresh_user"}

ASSUME SpecsTyped ==
  /\ Specs \in Seq([points : Nat \ {0}, by : By]) /\ Specs # <<>>
  /\ NoKey \notin Keys
  /\ RateLimitEnabled \in BOOLEAN
  /\ MaxDrops \in Nat

VARIABLES
  at,     \* where a request stands
  next,   \* the limiter it comes to
  keys,   \* what it can be keyed by, for each limiter
  used,   \* Redis: points counted in the window of a limiter and key
  redis,  \* "up" or "down"
  drops,  \* connections broken so far
  took,   \* history: requests that got a point in the window
  passed, \* history: the limiters that gave a request a point
  open    \* history: requests let through because Redis answered an error

vars == <<at, next, keys, used, redis, drops, took, passed, open>>

Answers == {"admitted", "refused", "error"}
Answered(r) == at[r] \in Answers

TypeOK ==
  /\ at \in [Requests -> {"new", "resolve", "sent"} \cup Answers]
  /\ next \in [Requests -> Limiters]
  /\ keys \in [Requests -> [Limiters -> Keys \cup {NoKey}]]
  /\ used \in [Limiters -> [Keys -> Nat]]
  /\ redis \in {"up", "down"}
  /\ drops \in 0 .. MaxDrops
  /\ took \in [Limiters -> [Keys -> SUBSET Requests]]
  /\ passed \in [Requests -> SUBSET Limiters]
  /\ open \subseteq Requests

Init ==
  /\ at = [r \in Requests |-> "new"]
  /\ next = [r \in Requests |-> 1]
  /\ keys = [r \in Requests |-> [i \in Limiters |-> NoKey]]
  /\ used = [i \in Limiters |-> [k \in Keys |-> 0]]
  /\ redis = "up"
  /\ drops = 0
  /\ took = [i \in Limiters |-> [k \in Keys |-> {}]]
  /\ passed = [r \in Requests |-> {}]
  /\ open = {}

Key(r) == keys[r][next[r]]
Go(r, label) == at' = [at EXCEPT ![r] = label]

-----------------------------------------------------------------------------
(* The loop over the limiters.                                              *)

(* resolveKey: every request has an address; an e-mail address, a user or   *)
(* the owner of a refresh cookie may be missing.                            *)
KeyChoices == {f \in [Limiters -> Keys \cup {NoKey}] :
                 \A i \in Limiters : Specs[i].by = "ip" => f[i] # NoKey}

Arrive(r) ==
  /\ at[r] = "new"
  /\ \E f \in KeyChoices : keys' = [keys EXCEPT ![r] = f]
  /\ Go(r, IF RateLimitEnabled THEN "resolve" ELSE "admitted")
  /\ UNCHANGED <<next, used, redis, drops, took, passed, open>>

NextLimiter(r) ==
  IF next[r] = Len(Specs)
    THEN Go(r, "admitted") /\ UNCHANGED next
    ELSE Go(r, "resolve") /\ next' = [next EXCEPT ![r] = @ + 1]

(* Slip: the loop goes round without the next limiter.                      *)
SkipAgain(r) ==
  /\ at[r] = "resolve" /\ Key(r) = NoKey
  /\ Go(r, "resolve") /\ UNCHANGED <<keys, next, used, redis, drops, took, passed, open>>

(* Nothing to key on: this limiter does not count the request.              *)
Skip(r) ==
  /\ at[r] = "resolve" /\ Key(r) = NoKey
  /\ NextLimiter(r)
  /\ UNCHANGED <<keys, used, redis, drops, took, passed, open>>

Send(r) ==
  /\ at[r] = "resolve" /\ Key(r) # NoKey
  /\ Go(r, "sent")
  /\ UNCHANGED <<next, keys, used, redis, drops, took, passed, open>>

(* The owner of the cookie is a query; it may fail, outside of the try.     *)
ResolveFails(r) ==
  /\ at[r] = "resolve" /\ Specs[next[r]].by = "refresh_user"
  /\ Go(r, "error")
  /\ UNCHANGED <<next, keys, used, redis, drops, took, passed, open>>

CountPoint(r) == used' = [used EXCEPT ![next[r]][Key(r)] = @ + 1]
Point(r) ==
  /\ took' = [took EXCEPT ![next[r]][Key(r)] = @ \cup {r}]
  /\ passed' = [passed EXCEPT ![r] = @ \cup {next[r]}]

(* Slip: one point too many.                                                *)
ConsumeOneMore(r) ==
  /\ at[r] = "sent" /\ redis = "up"
  /\ CountPoint(r)
  /\ IF used[next[r]][Key(r)] <= Specs[next[r]].points
       THEN NextLimiter(r) /\ Point(r)
       ELSE Go(r, "refused") /\ UNCHANGED <<next, took, passed>>
  /\ UNCHANGED <<keys, redis, drops, open>>

(* consume counts the request whatever the answer is; the first limiter to  *)
(* refuse ends it, with its own wait, and the rest are not asked.           *)
Consume(r) ==
  /\ at[r] = "sent" /\ redis = "up"
  /\ CountPoint(r)
  /\ IF used[next[r]][Key(r)] < Specs[next[r]].points
       THEN NextLimiter(r) /\ Point(r)
       ELSE Go(r, "refused") /\ UNCHANGED <<next, took, passed>>
  /\ UNCHANGED <<keys, redis, drops, open>>

(* Redis answers an error: the request is let through, unasked limiters     *)
(* included.                                                                *)
FailOpen(r) ==
  /\ at[r] = "sent" /\ redis = "up"
  /\ Go(r, "admitted")
  /\ open' = open \cup {r}
  /\ UNCHANGED <<next, keys, used, redis, drops, took, passed>>

-----------------------------------------------------------------------------
(* Redis.                                                                   *)

(* The connection breaks; commands wait for the next one.                   *)
Break == redis = "up" /\ drops < MaxDrops /\ redis' = "down" /\ drops' = drops + 1

GoDown ==
  /\ Break
  /\ UNCHANGED <<at, next, keys, used, took, passed, open>>

(* It breaks with a command counted and not answered, which is sent again.  *)
ReplyLost(r) ==
  /\ at[r] = "sent"
  /\ Break
  /\ CountPoint(r)
  /\ UNCHANGED <<at, next, keys, took, passed, open>>

Reconnect ==
  /\ redis = "down"
  /\ redis' = "up"
  /\ UNCHANGED <<at, next, keys, used, drops, took, passed, open>>

(* A window is over when its key expires.                                   *)
WindowEnds(i, k) ==
  /\ used[i][k] > 0
  /\ used' = [used EXCEPT ![i][k] = 0]
  /\ took' = [took EXCEPT ![i][k] = {}]
  /\ UNCHANGED <<at, next, keys, redis, drops, passed, open>>

-----------------------------------------------------------------------------
(* The specification.                                                       *)

Step(r) == Skip(r) \/ Send(r) \/ Consume(r)
Fails(r) == ResolveFails(r) \/ FailOpen(r)

Next ==
  \/ \E r \in Requests : Arrive(r) \/ Step(r) \/ Fails(r) \/ ReplyLost(r)
  \/ \E i \in Limiters, k \in Keys : WindowEnds(i, k)
  \/ GoDown \/ Reconnect

Spec == Init /\ [][Next]_vars

(* The loop goes on, no failure has to happen; in FairSpec Redis comes back *)
(* as well.                                                                 *)
OutageSpec == Spec /\ \A r \in Requests : WF_vars(Step(r))
FairSpec == OutageSpec /\ WF_vars(Reconnect)

-----------------------------------------------------------------------------
(* Properties.                                                              *)

(* All specs must pass: a request goes on to its handler only with a point  *)
(* from every limiter it has a key for, and a window gives out no more      *)
(* points than it has, whatever runs at once, whatever is sent twice, and   *)
(* although Redis errors let requests through.                              *)
LimitsHold ==
  /\ \A i \in Limiters, k \in Keys :
       Cardinality({r \in took[i][k] : at[r] = "admitted"}) <= Specs[i].points
  /\ \A r \in Requests : at[r] = "admitted" /\ RateLimitEnabled /\ r \notin open =>
       \A i \in Limiters : i \in passed[r] \/ keys[r][i] = NoKey

(* Every request is answered in the end when Redis comes back.              *)
EveryRequestAnswered == \A r \in Requests : at[r] # "new" ~> Answered(r)

(* "a Redis outage must not take authentication down with it": a request is *)
(* answered also while Redis stays away.                                    *)
OutageLocksNobodyOut ==
  \A r \in Requests : at[r] # "new" /\ redis = "down" ~> Answered(r)
=============================================================================
