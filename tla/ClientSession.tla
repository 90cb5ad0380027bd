----------------------------- MODULE ClientSession -----------------------------
(***************************************************************************)
(* The browser's side of a session (frontend lib/api.ts, stores/auth.ts,    *)
(* components/providers.tsx and site-header.tsx) against the rotation of    *)
(* refresh tokens.  The tabs of a browser share its cookie jar; each tab    *)
(* keeps an access token, the user it shows and at most one refresh under   *)
(* way, which all its callers share.  Requests and answers may be lost.     *)
(*                                                                          *)
(* Refresh tokens are numbered as in RefreshTokens.  Each login and each    *)
(* rotation also makes an access token, which gets the same number.         *)
(* Refresh tokens do not reach their expiry here.                           *)
(***************************************************************************)
EXTENDS Naturals, Sequences, FiniteSets

CONSTANTS
  Users,
  NoUser,
  Tabs,
  NoTab,
  Calls,         \* calls of request() that the pages can have under way
  TabOf,         \* the tab each of them belongs to
  MaxExchanges,  \* bound: refreshes and logouts under way at once
  MaxTokens,     \* bound: logins and rotations in one behaviour
  MaxExcuses     \* bound: kinds of mishap in one behaviour

ASSUME TabOfTyped == TabOf \in [Calls -> Tabs]
ASSUME NoneIsNone == NoUser \notin Users /\ NoTab \notin Tabs
ASSUME ClientBoundsTyped == MaxExchanges \in Nat /\ MaxTokens \in Nat /\ MaxExcuses \in Nat

Exchanges == 1 .. MaxExchanges
Numbers == 0 .. MaxTokens

VARIABLES
  rows, expired, pc, tok, ended,  \* the server, see RefreshTokens
  stale,      \* access tokens past their expiry
  jar,        \* the refresh cookie, 0 without one
  net,        \* what is under way on the network to the cookie's routes
  access,     \* accessToken of each tab, 0 while null
  user,       \* the user each tab shows
  restoring,  \* tabs whose restoreSession() has not returned
  inFlight,   \* refreshInFlight of each tab, 0 while null
  call,       \* where each call stands
  bearer,     \* the access token it was last sent with
  out,        \* history: sessions that were logged out, by their family
  excuse      \* history: what happened that the client cannot help

R == INSTANCE RefreshTokens WITH Requests <- Exchanges

serverVars == <<rows, expired, pc, tok, ended>>
tabVars == <<access, user, restoring, inFlight>>
callVars == <<call, bearer>>
vars == <<serverVars, stale, jar, net, tabVars, callVars, out, excuse>>

Exchange == [kind : {"none", "refresh", "logout"}, tab : Tabs \cup {NoTab}, carried : Numbers,
             answer : {"pending", "renewed", "ended", "refused"}, token : Numbers]
NoExchange == [kind |-> "none", tab |-> NoTab, carried |-> 0, answer |-> "pending", token |-> 0]

(* A tab's refresh is the one on the network, and a caller that waits has   *)
(* one to wait for: none is left behind when the refresh settles.           *)
TypeOK ==
  /\ R!TypeOK
  /\ stale \subseteq DOMAIN rows
  /\ jar \in 0 .. Len(rows)
  /\ net \in [Exchanges -> Exchange]
  /\ access \in [Tabs -> Numbers] /\ user \in [Tabs -> Users \cup {NoUser}]
  /\ restoring \subseteq Tabs
  /\ inFlight \in [Tabs -> 0 .. MaxExchanges]
  /\ \A t \in Tabs : inFlight[t] # 0 =>
       net[inFlight[t]].kind = "refresh" /\ net[inFlight[t]].tab = t
  /\ call \in [Calls -> {"idle", "sent", "waiting", "retried"}]
  /\ \A c \in Calls : call[c] = "waiting" => inFlight[TabOf[c]] # 0
  /\ bearer \in [Calls -> Numbers]
  /\ out \subseteq DOMAIN rows
  /\ excuse \subseteq {"lost", "refused", "overlap", "switched", "elsewhere"}

Init ==
  /\ R!Init
  /\ stale = {} /\ jar = 0
  /\ net = [x \in Exchanges |-> NoExchange]
  /\ access = [t \in Tabs |-> 0] /\ user = [t \in Tabs |-> NoUser]
  /\ restoring = {}
  /\ inFlight = [t \in Tabs |-> 0]
  /\ call = [c \in Calls |-> "idle"] /\ bearer = [c \in Calls |-> 0]
  /\ out = {} /\ excuse = {}

Valid(n) == n # 0 /\ n \notin stale
Busy == {x \in Exchanges : net[x].kind # "none"}
CallsOf(t) == {c \in Calls : TabOf[c] = t}
Waiting(t) == {c \in CallsOf(t) : call[c] = "waiting"}

Excused(why) == excuse' = excuse \cup why /\ Cardinality(excuse') <= MaxExcuses
When(condition, why) == IF condition THEN {why} ELSE {}

-----------------------------------------------------------------------------
(* The client sends.                                                        *)

(* A request to one of the routes that read the cookie.  It overlaps with   *)
(* another, unless both are refreshes of the same tab.                      *)
Outgoing(kind, t) ==
  [kind |-> kind, tab |-> t, carried |-> jar, answer |-> "pending", token |-> 0]
Send(x, kind, t) ==
  /\ net' = [net EXCEPT ![x] = Outgoing(kind, t)]
  /\ Excused(When(\E y \in Busy : net[y].tab # t \/ "logout" \in {kind, net[y].kind}, "overlap"))

Free == CHOOSE x \in Exchanges \ Busy : TRUE
SendFree(kind, t) == Busy # Exchanges /\ Send(Free, kind, t)
SendRefresh(t) == SendFree("refresh", t) /\ inFlight' = [inFlight EXCEPT ![t] = Free]

(* Slip: every caller sends a refresh of its own.                           *)
RefreshEach(t) == SendRefresh(t)

(* refreshOnce: joins the refresh under way, or sends one.                  *)
refreshOnce(t) ==
  IF inFlight[t] # 0 THEN UNCHANGED <<net, inFlight, excuse>>
  ELSE SendRefresh(t)

(* A tab is opened or reloaded: what it held in memory is gone, what it had *)
(* under way is abandoned, and restore() asks for the session.              *)
Mount(t) ==
  /\ Busy # Exchanges
  /\ LET left == {y \in Busy : net[y].tab = t}
     IN /\ net' = [y \in Exchanges |->
             IF y = Free THEN Outgoing("refresh", t)
             ELSE IF y \in left THEN [net[y] EXCEPT !.tab = NoTab] ELSE net[y]]
        /\ Excused(When(left # {}, "lost") \cup When(Busy # {}, "overlap"))
        /\ inFlight' = [inFlight EXCEPT ![t] = Free]
  /\ access' = [access EXCEPT ![t] = 0]
  /\ user' = [user EXCEPT ![t] = NoUser]
  /\ restoring' = restoring \cup {t}
  /\ call' = [c \in Calls |-> IF c \in CallsOf(t) THEN "idle" ELSE call[c]]
  /\ bearer' = [c \in Calls |-> IF c \in CallsOf(t) THEN 0 ELSE bearer[c]]
  /\ UNCHANGED <<serverVars, stale, jar, out>>

(* signOut in the site header.                                              *)
SignOut(t) ==
  /\ user[t] # NoUser
  /\ ~\E x \in Busy : net[x].kind = "logout" /\ net[x].tab = t
  /\ SendFree("logout", t)
  /\ UNCHANGED <<serverVars, stale, jar, tabVars, callVars, out>>

(* request: a page that shows a user calls the API.                         *)
Ask(c) ==
  /\ call[c] = "idle" /\ user[TabOf[c]] # NoUser
  /\ call' = [call EXCEPT ![c] = "sent"]
  /\ bearer' = [bearer EXCEPT ![c] = access[TabOf[c]]]
  /\ UNCHANGED <<serverVars, stale, jar, net, tabVars, out, excuse>>

(* Slip: the login keeps the access token that was there.                   *)
setSessionKeepsToken(t, u) ==
  /\ access' = [access EXCEPT ![t] = IF @ = 0 THEN Len(rows') ELSE @]
  /\ user' = [user EXCEPT ![t] = u]
setSession(t, u) ==
  /\ access' = [access EXCEPT ![t] = Len(rows')]
  /\ user' = [user EXCEPT ![t] = u]

(* A login and its answer, in one step: a new session replaces the one in   *)
(* the jar.                                                                 *)
Login(t, u) ==
  /\ R!Open(u)
  /\ jar' = Len(rows')
  /\ setSession(t, u)
  /\ Excused(When(Busy # {} \/ \E s \in Tabs \ {t} : user[s] \notin {u, NoUser}, "switched"))
  /\ UNCHANGED <<stale, net, restoring, inFlight, callVars, out>>

-----------------------------------------------------------------------------
(* The server answers.                                                      *)

Pending(x, kind) == net[x].kind = kind /\ net[x].answer = "pending"
Answer(x, a, n) == net' = [net EXCEPT ![x].answer = a, ![x].token = n]

(* 429 from the limiter, which leaves the cookie alone; and 401 without one. *)
RefreshRefused(x) ==
  /\ Pending(x, "refresh") /\ pc[x] = "idle"
  /\ Answer(x, "refused", 0)
  /\ Excused(When(net[x].carried # 0, "refused"))
  /\ UNCHANGED <<serverVars, stale, jar, tabVars, callVars, out>>

(* The statements of rotateRefreshToken, each of which may fail.  Every     *)
(* failure clears the cookie.                                               *)
RotationStep(x) ==
  /\ Pending(x, "refresh") /\ net[x].carried # 0
  /\ R!Refresh(x, net[x].carried) \/ R!Lookup(x) \/ R!Kill(x)
  /\ IF pc'[x] = "idle" THEN Answer(x, "ended", 0) ELSE UNCHANGED net
  /\ UNCHANGED <<stale, jar, tabVars, callVars, out, excuse>>
RotationFails(x) ==
  /\ Pending(x, "refresh") /\ net[x].carried # 0
  /\ R!CutOff(x)
  /\ Answer(x, "ended", 0)
  /\ UNCHANGED <<stale, jar, tabVars, callVars, out, excuse>>

(* The successor is inserted, then the account is read: the answer carries  *)
(* the successor, or clears the cookie of an account that is not active, or *)
(* says nothing of the cookie when the read fails.                          *)
RotationDone(x) ==
  /\ Pending(x, "refresh")
  /\ R!Issue(x)
  /\ \/ Answer(x, "renewed", Len(rows')) /\ UNCHANGED excuse
     \/ Answer(x, "ended", 0) /\ UNCHANGED excuse
     \/ Answer(x, "refused", 0) /\ Excused({"lost"})
  /\ UNCHANGED <<stale, jar, tabVars, callVars, out>>

(* Slip: the logout clears the cookie and leaves the row.                   *)
LogoutOfCookieOnly(x) ==
  /\ Pending(x, "logout")
  /\ Answer(x, "ended", 0)
  /\ UNCHANGED <<serverVars, stale, jar, tabVars, callVars, out, excuse>>

(* POST /logout: the row is revoked if it is live, and the cookie cleared.  *)
Logout(x) ==
  /\ Pending(x, "logout")
  /\ IF net[x].carried # 0 /\ R!Live(net[x].carried)
       THEN R!RevokeOne(net[x].carried) ELSE UNCHANGED serverVars
  /\ Answer(x, "ended", 0)
  /\ UNCHANGED <<stale, jar, tabVars, callVars, out, excuse>>
LogoutFails(x) ==
  /\ Pending(x, "logout")
  /\ Answer(x, "refused", 0)
  /\ Excused({"refused"})
  /\ UNCHANGED <<serverVars, stale, jar, tabVars, callVars, out>>

Serve(x) ==
  \/ RefreshRefused(x) \/ RotationStep(x) \/ RotationFails(x) \/ RotationDone(x)
  \/ Logout(x) \/ LogoutFails(x)

-----------------------------------------------------------------------------
(* The client receives.                                                     *)

(* clear() of the store, for tab t.                                         *)
clear(t) ==
  /\ access' = [access EXCEPT ![t] = 0]
  /\ user' = [user EXCEPT ![t] = NoUser]

Release(t, label, n) ==
  /\ call' = [c \in Calls |-> IF c \in Waiting(t) THEN label ELSE call[c]]
  /\ bearer' = [c \in Calls |-> IF c \in Waiting(t) THEN n ELSE bearer[c]]

Settled(t) ==
  /\ restoring' = restoring \ {t}
  /\ inFlight' = [inFlight EXCEPT ![t] = 0]

(* The refresh worked: the callers send their requests again, and a restore *)
(* shows the user of the answer.                                            *)
Renewed(t, n) ==
  /\ access' = [access EXCEPT ![t] = n]
  /\ user' = IF t \in restoring THEN [user EXCEPT ![t] = rows[n].user] ELSE user
  /\ Release(t, "retried", n)
  /\ Settled(t)

(* It did not: the callers lose the session, whatever the reason.  A restore *)
(* shows nobody, and keeps an access token if it heard nothing.             *)
NotRenewed(t, heard) ==
  /\ IF heard \/ Waiting(t) # {} THEN clear(t)
     ELSE user' = [user EXCEPT ![t] = NoUser] /\ UNCHANGED access
  /\ Release(t, "idle", 0)
  /\ Settled(t)

Forget(x) == net' = [net EXCEPT ![x] = NoExchange]

(* An answer arrives, with what it does to the cookie.  A logout clears the *)
(* tab whatever the answer is.                                              *)
Deliver(x) ==
  LET e == net[x] IN
  /\ x \in Busy /\ e.tab # NoTab /\ e.answer # "pending"
  /\ jar' = IF e.answer = "renewed" THEN e.token ELSE IF e.answer = "ended" THEN 0 ELSE jar
  /\ \/ /\ e.kind = "refresh"
        /\ IF e.answer = "renewed" THEN Renewed(e.tab, e.token) ELSE NotRenewed(e.tab, TRUE)
        /\ UNCHANGED out
     \/ /\ e.kind = "logout"
        /\ clear(e.tab)
        /\ out' = IF e.answer = "ended" /\ e.carried # 0
                    THEN out \cup {rows[e.carried].family} ELSE out
        /\ UNCHANGED <<restoring, inFlight, callVars>>
  /\ Forget(x)
  /\ UNCHANGED <<serverVars, stale, excuse>>

(* The connection fails: for the client it is over; the server, which may   *)
(* have the request, goes on with it.                                       *)
ConnectionFails(x) ==
  LET e == net[x] IN
  /\ x \in Busy /\ e.tab # NoTab
  /\ \/ e.kind = "refresh" /\ NotRenewed(e.tab, FALSE)
     \/ e.kind = "logout" /\ clear(e.tab) /\ UNCHANGED <<restoring, inFlight, callVars>>
  /\ net' = [net EXCEPT ![x].tab = NoTab]
  /\ Excused({"lost"})
  /\ UNCHANGED <<serverVars, stale, jar, out>>

(* Nobody waits for the answer, or the request never arrived.               *)
Discard(x) ==
  /\ x \in Busy /\ net[x].tab = NoTab
  /\ net[x].answer # "pending" \/ pc[x] = "idle"
  /\ Forget(x)
  /\ UNCHANGED <<serverVars, stale, jar, tabVars, callVars, out, excuse>>

-----------------------------------------------------------------------------
(* Calls of the API come back.                                              *)

Back(c) == call' = [call EXCEPT ![c] = "idle"] /\ bearer' = [bearer EXCEPT ![c] = 0]

Accepted(c) ==
  /\ call[c] \in {"sent", "retried"} /\ Valid(bearer[c])
  /\ Back(c)
  /\ UNCHANGED <<serverVars, stale, jar, net, tabVars, out, excuse>>

(* 401 at the first try: the shared refresh.                                *)
Rejected(c) ==
  /\ call[c] = "sent" /\ ~Valid(bearer[c])
  /\ refreshOnce(TabOf[c])
  /\ call' = [call EXCEPT ![c] = "waiting"] /\ bearer' = [bearer EXCEPT ![c] = 0]
  /\ UNCHANGED <<serverVars, stale, jar, access, user, restoring, out>>

(* Slip: a second 401 ends the session too.                                 *)
RejectedAgainEnds(c) ==
  /\ call[c] = "retried" /\ ~Valid(bearer[c])
  /\ Back(c)
  /\ clear(TabOf[c])
  /\ UNCHANGED <<serverVars, stale, jar, net, restoring, inFlight, out, excuse>>

(* 401 at the second: an error for the caller, no more.                     *)
RejectedAgain(c) ==
  /\ call[c] = "retried" /\ ~Valid(bearer[c])
  /\ Back(c)
  /\ UNCHANGED <<serverVars, stale, jar, net, tabVars, out, excuse>>

CallFails(c) ==
  /\ call[c] \in {"sent", "retried"}
  /\ Back(c)
  /\ UNCHANGED <<serverVars, stale, jar, net, tabVars, out, excuse>>

-----------------------------------------------------------------------------
(* The environment.                                                         *)

(* An access token expires while somebody holds it.                         *)
AccessExpires(n) ==
  /\ n \in ({access[t] : t \in Tabs} \cup {bearer[c] : c \in Calls}) \ stale
  /\ n # 0
  /\ stale' = stale \cup {n}
  /\ UNCHANGED <<serverVars, jar, net, tabVars, callVars, out, excuse>>

(* The session is ended from another device: that session alone, or all of  *)
(* the user by a password reset.                                            *)
EndedElsewhere ==
  /\ (\E t \in DOMAIN rows : R!RevokeOne(t)) \/ (\E u \in Users : rows # <<>> /\ R!EndAll(u))
  /\ Excused({"elsewhere"})
  /\ UNCHANGED <<stale, jar, net, tabVars, callVars, out>>

-----------------------------------------------------------------------------
(* The specification.                                                       *)

ExchangeStep(x) == Serve(x) \/ Deliver(x) \/ ConnectionFails(x) \/ Discard(x)
CallStep(c) == Accepted(c) \/ Rejected(c) \/ RejectedAgain(c) \/ CallFails(c)

Next ==
  \/ \E x \in Exchanges : ExchangeStep(x)
  \/ \E c \in Calls : Ask(c) \/ CallStep(c)
  \/ \E t \in Tabs : Mount(t) \/ SignOut(t) \/ \E u \in Users : Login(t, u)
  \/ \E n \in Numbers : AccessExpires(n)
  \/ EndedElsewhere

Spec == Init /\ [][Next]_vars

-----------------------------------------------------------------------------
(* Properties.                                                              *)

(* The client never brings reuse detection down on its own user: a token is *)
(* only presented twice when an answer was lost on the way or came without  *)
(* the successor, when two tabs refresh at the same time, or after the      *)
(* session was ended on another device.                                     *)
NoFalseAlarm ==
  (\E x \in Exchanges : pc[x] = "kill") =>
    excuse \cap {"lost", "overlap", "elsewhere"} # {}

(* A tab that turns to the login page by itself has no session left to      *)
(* return to, unless the refresh was refused or failed on its way, or the   *)
(* user logged in while it was.                                             *)
SessionIsOver == jar = 0 \/ ~R!Live(jar)
OutMeansOver ==
  [][\A t \in Tabs :
       user[t] # NoUser /\ user'[t] = NoUser /\ t \notin restoring'
         /\ ~(\E x \in Busy : net[x].kind = "logout" /\ net[x].tab = t)
       => SessionIsOver' \/ excuse' \ {"elsewhere"} # {}]_vars

(* Who has logged out stays out: no token of the session is live, unless a  *)
(* refresh was under way at the same time or the browser never got the      *)
(* successor, so that the logout names an older token.                      *)
LogoutWins ==
  excuse \cap {"lost", "overlap"} # {} \/ \A f \in out : R!LiveTokens(f) = {}

(* A tab shows the user it acts for, unless somebody else logged in in      *)
(* another tab or while an answer was under way.                            *)
TabShowsItsUser ==
  \A t \in Tabs : user[t] # NoUser /\ access[t] # 0 /\ "switched" \notin excuse
    => rows[access[t]].user = user[t]
=============================================================================
