----------------------------- MODULE OAuth_proofs -----------------------------
(***************************************************************************)
(* What holds of accounts, their sessions, links and identities for any     *)
(* addresses, passwords and profiles, however many requests and callbacks   *)
(* interleave and wherever they are cut off.                                *)
(***************************************************************************)
EXTENDS OAuth, TLAPS

(* What a handler can hold, by what it does next.                           *)
Creating == [at : {"create"}, who : Emails, pw : Passwords]
Mailing == [at : {"mail"}, who : Emails, purpose : Purposes]
Failing == [at : {"fail"}, who : Emails, fails : 0 .. MaxFailed - 1]
Entering == [at : {"welcome", "session"}, who : Emails, pw : Passwords]
Verifying == [at : {"setVerified"}, who : Emails]
Consuming == [at : {"consume"}, who : Emails, pw : Passwords \ Weak, link : Links]
Setting == [at : {"setPassword", "change"}, who : Emails, pw : Passwords \ Weak]
Revoking == [at : {"revoke"}, who : Emails, next : {Idle} \cup Entering]
Knocking == [at : {"findLink", "findEmail", "insertUser", "insertLink"}, profile : Profiles]
Linking == [at : {"link", "patch"}, who : Emails, profile : Profiles, patch : BOOLEAN]
Issuing == [at : {"issue"}, who : Emails, profile : Profiles]
Work == {Idle} \cup Creating \cup Mailing \cup Failing \cup Entering \cup Verifying
          \cup Consuming \cup Setting \cup Revoking \cup Knocking \cup Linking \cup Issuing

OAuthRow == [provider : Providers, account : STRING, who : Emails,
             verified : BOOLEAN, own : BOOLEAN]

Typed ==
  /\ users \in [Emails -> User]
  /\ links \in Seq(Link) /\ Len(links) <= MaxLinks
  /\ req \in [Handlers -> Work]
  /\ sessions \in [Emails -> SUBSET (Passwords \cup {NoPassword})]
  /\ redeemed \in [Links -> Nat]
  /\ failures \in [Emails -> 0 .. MaxFailed]
  /\ overtaken \in [Emails -> BOOLEAN]
  /\ flows \in [Flows -> Providers \cup {"new", "gone"}]
  /\ oauth \subseteq OAuthRow
  /\ halved \subseteq Emails

(* What a handler learnt earlier and is still true when it acts on it.      *)
Named == {"mail", "fail", "welcome", "session", "consume", "setVerified", "setPassword",
          "change", "revoke", "link", "patch", "issue"}
StillTrue(h) ==
  /\ req[h].at \in Named => users[req[h].who].there
  /\ req[h].at = "revoke" /\ req[h].next # Idle =>
       req[h].next.at = "session" /\ req[h].next.who = req[h].who
  /\ req[h].at \in {"findEmail", "insertUser", "insertLink"} => req[h].profile.email \in Emails
  /\ req[h].at = "insertLink" => users[req[h].profile.email].there
  /\ req[h].at = "link" => req[h].profile.emailVerified
  /\ req[h].at = "consume" =>
       req[h].link \in DOMAIN links /\ links[req[h].link].who = req[h].who
  /\ req[h].at = "fail" => req[h].fails <= failures[req[h].who]

(* Links and identities are of accounts, and an account that is not there   *)
(* has no password.                                                         *)
OfAccounts ==
  /\ \A e \in Emails : ~users[e].there => users[e].password = NoPassword
  /\ \A t \in DOMAIN links : users[links[t].who].there
  /\ \A l \in oauth : users[l.who].there

Settled == Typed /\ OfAccounts /\ \A h \in Handlers : StillTrue(h)

(* LinkSpentOnce, with the links not made yet.                              *)
Spent == \A t \in Links :
  redeemed[t] = IF t \in DOMAIN links /\ links[t].state = "used" THEN 1 ELSE 0

IInv ==
  /\ Settled /\ Spent
  /\ LockNeedsFailures /\ OldSessionsEnd /\ IdentityIsProven /\ EveryAccountHasADoor

-----------------------------------------------------------------------------
USE DEF vars, oauthVars, allVars, Move, Rest

LEMMA WorkKinds ==
  ASSUME NEW r \in Work
  PROVE  /\ r.at = "create" => r \in Creating
         /\ r.at = "mail" => r \in Mailing
         /\ r.at = "fail" => r \in Failing
         /\ r.at \in {"welcome", "session"} => r \in Entering
         /\ r.at = "setVerified" => r \in Verifying
         /\ r.at = "consume" => r \in Consuming
         /\ r.at \in {"setPassword", "change"} => r \in Setting
         /\ r.at = "revoke" => r \in Revoking
         /\ r.at \in {"findLink", "findEmail", "insertUser", "insertLink"} => r \in Knocking
         /\ r.at \in {"link", "patch"} => r \in Linking
         /\ r.at = "issue" => r \in Issuing
         /\ r.at \in Steps \cup Callback
         /\ r.at = "idle" => r = Idle
<1>1. CASE r = Idle
  BY <1>1 DEF Idle, Steps
<1>2. CASE r \in Creating \cup Mailing \cup Failing \cup Entering
  BY <1>2 DEF Creating, Mailing, Failing, Entering, Steps
<1>3. CASE r \in Verifying \cup Consuming \cup Setting \cup Revoking
  BY <1>3 DEF Verifying, Consuming, Setting, Revoking, Steps
<1>4. CASE r \in Knocking \cup Linking \cup Issuing
  BY <1>4 DEF Knocking, Linking, Issuing, Callback
<1>5. QED
  BY <1>1, <1>2, <1>3, <1>4 DEF Work

LEMMA Becomes ==
  ASSUME req \in [Handlers -> Work], NEW h \in Handlers, NEW w, Become(h, w)
  PROVE  /\ req'[h] = w
         /\ \A g \in Handlers : g # h => req'[g] = req[g]
         /\ w \in Work => req' \in [Handlers -> Work]
BY DEF Become

LEMMA ProfileTyped ==
  ASSUME NEW p \in Profiles
  PROVE  /\ p.provider \in Providers /\ p.email \in Emails \cup {NoEmail}
         /\ p.emailVerified \in BOOLEAN /\ p.account \in STRING
BY ProfilesTyped DEF Profile

LEMMA NextCases ==
  ASSUME [OAuthNext]_allVars
  PROVE  \/ \E h \in Handlers, e \in Emails, p \in Passwords :
              (Signup(h, e, p) \/ Login(h, e, p) \/ Change(h, e, p)) /\ UNCHANGED oauthVars
         \/ \E h \in Handlers, e \in Emails, purpose \in Purposes :
              AskLink(h, e, purpose) /\ UNCHANGED oauthVars
         \/ \E h \in Handlers, t \in DOMAIN links : VerifyEmail(h, t) /\ UNCHANGED oauthVars
         \/ \E h \in Handlers, t \in DOMAIN links, p \in Passwords :
              Reset(h, t, p) /\ UNCHANGED oauthVars
         \/ \E h \in Handlers : Continue(h) /\ UNCHANGED oauthVars
         \/ \E h \in Handlers, f \in Flows, p \in Profiles : HandleCallback(h, f, p)
         \/ \E h \in Handlers : CallbackStep(h)
         \/ \E h \in Handlers : OAuthCutOff(h)
         \/ \E e \in Emails : (LockEnds(e) \/ Suspend(e)) /\ UNCHANGED oauthVars
         \/ \E t \in DOMAIN links : LinkExpires(t) /\ UNCHANGED oauthVars
         \/ \E f \in Flows : FlowExpires(f) \/ \E provider \in Providers : Authorize(f, provider)
         \/ UNCHANGED allVars
BY DEF OAuthNext, Begin, Elapse

-----------------------------------------------------------------------------
(* Links.                                                                   *)

LEMMA LinkDomain ==
  ASSUME Typed
  PROVE  /\ DOMAIN links = 1 .. Len(links) /\ Len(links) \in Nat
         /\ DOMAIN links \subseteq Links /\ \A t \in DOMAIN links : links[t] \in Link
<1>1. links \in Seq(Link) /\ Len(links) <= MaxLinks /\ Len(links) \in Nat
  BY DEF Typed
<1>2. DOMAIN links = 1 .. Len(links) /\ \A t \in DOMAIN links : links[t] \in Link
  BY <1>1
<1>3. QED
  BY <1>1, <1>2, LimitsTyped DEF Links

(* The state of one link changes.                                           *)
Marked(t, state) == links' = [links EXCEPT ![t].state = state]

LEMMA MarkedFacts ==
  ASSUME Typed, NEW t \in DOMAIN links, NEW x \in {"used", "expired"}, Marked(t, x)
  PROVE  /\ links' \in Seq(Link) /\ Len(links') = Len(links) /\ DOMAIN links' = DOMAIN links
         /\ \A u \in DOMAIN links : /\ links'[u].who = links[u].who
                                    /\ links'[u].purpose = links[u].purpose
                                    /\ links'[u].state = IF u = t THEN x ELSE links[u].state
<1> DEFINE s == links
           r == [links[t] EXCEPT !.state = x]
<1>1. /\ s \in Seq(Link) /\ t \in 1 .. Len(s) /\ DOMAIN s = 1 .. Len(s)
      /\ \A u \in DOMAIN s : s[u] \in Link
  BY LinkDomain DEF Typed
<1>2. links' = [s EXCEPT ![t] = r]
  BY DEF Marked
<1>3. /\ r \in Link /\ r.who = s[t].who /\ r.purpose = s[t].purpose /\ r.state = x
  BY <1>1 DEF Link
<1> HIDE DEF s, r
<1>4. /\ links' \in Seq(Link) /\ Len(links') = Len(s) /\ DOMAIN links' = DOMAIN s
      /\ \A u \in DOMAIN s : links'[u] = IF u = t THEN r ELSE s[u]
  BY <1>1, <1>2, <1>3
<1>5. QED
  BY <1>3, <1>4 DEF s

LEMMA MailFacts ==
  ASSUME Typed, NEW h \in Handlers, MailLink(h)
  PROVE  /\ links' \in Seq(Link) /\ Len(links') <= MaxLinks
         /\ DOMAIN links' = DOMAIN links \cup {Len(links) + 1}
         /\ Len(links) + 1 \in Links \ DOMAIN links
         /\ \A t \in DOMAIN links : links'[t] = links[t]
         /\ links'[Len(links) + 1].who = req[h].who
         /\ links'[Len(links) + 1].state = "live"
<1> DEFINE n == Len(links)
           r == [who |-> req[h].who, purpose |-> req[h].purpose, state |-> "live"]
<1>1. req[h] \in Mailing
  BY WorkKinds DEF MailLink, Typed
<1>2. r \in Link /\ r.who = req[h].who /\ r.state = "live"
  BY <1>1 DEF Mailing, Link
<1>3. links \in Seq(Link) /\ n \in Nat /\ n < MaxLinks /\ DOMAIN links = 1 .. n
  BY LinkDomain DEF MailLink, Typed
<1>4. links' = Append(links, r)
  BY DEF MailLink
<1> HIDE DEF r
<1>5. links' \in Seq(Link) /\ Len(links') = n + 1
  BY <1>2, <1>3, <1>4
<1>6. DOMAIN links' = 1 .. (n + 1)
  BY <1>5
<1>7. \A t \in 1 .. n : links'[t] = links[t]
  BY <1>2, <1>3, <1>4
<1>8. links'[n + 1] = r
  BY <1>2, <1>3, <1>4
<1>9. 1 .. (n + 1) = (1 .. n) \cup {n + 1} /\ n + 1 \in Links \ (1 .. n) /\ n + 1 <= MaxLinks
  BY <1>3, LimitsTyped DEF Links
<1>10. QED
  BY <1>2, <1>3, <1>5, <1>6, <1>7, <1>8, <1>9

-----------------------------------------------------------------------------
(* Types.                                                                   *)

(* A statement that writes one row of users.                                *)
LEMMA UserRow ==
  ASSUME users \in [Emails -> User], NEW e \in Emails, NEW u, users' = [users EXCEPT ![e] = u]
  PROVE  /\ users'[e] = u
         /\ \A d \in Emails : d # e => users'[d] = users[d]
         /\ u \in User => users' \in [Emails -> User]
OBVIOUS

LEMMA NobodyTyped == Nobody \in User /\ 0 \in 0 .. MaxFailed - 1
<1>1. 0 \in 0 .. MaxFailed - 1
  BY LimitsTyped
<1>2. QED
  BY <1>1 DEF Nobody, User

(* What the statements of the two sides write.                              *)
Writes(h) ==
  LET r == req[h]
      e == r.who
      u == users[e] IN
  \/ r.at = "create" /\ ~u.there
       /\ users' = [users EXCEPT ![e] = [Nobody EXCEPT !.there = TRUE, !.password = r.pw]]
  \/ r.at \in {"setVerified", "patch"} /\ users' = [users EXCEPT ![e] = [u EXCEPT !.verified = TRUE]]
  \/ r.at = "fail" /\ users' = [users EXCEPT ![e] =
       [u EXCEPT !.fails = IF r.fails + 1 >= MaxFailed THEN 0 ELSE r.fails + 1,
                 !.locked = (r.fails + 1 >= MaxFailed)]]
  \/ r.at = "welcome" /\ users' = [users EXCEPT ![e] = Unlocked(u)]
  \/ r.at = "setPassword"
       /\ users' = [users EXCEPT ![e] = [Unlocked(u) EXCEPT !.password = r.pw, !.verified = TRUE]]
  \/ r.at = "change" /\ users' = [users EXCEPT ![e] = [u EXCEPT !.password = r.pw]]

Renewing == {"create", "setPassword", "change"}
Locking(h) == req[h].at = "fail" /\ req[h].fails + 1 >= MaxFailed
Counting(h) == req[h].at = "fail" /\ req[h].fails + 1 < MaxFailed

(* The row e as handler h leaves it.                                        *)
Row(h, e, u) ==
  /\ u \in User
  /\ u.there <=> users[e].there \/ req[h].at = "create"
  /\ req[h].at = "create" => ~users[e].there
  /\ u.password = IF req[h].at \in Renewing THEN req[h].pw ELSE users[e].password
  /\ req[h].at \in Renewing => req[h].pw \in Passwords
  /\ u.locked => users[e].locked \/ Locking(h)
  /\ u.fails \in {0, users[e].fails} \/ (Counting(h) /\ u.fails = req[h].fails + 1)

LEMMA Written ==
  ASSUME Typed, NEW h \in Handlers, Writes(h)
  PROVE  \E e \in Emails, u \in User :
           e = req[h].who /\ users' = [users EXCEPT ![e] = u] /\ Row(h, e, u)
<1> DEFINE r == req[h]
           e == r.who
<1>1. users \in [Emails -> User] /\ r \in Work
  BY DEF Typed
<1>2. CASE r.at = "create"
  <2> DEFINE u == [Nobody EXCEPT !.there = TRUE, !.password = r.pw]
  <2>1. r \in Creating
    BY <1>1, <1>2, WorkKinds
  <2>2. /\ u \in User /\ u.there /\ u.password = r.pw /\ ~u.locked /\ u.fails = 0
        /\ r.pw \in Passwords
    BY <2>1, NobodyTyped DEF User, Creating, Nobody
  <2>3. e \in Emails /\ ~users[e].there /\ users' = [users EXCEPT ![e] = u]
    BY <1>2, <2>1 DEF Writes, Creating
  <2> HIDE DEF u
  <2>4. Row(h, e, u)
    BY <1>2, <2>2, <2>3 DEF Row, Renewing
  <2>5. QED
    BY <2>2, <2>3, <2>4
<1>3. CASE r.at \in {"setVerified", "patch"}
  <2> DEFINE u == [users[e] EXCEPT !.verified = TRUE]
  <2>1. e \in Emails
    BY <1>1, <1>3, WorkKinds DEF Verifying, Linking
  <2>2. /\ u \in User /\ u.there = users[e].there /\ u.password = users[e].password
        /\ u.locked = users[e].locked /\ u.fails = users[e].fails
    BY <1>1, <2>1 DEF User
  <2>3. users' = [users EXCEPT ![e] = u]
    BY <1>3 DEF Writes
  <2> HIDE DEF u
  <2>4. Row(h, e, u)
    BY <1>1, <1>3, <2>1, <2>2 DEF Row, Renewing, User
  <2>5. QED
    BY <2>1, <2>2, <2>3, <2>4
<1>4. CASE r.at = "fail"
  <2> DEFINE n == IF r.fails + 1 >= MaxFailed THEN 0 ELSE r.fails + 1
             b == r.fails + 1 >= MaxFailed
             u == [users[e] EXCEPT !.fails = n, !.locked = b]
  <2>1. e \in Emails /\ r.fails \in 0 .. MaxFailed - 1
    BY <1>1, <1>4, WorkKinds DEF Failing
  <2>2. n \in 0 .. MaxFailed - 1 /\ (n = 0 \/ (Counting(h) /\ n = r.fails + 1))
    BY <1>4, <2>1, LimitsTyped DEF Counting
  <2>3. b \in BOOLEAN /\ (b => Locking(h))
    BY <1>4 DEF Locking
  <2>4. users' = [users EXCEPT ![e] = u]
    BY <1>4 DEF Writes
  <2> HIDE DEF n, b
  <2>5. /\ u \in User /\ u.there = users[e].there /\ u.password = users[e].password
        /\ u.locked = b /\ u.fails = n
    BY <1>1, <2>1, <2>2, <2>3 DEF User
  <2> HIDE DEF u
  <2>6. Row(h, e, u)
    BY <1>1, <1>4, <2>1, <2>2, <2>3, <2>5 DEF Row, Renewing, User
  <2>7. QED
    BY <2>1, <2>4, <2>5, <2>6
<1>5. CASE r.at = "welcome"
  <2> DEFINE u == Unlocked(users[e])
  <2>1. e \in Emails
    BY <1>1, <1>5, WorkKinds DEF Entering
  <2>2. /\ u \in User /\ u.there = users[e].there /\ u.password = users[e].password
        /\ ~u.locked /\ u.fails = 0
    BY <1>1, <2>1, NobodyTyped DEF User, Unlocked
  <2>3. users' = [users EXCEPT ![e] = u]
    BY <1>5 DEF Writes
  <2> HIDE DEF u
  <2>4. Row(h, e, u)
    BY <1>1, <1>5, <2>1, <2>2 DEF Row, Renewing, User
  <2>5. QED
    BY <2>1, <2>2, <2>3, <2>4
<1>6. CASE r.at \in {"setPassword", "change"}
  <2> DEFINE v == IF r.at = "change" THEN users[e] ELSE Unlocked(users[e])
             u == IF r.at = "change" THEN [v EXCEPT !.password = r.pw]
                  ELSE [v EXCEPT !.password = r.pw, !.verified = TRUE]
  <2>1. e \in Emails /\ r.pw \in Passwords
    BY <1>1, <1>6, WorkKinds DEF Setting
  <2>2. /\ v \in User /\ v.there = users[e].there
        /\ v.locked => users[e].locked
        /\ v.fails \in {0, users[e].fails}
    BY <1>1, <2>1, NobodyTyped DEF User, Unlocked
  <2>3. users' = [users EXCEPT ![e] = u]
    BY <1>6 DEF Writes
  <2> HIDE DEF v
  <2>4. /\ u \in User /\ u.there = v.there /\ u.password = r.pw
        /\ u.locked = v.locked /\ u.fails = v.fails
    BY <2>1, <2>2 DEF User
  <2> HIDE DEF u
  <2>5. u.there \in BOOLEAN /\ users[e].there \in BOOLEAN /\ u.locked \in BOOLEAN
    BY <1>1, <2>1, <2>4 DEF User
  <2>6. Row(h, e, u)
    BY <1>6, <2>1, <2>2, <2>4, <2>5 DEF Row, Renewing
  <2>7. QED
    BY <2>1, <2>3, <2>4, <2>6
<1>7. QED
  BY <1>2, <1>3, <1>4, <1>5, <1>6 DEF Writes

(* What each handler holds after a step of its own.                         *)
LEMMA RequestWork ==
  ASSUME Typed, NEW h \in Handlers, NEW e \in Emails, NEW p \in Passwords,
         Signup(h, e, p) \/ Login(h, e, p) \/ Change(h, e, p)
  PROVE  /\ \E w \in Creating \cup Failing \cup Entering \cup Setting :
              /\ Become(h, w) /\ w.who = e
              /\ w.at # "create" => users[e].there
              /\ w.at = "fail" => w.fails = users[e].fails
              /\ w.at \in {"create", "fail", "welcome", "change"}
         /\ UNCHANGED <<users, links, sessions, redeemed, failures, overtaken>>
<1>1. users[e] \in User
  BY DEF Typed
<1>2. CASE Signup(h, e, p)
  BY <1>2 DEF Signup, Creating
<1>3. CASE Login(h, e, p)
  <2>1. CASE p # users[e].password
    BY <1>1, <1>3, <2>1 DEF Login, Failing, User
  <2>2. CASE p = users[e].password
    BY <1>3, <2>2 DEF Login, Entering
  <2>3. QED
    BY <2>1, <2>2
<1>4. CASE Change(h, e, p)
  BY <1>4 DEF Change, Setting
<1>5. QED
  BY <1>2, <1>3, <1>4 DEF Signup, Login, Change

LEMMA ContinueWork ==
  ASSUME Typed, NEW h \in Handlers, Continue(h)
  PROVE  \/ Create(h) /\ users' = users /\ Become(h, Idle)
         \/ /\ Create(h) /\ Writes(h)
            /\ \E w \in Mailing : w.who = req[h].who /\ Become(h, w)
         \/ MailLink(h) /\ users' = users /\ Become(h, Idle)
         \/ (SetVerified(h) \/ Fail(h)) /\ Writes(h) /\ Become(h, Idle)
         \/ /\ Welcome(h) /\ Writes(h)
            /\ \E w \in Entering : w.who = req[h].who /\ Become(h, w)
         \/ OpenSession(h) /\ users' = users /\ Become(h, Idle)
         \/ Consume(h) /\ users' = users /\ Become(h, Idle)
         \/ /\ Consume(h) /\ users' = users
            /\ \E w \in Setting : /\ w.at = "setPassword" /\ w.who = req[h].who
                                  /\ w.pw = req[h].pw /\ Become(h, w)
         \/ /\ (SetPassword(h) \/ ChangePassword(h)) /\ Writes(h)
            /\ \E w \in Revoking : /\ w.who = req[h].who /\ Become(h, w)
                                   /\ \/ w.next = Idle
                                      \/ w.next.at = "session" /\ w.next.who = w.who
         \/ /\ Revoke(h) /\ users' = users /\ Become(h, req[h].next)
            /\ req[h].next \in {Idle} \cup Entering
<1>0. req[h] \in Work
  BY DEF Typed
<1>1. CASE Create(h)
  <2>1. req[h] \in Creating
    BY <1>0, <1>1, WorkKinds DEF Create
  <2>2. CASE users[req[h].who].there
    BY <1>1, <2>2 DEF Create
  <2>3. CASE ~users[req[h].who].there
    <3>1. [at |-> "mail", who |-> req[h].who, purpose |-> "email_verify"] \in Mailing
      BY <2>1 DEF Mailing, Creating, Purposes
    <3>2. Writes(h)
      BY <1>1, <2>3 DEF Create, Writes
    <3>3. QED
      BY <1>1, <2>3, <3>1, <3>2 DEF Create
  <2>4. QED
    BY <2>2, <2>3
<1>2. CASE MailLink(h) \/ OpenSession(h)
  BY <1>2 DEF MailLink, OpenSession
<1>3. CASE SetVerified(h)
  BY <1>3 DEF SetVerified, Writes
<1>4. CASE Fail(h)
  BY <1>4 DEF Fail, Writes
<1>5. CASE Welcome(h)
  <2>1. req[h] \in Entering
    BY <1>0, <1>5, WorkKinds DEF Welcome
  <2>2. [req[h] EXCEPT !.at = "session"] \in Entering
        /\ [req[h] EXCEPT !.at = "session"].who = req[h].who
    BY <2>1 DEF Entering
  <2>3. Writes(h)
    BY <1>5 DEF Welcome, Writes
  <2>4. QED
    BY <1>5, <2>2, <2>3 DEF Welcome
<1>6. CASE Consume(h)
  <2>1. req[h] \in Consuming
    BY <1>0, <1>6, WorkKinds DEF Consume
  <2>2. CASE Redeemable(req[h].link, "password_reset")
    <3> DEFINE w == [at |-> "setPassword", who |-> req[h].who, pw |-> req[h].pw]
    <3>1. w \in Setting /\ w.at = "setPassword" /\ w.who = req[h].who /\ w.pw = req[h].pw
      BY <2>1 DEF Setting, Consuming
    <3>2. Become(h, w) /\ users' = users
      BY <1>6, <2>2 DEF Consume
    <3> HIDE DEF w
    <3>3. QED
      BY <1>6, <3>1, <3>2
  <2>3. CASE ~Redeemable(req[h].link, "password_reset")
    BY <1>6, <2>3 DEF Consume
  <2>4. QED
    BY <2>2, <2>3
<1>7. CASE SetPassword(h)
  <2> DEFINE w == [at |-> "revoke", who |-> req[h].who, next |-> Idle]
  <2>1. req[h] \in Setting
    BY <1>0, <1>7, WorkKinds DEF SetPassword
  <2>2. w \in Revoking /\ w.who = req[h].who /\ w.next = Idle
    BY <2>1 DEF Revoking, Setting
  <2>3. Become(h, w) /\ Writes(h)
    BY <1>7 DEF SetPassword, Writes
  <2> HIDE DEF w
  <2>4. QED
    BY <1>7, <2>2, <2>3
<1>8. CASE ChangePassword(h)
  <2> DEFINE n == [req[h] EXCEPT !.at = "session"]
             w == [at |-> "revoke", who |-> req[h].who, next |-> n]
  <2>1. req[h] \in Setting
    BY <1>0, <1>8, WorkKinds DEF ChangePassword
  <2>2. n \in Entering /\ n.at = "session" /\ n.who = req[h].who
    BY <2>1 DEF Setting, Entering
  <2>3. Become(h, w) /\ Writes(h)
    BY <1>8 DEF ChangePassword, Writes
  <2> HIDE DEF n
  <2>4. w \in Revoking /\ w.who = req[h].who /\ w.next = n
    BY <2>1, <2>2 DEF Revoking, Setting
  <2> HIDE DEF w
  <2>5. QED
    BY <1>8, <2>2, <2>3, <2>4
<1>9. CASE Revoke(h)
  <2>1. req[h] \in Revoking
    BY <1>0, <1>9, WorkKinds DEF Revoke
  <2>2. QED
    BY <1>9, <2>1 DEF Revoke, Revoking
<1>10. QED
  BY <1>1, <1>2, <1>3, <1>4, <1>5, <1>6, <1>7, <1>8, <1>9 DEF Continue

(* A callback that knows whom it signs in.                                  *)
LEMMA SignsIn ==
  ASSUME NEW h \in Handlers, NEW e \in Emails, req[h].profile \in Profiles, SignIn(h, e)
  PROVE  \E w \in Issuing : w.who = e /\ Become(h, w)
BY DEF SignIn, Issuing

LEMMA CallbackWork ==
  ASSUME Typed, OfAccounts, NEW h \in Handlers, StillTrue(h), CallbackStep(h)
  PROVE  \/ /\ FindLink(h) \/ FindEmail(h) \/ Issue(h)
            /\ users' = users /\ Become(h, Idle)
         \/ /\ FindLink(h) /\ users' = users
            /\ \E w \in Issuing : Become(h, w) /\ users[w.who].there
         \/ /\ FindLink(h) /\ users' = users
            /\ \E w \in Knocking : w.at = "findEmail" /\ w.profile.email \in Emails /\ Become(h, w)
         \/ /\ FindEmail(h) /\ users' = users
            /\ \E w \in Knocking : w.at = "insertUser" /\ w.profile.email \in Emails /\ Become(h, w)
         \/ /\ FindEmail(h) /\ users' = users
            /\ \E w \in Linking : /\ w.at = "link" /\ w.profile.emailVerified
                                  /\ users[w.who].there /\ Become(h, w)
         \/ /\ InsertLinkOrNot(h) /\ users' = users
            /\ \E w \in Linking : w.at = "patch" /\ w.who = req[h].who /\ Become(h, w)
         \/ /\ InsertLinkOrNot(h) /\ users' = users
            /\ \E w \in Issuing : w.who = req[h].who /\ Become(h, w)
         \/ /\ Patch(h) /\ Writes(h)
            /\ \E w \in Issuing : w.who = req[h].who /\ Become(h, w)
         \/ /\ InsertUser(h) /\ users' = users /\ Become(h, Idle)
         \/ /\ InsertUser(h) /\ NewUser(h) /\ ~users[req[h].profile.email].there
            /\ \E w \in Knocking : /\ w.at = "insertLink" /\ w.profile = req[h].profile
                                   /\ Become(h, w)
         \/ /\ InsertLink(h) /\ users' = users
            /\ \E w \in Issuing : w.who = req[h].profile.email /\ Become(h, w)
         \/ /\ InsertLink(h) /\ users' = users /\ Become(h, Idle)
<1> DEFINE r == req[h]
           p == req[h].profile
<1>0. r \in Work
  BY DEF Typed
<1>1. CASE FindLink(h)
  <2>1. r \in Knocking
    BY <1>0, <1>1, WorkKinds DEF FindLink
  <2>2. p \in Profiles /\ r.at = "findLink"
    BY <1>1, <2>1 DEF Knocking, FindLink
  <2>3. CASE LinkOf(p) # {}
    <3>1. PICK l \in LinkOf(p) : IF users[l.who].active THEN SignIn(h, l.who) ELSE Become(h, Idle)
      BY <1>1, <2>3 DEF FindLink
    <3>2. l.who \in Emails /\ users[l.who].there
      BY DEF LinkOf, Typed, OAuthRow, OfAccounts
    <3>3. CASE SignIn(h, l.who)
      BY <1>1, <2>2, <3>2, <3>3, SignsIn DEF FindLink
    <3>4. QED
      BY <1>1, <3>1, <3>3 DEF FindLink
  <2>4. CASE LinkOf(p) = {}
    <3>1. CASE p.email = NoEmail
      BY <1>1, <2>4, <3>1 DEF FindLink
    <3>2. CASE p.email # NoEmail
      <4> DEFINE w == [r EXCEPT !.at = "findEmail"]
      <4>1. w \in Knocking /\ w.at = "findEmail" /\ w.profile = p
        BY <2>1 DEF Knocking
      <4>2. p.email \in Emails
        BY <2>2, <3>2, ProfileTyped
      <4>3. Become(h, w) /\ users' = users
        BY <1>1, <2>4, <3>2 DEF FindLink
      <4> HIDE DEF w
      <4>4. QED
        BY <1>1, <4>1, <4>2, <4>3
    <3>3. QED
      BY <3>1, <3>2
  <2>5. QED
    BY <2>3, <2>4
<1>2. CASE FindEmail(h)
  <2>1. r \in Knocking
    BY <1>0, <1>2, WorkKinds DEF FindEmail
  <2>2. p \in Profiles /\ r.at = "findEmail" /\ p.email \in Emails /\ users' = users
    BY <1>2, <2>1 DEF Knocking, FindEmail, StillTrue
  <2>3. CASE ~users[p.email].there
    <3> DEFINE w == [r EXCEPT !.at = "insertUser"]
    <3>1. w \in Knocking /\ w.at = "insertUser" /\ w.profile = p
      BY <2>1 DEF Knocking
    <3>2. Become(h, w)
      BY <1>2, <2>3 DEF FindEmail
    <3> HIDE DEF w
    <3>3. QED
      BY <1>2, <2>2, <3>1, <3>2
  <2>4. CASE users[p.email].there /\ users[p.email].active /\ p.emailVerified
    <3> DEFINE w == [at |-> "link", who |-> p.email, profile |-> p,
                     patch |-> ~users[p.email].verified]
    <3>1. w \in Linking /\ w.at = "link" /\ w.profile = p /\ w.who = p.email
      BY <2>2 DEF Linking
    <3>2. Become(h, w)
      BY <1>2, <2>4 DEF FindEmail
    <3> HIDE DEF w
    <3>3. QED
      BY <1>2, <2>2, <2>4, <3>1, <3>2
  <2>5. CASE users[p.email].there /\ ~(users[p.email].active /\ p.emailVerified)
    BY <1>2, <2>5 DEF FindEmail
  <2>6. QED
    BY <2>3, <2>4, <2>5
<1>3. CASE InsertLinkOrNot(h)
  <2>1. r \in Linking /\ users' = users
    BY <1>0, <1>3, WorkKinds DEF InsertLinkOrNot
  <2>2. CASE r.patch
    <3> DEFINE w == [r EXCEPT !.at = "patch"]
    <3>1. w \in Linking /\ w.at = "patch" /\ w.who = r.who
      BY <2>1 DEF Linking
    <3>2. Become(h, w)
      BY <1>3, <2>2 DEF InsertLinkOrNot
    <3> HIDE DEF w
    <3>3. QED
      BY <1>3, <2>1, <3>1, <3>2
  <2>3. CASE ~r.patch
    <3>1. SignIn(h, r.who) /\ r.who \in Emails /\ p \in Profiles
      BY <1>3, <2>1, <2>3 DEF InsertLinkOrNot, Linking
    <3>2. QED
      BY <1>3, <2>1, <3>1, SignsIn
  <2>4. QED
    BY <2>2, <2>3
<1>4. CASE Patch(h)
  <2>1. r \in Linking
    BY <1>0, <1>4, WorkKinds DEF Patch
  <2>2. SignIn(h, r.who) /\ r.who \in Emails /\ p \in Profiles /\ Writes(h)
    BY <1>4, <2>1 DEF Patch, Writes, Linking
  <2>3. QED
    BY <1>4, <2>2, SignsIn
<1>5. CASE InsertUser(h)
  <2>1. r \in Knocking
    BY <1>0, <1>5, WorkKinds DEF InsertUser
  <2>2. CASE users[p.email].there
    BY <1>5, <2>2 DEF InsertUser
  <2>3. CASE ~users[p.email].there
    <3> DEFINE w == [r EXCEPT !.at = "insertLink"]
    <3>1. w \in Knocking /\ w.at = "insertLink" /\ w.profile = p
      BY <2>1 DEF Knocking
    <3>2. Become(h, w) /\ NewUser(h)
      BY <1>5, <2>3 DEF InsertUser
    <3> HIDE DEF w
    <3>3. QED
      BY <1>5, <2>3, <3>1, <3>2
  <2>4. QED
    BY <2>2, <2>3
<1>6. CASE InsertLink(h)
  <2>1. r \in Knocking /\ r.at = "insertLink" /\ users' = users
    BY <1>0, <1>6, WorkKinds DEF InsertLink
  <2>2. p \in Profiles /\ p.email \in Emails
    BY <2>1 DEF Knocking, StillTrue
  <2>3. CASE LinkOf(p) = {}
    <3>1. SignIn(h, p.email)
      BY <1>6, <2>3 DEF InsertLink
    <3>2. QED
      BY <1>6, <2>1, <2>2, <3>1, SignsIn
  <2>4. CASE LinkOf(p) # {}
    BY <1>6, <2>1, <2>4 DEF InsertLink
  <2>5. QED
    BY <2>3, <2>4
<1>7. CASE Issue(h)
  BY <1>7 DEF Issue
<1>8. QED
  BY <1>1, <1>2, <1>3, <1>4, <1>5, <1>6, <1>7 DEF CallbackStep

-----------------------------------------------------------------------------
(* One step, table by table.                                                *)

(* At most one handler moves.                                               *)
LEMMA ReqStep ==
  ASSUME Settled, [OAuthNext]_allVars
  PROVE  \/ UNCHANGED req
         \/ \E h \in Handlers, w \in Work : Become(h, w)
<1>0. Typed /\ OfAccounts /\ Idle \in Work
  BY DEF Settled, Work
<1>1. ASSUME NEW h \in Handlers, NEW e \in Emails, NEW p \in Passwords,
             Signup(h, e, p) \/ Login(h, e, p) \/ Change(h, e, p)
      PROVE  \E w \in Work : Become(h, w)
  BY <1>0, <1>1, RequestWork DEF Work
<1>2. ASSUME NEW h \in Handlers, NEW e \in Emails, NEW purpose \in Purposes, AskLink(h, e, purpose)
      PROVE  \E w \in Work : Become(h, w)
  <2>1. [at |-> "mail", who |-> e, purpose |-> purpose] \in Mailing
    BY DEF Mailing
  <2>2. QED
    BY <1>2, <2>1 DEF AskLink, Work
<1>3. ASSUME NEW h \in Handlers, NEW t \in DOMAIN links, VerifyEmail(h, t)
      PROVE  \E w \in Work : Become(h, w)
  <2>1. links[t].who \in Emails
    BY <1>0, LinkDomain DEF Link
  <2>2. [at |-> "setVerified", who |-> links[t].who] \in Verifying
    BY <2>1 DEF Verifying
  <2>3. QED
    BY <1>3, <2>2 DEF VerifyEmail, Work
<1>4. ASSUME NEW h \in Handlers, NEW t \in DOMAIN links, NEW p \in Passwords, Reset(h, t, p)
      PROVE  \E w \in Work : Become(h, w)
  <2>1. links[t].who \in Emails /\ t \in Links /\ p \notin Weak
    BY <1>0, <1>4, LinkDomain DEF Link, Reset
  <2>2. [at |-> "consume", who |-> links[t].who, pw |-> p, link |-> t] \in Consuming
    BY <2>1 DEF Consuming
  <2>3. QED
    BY <1>4, <2>2 DEF Reset, Work
<1>5. ASSUME NEW h \in Handlers, Continue(h) PROVE \E w \in Work : Become(h, w)
  BY <1>0, <1>5, ContinueWork DEF Work
<1>6. ASSUME NEW h \in Handlers, NEW f \in Flows, NEW p \in Profiles, HandleCallback(h, f, p)
      PROVE  UNCHANGED req \/ \E w \in Work : Become(h, w)
  <2>1. [at |-> "findLink", profile |-> p] \in Knocking
    BY DEF Knocking
  <2>2. QED
    BY <1>6, <2>1 DEF HandleCallback, Work
<1>7. ASSUME NEW h \in Handlers, CallbackStep(h) PROVE \E w \in Work : Become(h, w)
  BY <1>0, <1>7, CallbackWork DEF Work, Settled
<1>8. ASSUME NEW h \in Handlers, OAuthCutOff(h) PROVE \E w \in Work : Become(h, w)
  BY <1>0, <1>8 DEF OAuthCutOff, CutOff
<1>9. QED
  BY <1>1, <1>2, <1>3, <1>4, <1>5, <1>6, <1>7, <1>8, NextCases
     DEF LockEnds, Suspend, LinkExpires, FlowExpires, Authorize

(* The statements whose writes matter beyond the row are told by the step.  *)
Doing(h) ==
  /\ req[h].at = "fail" => Fail(h)
  /\ req[h].at \in {"setPassword", "change"} => SetPassword(h) \/ ChangePassword(h)

(* Accounts are written by one statement at a time.                         *)
LEMMA UsersStep ==
  ASSUME Settled, [OAuthNext]_allVars
  PROVE  \/ users' = users
         \/ \E h \in Handlers : Writes(h) /\ Doing(h)
         \/ \E h \in Handlers : /\ InsertUser(h) /\ NewUser(h)
                                /\ ~users[req[h].profile.email].there
         \/ \E e \in Emails : /\ LockEnds(e) \/ Suspend(e)
                              /\ UNCHANGED <<sessions, failures, overtaken, req, oauth, halved>>
<1>0. Typed /\ OfAccounts
  BY DEF Settled
<1>1. ASSUME NEW h \in Handlers, Continue(h)
      PROVE  users' = users \/ (Writes(h) /\ Doing(h))
  <2>1. req[h].at = "fail" => Fail(h)
    BY <1>1 DEF Continue, Create, MailLink, SetVerified, Welcome, OpenSession, Consume,
       SetPassword, ChangePassword, Revoke
  <2>2. req[h].at \in {"setPassword", "change"} => SetPassword(h) \/ ChangePassword(h)
    BY <1>1 DEF Continue, Create, MailLink, SetVerified, Fail, Welcome, OpenSession, Consume,
       Revoke
  <2>3. users' = users \/ Writes(h)
    BY <1>0, <1>1, ContinueWork
  <2>4. QED
    BY <2>1, <2>2, <2>3 DEF Doing
<1>2. ASSUME NEW h \in Handlers, CallbackStep(h)
      PROVE  \/ users' = users
             \/ Writes(h) /\ req[h].at = "patch"
             \/ InsertUser(h) /\ NewUser(h) /\ ~users[req[h].profile.email].there
  BY <1>0, <1>2, CallbackWork DEF Settled, Patch
<1>3. QED
  BY <1>1, <1>2, NextCases
     DEF Doing, Signup, Login, Change, AskLink, VerifyEmail, Reset, HandleCallback, OAuthCutOff, CutOff,
         LockEnds, Suspend, LinkExpires, FlowExpires, Authorize

(* Links are made, redeemed or expire one at a time.                        *)
LEMMA LinksStep ==
  ASSUME Settled, [OAuthNext]_allVars
  PROVE  \/ UNCHANGED <<links, redeemed>>
         \/ \E h \in Handlers : MailLink(h)
         \/ \E t \in DOMAIN links : /\ links[t].state = "live" /\ Marked(t, "used")
                                    /\ redeemed' = [redeemed EXCEPT ![t] = @ + 1]
         \/ \E t \in DOMAIN links : /\ links[t].state = "live" /\ Marked(t, "expired")
                                    /\ UNCHANGED redeemed
<1>1. ASSUME NEW h \in Handlers, Consume(h)
      PROVE  \/ UNCHANGED <<links, redeemed>>
             \/ \E t \in DOMAIN links : /\ links[t].state = "live" /\ Marked(t, "used")
                                        /\ redeemed' = [redeemed EXCEPT ![t] = @ + 1]
  BY <1>1 DEF Consume, Redeemable, Redeem, Marked, Settled, StillTrue
<1>2. ASSUME NEW h \in Handlers, Continue(h)
      PROVE  UNCHANGED <<links, redeemed>> \/ MailLink(h) \/ Consume(h)
  BY <1>2 DEF Continue, Create, SetVerified, Fail, Welcome, OpenSession, SetPassword,
              ChangePassword, Revoke
<1>3. ASSUME NEW h \in Handlers, CallbackStep(h) PROVE UNCHANGED <<links, redeemed>>
  BY <1>3 DEF CallbackStep, FindLink, FindEmail, InsertLinkOrNot, Patch, InsertUser, InsertLink,
              Issue
<1>4. ASSUME NEW h \in Handlers, NEW t \in DOMAIN links, VerifyEmail(h, t)
      PROVE  /\ links[t].state = "live" /\ Marked(t, "used")
             /\ redeemed' = [redeemed EXCEPT ![t] = @ + 1]
  BY <1>4 DEF VerifyEmail, Redeemable, Redeem, Marked
<1>5. QED
  BY <1>1, <1>2, <1>3, <1>4, NextCases
     DEF Signup, Login, Change, AskLink, Reset, HandleCallback, OAuthCutOff, CutOff,
         LockEnds, Suspend, LinkExpires, FlowExpires, Authorize, Marked

LEMMA FailuresStep ==
  ASSUME [OAuthNext]_allVars
  PROVE  failures' = failures \/ \E h \in Handlers : Fail(h)
BY NextCases
   DEF Signup, Login, Change, AskLink, VerifyEmail, Reset, HandleCallback, OAuthCutOff, CutOff,
       LockEnds, Suspend, LinkExpires, FlowExpires, Authorize, Continue, Create, MailLink,
       SetVerified, Welcome, OpenSession, Consume, SetPassword, ChangePassword, Revoke,
       CallbackStep, FindLink, FindEmail, InsertLinkOrNot, Patch, InsertUser, InsertLink, Issue

(* What no step takes back: an account stays, a link keeps its account and  *)
(* its purpose, failures add up.                                            *)
LEMMA Grows ==
  ASSUME Settled, [OAuthNext]_allVars
  PROVE  /\ \A e \in Emails : users[e].there => users'[e].there
         /\ \A t \in DOMAIN links : /\ t \in DOMAIN links' /\ links'[t].who = links[t].who
                                    /\ links'[t].purpose = links[t].purpose
         /\ \A e \in Emails : failures[e] <= failures'[e]
<1>0. Typed
  BY DEF Settled
<1>1. \A t \in DOMAIN links : /\ t \in DOMAIN links' /\ links'[t].who = links[t].who
                              /\ links'[t].purpose = links[t].purpose
  BY <1>0, LinksStep, MailFacts, MarkedFacts
<1>2. \A e \in Emails : users[e].there => users'[e].there
  <2> SUFFICES ASSUME NEW e \in Emails, users[e].there PROVE users'[e].there
    OBVIOUS
  <2>0. users \in [Emails -> User]
    BY <1>0 DEF Typed
  <2>1. ASSUME NEW h \in Handlers, Writes(h) PROVE users'[e].there
    <3>1. PICK d \in Emails, u \in User : users' = [users EXCEPT ![d] = u] /\ Row(h, d, u)
      BY <1>0, <2>1, Written
    <3>2. d = e => u.there
      BY <3>1 DEF Row
    <3>3. QED
      BY <2>0, <3>1, <3>2
  <2>2. ASSUME NEW h \in Handlers, NewUser(h), ~users[req[h].profile.email].there
        PROVE  users'[e].there
    BY <2>0, <2>2 DEF NewUser
  <2>3. ASSUME NEW d \in Emails, LockEnds(d) \/ Suspend(d) PROVE users'[e].there
    BY <2>0, <2>3 DEF LockEnds, Suspend, User
  <2>4. QED
    BY <2>1, <2>2, <2>3, UsersStep
<1>3. \A e \in Emails : failures[e] <= failures'[e]
  <2>1. failures' = failures \/ \E h \in Handlers : Fail(h)
    BY FailuresStep
  <2>2. failures \in [Emails -> 0 .. MaxFailed] /\ \A e \in Emails : failures[e] \in Nat
    BY <1>0, LimitsTyped DEF Typed
  <2>3. ASSUME NEW h \in Handlers, Fail(h), NEW e \in Emails PROVE failures[e] <= failures'[e]
    <3>1. failures' = [failures EXCEPT ![req[h].who] = UpTo(@ + 1)]
      BY <2>3 DEF Fail
    <3>2. failures[e] <= MaxFailed
      BY <2>2, LimitsTyped
    <3>3. failures[e] <= UpTo(failures[e] + 1)
      BY <2>2, <3>2, LimitsTyped DEF UpTo
    <3>4. QED
      BY <2>2, <3>1, <3>3
  <2>4. QED
    BY <2>1, <2>2, <2>3
<1>4. QED
  BY <1>1, <1>2, <1>3

LEMMA NewRow ==
  ASSUME Typed, NEW h \in Handlers, StillTrue(h), InsertUser(h), NewUser(h)
  PROVE  \E e \in Emails, u \in User :
           /\ e = req[h].profile.email /\ users' = [users EXCEPT ![e] = u]
           /\ u.there /\ u.password = NoPassword /\ ~u.locked /\ u.fails = 0
<1> DEFINE p == req[h].profile
           u == [Nobody EXCEPT !.there = TRUE, !.verified = p.emailVerified]
<1>1. req[h] \in Knocking /\ req[h].at = "insertUser"
  BY WorkKinds DEF Typed, InsertUser
<1>2. p.email \in Emails /\ p.emailVerified \in BOOLEAN
  BY <1>1, ProfileTyped DEF StillTrue, Knocking
<1>3. u \in User /\ u.there /\ u.password = NoPassword /\ ~u.locked /\ u.fails = 0
  BY <1>2, NobodyTyped DEF User, Nobody
<1>4. users' = [users EXCEPT ![p.email] = u]
  BY DEF NewUser
<1> HIDE DEF u
<1>5. QED
  BY <1>2, <1>3, <1>4

LEMMA Elapsed ==
  ASSUME Typed, NEW e \in Emails, LockEnds(e) \/ Suspend(e)
  PROVE  \E u \in User : /\ users' = [users EXCEPT ![e] = u]
                         /\ u.there = users[e].there /\ u.password = users[e].password
                         /\ u.fails = users[e].fails /\ (u.locked => users[e].locked)
<1>1. users[e] \in User
  BY DEF Typed
<1>2. CASE LockEnds(e)
  <2> DEFINE u == [users[e] EXCEPT !.locked = FALSE]
  <2>1. users' = [users EXCEPT ![e] = u]
    BY <1>2 DEF LockEnds
  <2>2. /\ u \in User /\ u.there = users[e].there /\ u.password = users[e].password
        /\ u.fails = users[e].fails /\ (u.locked => users[e].locked)
    BY <1>1 DEF User
  <2> HIDE DEF u
  <2>3. QED
    BY <2>1, <2>2
<1>3. CASE Suspend(e)
  <2> DEFINE u == [users[e] EXCEPT !.active = FALSE]
  <2>1. users' = [users EXCEPT ![e] = u]
    BY <1>3 DEF Suspend
  <2>2. /\ u \in User /\ u.there = users[e].there /\ u.password = users[e].password
        /\ u.fails = users[e].fails /\ (u.locked => users[e].locked)
    BY <1>1 DEF User
  <2> HIDE DEF u
  <2>3. QED
    BY <2>1, <2>2
<1>4. QED
  BY <1>2, <1>3

(* Identities are added where the provider's account has none.              *)
LEMMA IdentityStep ==
  ASSUME Settled, [OAuthNext]_allVars
  PROVE  \/ oauth' = oauth
         \/ \E h \in Handlers, e \in Emails, own \in BOOLEAN :
              /\ req[h].profile \in Profiles /\ LinkOf(req[h].profile) = {}
              /\ oauth' = Linked(req[h].profile, e, own)
              /\ users[e].there
              /\ own \/ req[h].profile.emailVerified
              /\ req[h].at = "insertLink" => e = req[h].profile.email
              /\ UNCHANGED <<users, halved>>
<1>1. ASSUME NEW h \in Handlers, InsertLinkOrNot(h)
      PROVE  \/ oauth' = oauth
             \/ \E e \in Emails :
                  /\ req[h].profile \in Profiles /\ LinkOf(req[h].profile) = {}
                  /\ oauth' = Linked(req[h].profile, e, FALSE) /\ users[e].there
                  /\ req[h].profile.emailVerified /\ req[h].at # "insertLink"
                  /\ UNCHANGED <<users, halved>>
  <2>1. req[h] \in Linking /\ req[h].at = "link"
    BY <1>1, WorkKinds DEF InsertLinkOrNot, Settled, Typed
  <2>2. /\ req[h].who \in Emails /\ req[h].profile \in Profiles
        /\ users[req[h].who].there /\ req[h].profile.emailVerified
    BY <2>1 DEF Linking, Settled, StillTrue, Named
  <2>3. QED
    BY <1>1, <2>1, <2>2 DEF InsertLinkOrNot
<1>2. ASSUME NEW h \in Handlers, InsertLink(h)
      PROVE  \/ oauth' = oauth
             \/ \E e \in Emails :
                  /\ req[h].profile \in Profiles /\ LinkOf(req[h].profile) = {}
                  /\ oauth' = Linked(req[h].profile, e, TRUE) /\ users[e].there
                  /\ e = req[h].profile.email
                  /\ UNCHANGED <<users, halved>>
  <2>1. req[h] \in Knocking /\ req[h].at = "insertLink"
    BY <1>2, WorkKinds DEF InsertLink, Settled, Typed
  <2>2. /\ req[h].profile.email \in Emails /\ req[h].profile \in Profiles
        /\ users[req[h].profile.email].there
    BY <2>1 DEF Knocking, Settled, StillTrue
  <2>3. QED
    BY <1>2, <2>2 DEF InsertLink
<1>3. ASSUME NEW h \in Handlers, CallbackStep(h)
      PROVE  oauth' = oauth \/ InsertLinkOrNot(h) \/ InsertLink(h)
  BY <1>3 DEF CallbackStep, FindLink, FindEmail, Patch, InsertUser, Issue
<1>4. oauth' = oauth \/ \E h \in Handlers : InsertLinkOrNot(h) \/ InsertLink(h)
  BY <1>3, NextCases DEF HandleCallback, OAuthCutOff, FlowExpires, Authorize
<1>5. QED
  BY <1>1, <1>2, <1>4

LEMMA FailuresTyped ==
  ASSUME Typed, [OAuthNext]_allVars
  PROVE  failures' \in [Emails -> 0 .. MaxFailed]
<1>1. failures \in [Emails -> 0 .. MaxFailed] /\ \A n \in Nat : UpTo(n) \in 0 .. MaxFailed
  BY LimitsTyped DEF Typed, UpTo
<1>2. \A e \in Emails : UpTo(failures[e] + 1) \in 0 .. MaxFailed
  <2>1. \A e \in Emails : failures[e] + 1 \in Nat
    BY <1>1, LimitsTyped
  <2>2. QED
    BY <1>1, <2>1
<1>3. CASE failures' = failures
  BY <1>1, <1>3
<1>4. ASSUME NEW h \in Handlers, Fail(h) PROVE failures' \in [Emails -> 0 .. MaxFailed]
  <2>1. req[h] \in Failing
    BY <1>4, WorkKinds DEF Fail, Typed
  <2>2. PICK e \in Emails : e = req[h].who
    BY <2>1 DEF Failing
  <2>3. failures' = [failures EXCEPT ![e] = UpTo(failures[e] + 1)]
    BY <1>4, <2>2 DEF Fail
  <2>4. QED
    BY <1>1, <1>2, <2>3
<1>5. QED
  BY <1>3, <1>4, FailuresStep

LEMMA TypedStep ==
  ASSUME Settled, [OAuthNext]_allVars
  PROVE  Typed'
<1>0. /\ Typed /\ OfAccounts /\ (\A h \in Handlers : StillTrue(h))
      /\ users \in [Emails -> User] /\ req \in [Handlers -> Work]
  BY DEF Settled, Typed
<1>1. users' \in [Emails -> User]
  <2>1. ASSUME NEW h \in Handlers, Writes(h) PROVE users' \in [Emails -> User]
    BY <1>0, <2>1, Written
  <2>2. ASSUME NEW h \in Handlers, InsertUser(h), NewUser(h) PROVE users' \in [Emails -> User]
    BY <1>0, <2>2, NewRow
  <2>3. ASSUME NEW e \in Emails, LockEnds(e) \/ Suspend(e) PROVE users' \in [Emails -> User]
    BY <1>0, <2>3, Elapsed
  <2>4. QED
    BY <1>0, <2>1, <2>2, <2>3, UsersStep
<1>2. req' \in [Handlers -> Work]
  BY <1>0, ReqStep, Becomes
<1>3. links' \in Seq(Link) /\ Len(links') <= MaxLinks
  <2>1. CASE UNCHANGED links
    BY <1>0, <2>1 DEF Typed
  <2>2. ASSUME NEW h \in Handlers, MailLink(h) PROVE links' \in Seq(Link) /\ Len(links') <= MaxLinks
    BY <1>0, <2>2, MailFacts
  <2>3. ASSUME NEW t \in DOMAIN links, NEW x \in {"used", "expired"}, Marked(t, x)
        PROVE  links' \in Seq(Link) /\ Len(links') <= MaxLinks
    BY <1>0, <2>3, MarkedFacts DEF Typed
  <2>4. QED
    BY <2>1, <2>2, <2>3, LinksStep
<1>4. redeemed' \in [Links -> Nat]
  <2>1. redeemed \in [Links -> Nat]
    BY <1>0 DEF Typed
  <2>2. redeemed' = redeemed \/ \E t \in DOMAIN links : redeemed' = [redeemed EXCEPT ![t] = @ + 1]
    BY LinksStep DEF MailLink
  <2>3. QED
    BY <2>1, <2>2
<1>5. sessions' \in [Emails -> SUBSET (Passwords \cup {NoPassword})]
      /\ overtaken' \in [Emails -> BOOLEAN]
  <2>1. /\ sessions \in [Emails -> SUBSET (Passwords \cup {NoPassword})]
        /\ overtaken \in [Emails -> BOOLEAN]
    BY <1>0 DEF Typed
  <2>2. ASSUME NEW h \in Handlers, OpenSession(h) PROVE <1>5!1 /\ <1>5!2
    <3>1. req[h] \in Entering
      BY <1>0, <2>2, WorkKinds DEF OpenSession
    <3>2. PICK e \in Emails, p \in Passwords : e = req[h].who /\ p = req[h].pw
      BY <3>1 DEF Entering
    <3>3. /\ sessions' = [sessions EXCEPT ![e] = @ \cup {p}]
          /\ overtaken' = [overtaken EXCEPT ![e] = @ \/ p # users[e].password]
      BY <2>2, <3>2 DEF OpenSession
    <3>4. QED
      BY <2>1, <3>3
  <2>3. ASSUME NEW h \in Handlers, Revoke(h) \/ Issue(h) \/ CutOff(h) PROVE <1>5!1 /\ <1>5!2
    BY <2>1, <2>3 DEF Revoke, Issue, CutOff
  <2>4. CASE UNCHANGED <<sessions, overtaken>>
    BY <2>1, <2>4
  <2>5. QED
    BY <2>2, <2>3, <2>4, NextCases
       DEF Signup, Login, Change, AskLink, VerifyEmail, Reset, HandleCallback, OAuthCutOff,
           LockEnds, Suspend, LinkExpires, FlowExpires, Authorize, Continue, Create, MailLink,
           SetVerified, Welcome, Fail, Consume, SetPassword, ChangePassword,
           CallbackStep, FindLink, FindEmail, InsertLinkOrNot, Patch, InsertUser, InsertLink
<1>6. oauth' \subseteq OAuthRow
  <2>1. oauth \subseteq OAuthRow
    BY <1>0 DEF Typed
  <2>2. ASSUME NEW p \in Profiles, NEW e \in Emails, NEW own \in BOOLEAN, oauth' = Linked(p, e, own)
        PROVE  oauth' \subseteq OAuthRow
    <3>1. [provider |-> p.provider, account |-> p.account, who |-> e,
           verified |-> p.emailVerified, own |-> own] \in OAuthRow
      BY ProfileTyped DEF OAuthRow
    <3>2. QED
      BY <2>1, <2>2, <3>1 DEF Linked
  <2>3. QED
    BY <2>1, <2>2, IdentityStep
<1>7. halved' \subseteq Emails
  <2>1. halved \subseteq Emails
    BY <1>0 DEF Typed
  <2>2. ASSUME NEW h \in Handlers, req[h].at = "insertLink" PROVE req[h].profile.email \in Emails
    BY <1>0, <2>2 DEF StillTrue
  <2>3. ASSUME NEW h \in Handlers, InsertLink(h) \/ OAuthCutOff(h) PROVE halved' \subseteq Emails
    <3>1. halved' = halved \/ /\ req[h].at = "insertLink"
                              /\ halved' = halved \cup {req[h].profile.email}
      BY <2>3 DEF InsertLink, OAuthCutOff
    <3>2. QED
      BY <2>1, <2>2, <3>1
  <2>4. CASE UNCHANGED halved
    BY <2>1, <2>4
  <2>5. QED
    BY <2>3, <2>4, NextCases
       DEF HandleCallback, CallbackStep, FindLink, FindEmail, InsertLinkOrNot, Patch, InsertUser,
           Issue, FlowExpires, Authorize
<1>8. flows' \in [Flows -> Providers \cup {"new", "gone"}]
  <2>1. flows \in [Flows -> Providers \cup {"new", "gone"}]
    BY <1>0 DEF Typed
  <2>2. ASSUME NEW f \in Flows, NEW provider \in Providers, Authorize(f, provider)
        PROVE  flows' \in [Flows -> Providers \cup {"new", "gone"}]
    BY <2>1, <2>2 DEF Authorize
  <2>3. ASSUME NEW f \in Flows, FlowExpires(f) \/ \E h \in Handlers, p \in Profiles : HandleCallback(h, f, p)
        PROVE  flows' \in [Flows -> Providers \cup {"new", "gone"}]
    BY <2>1, <2>3 DEF FlowExpires, HandleCallback
  <2>4. CASE UNCHANGED flows
    BY <2>1, <2>4
  <2>5. QED
    BY <2>2, <2>3, <2>4, NextCases
       DEF CallbackStep, FindLink, FindEmail, InsertLinkOrNot, Patch, InsertUser, InsertLink,
           Issue, OAuthCutOff
<1>9. failures' \in [Emails -> 0 .. MaxFailed]
  BY <1>0, FailuresTyped
<1>10. QED
  BY <1>1, <1>2, <1>3, <1>4, <1>5, <1>6, <1>7, <1>8, <1>9 DEF Typed

-----------------------------------------------------------------------------
(* What handlers know stays true.                                           *)

LEMMA NamedAreThere ==
  ASSUME Settled, [OAuthNext]_allVars, NEW h \in Handlers, req[h].at \in Named
  PROVE  req[h].who \in Emails /\ users[req[h].who].there /\ users'[req[h].who].there
<1>1. req[h] \in Work /\ users[req[h].who].there
  BY DEF Settled, Typed, StillTrue
<1>2. req[h].who \in Emails
  BY <1>1, WorkKinds
     DEF Named, Mailing, Failing, Entering, Consuming, Verifying, Setting, Revoking, Linking, Issuing
<1>3. QED
  BY <1>1, <1>2, Grows

LEMMA StillTrueKept ==
  ASSUME Settled, [OAuthNext]_allVars, NEW g \in Handlers, req'[g] = req[g]
  PROVE  StillTrue(g)'
<1> DEFINE r == req[g]
<1>0. StillTrue(g) /\ r \in Work
  BY DEF Settled, Typed
<1>1. \A e \in Emails : users[e].there => users'[e].there
  BY Grows
<1>3. r.at \in Named => users'[r.who].there
  BY NamedAreThere
<1>4. r.at = "insertLink" => users'[r.profile.email].there
  BY <1>0, <1>1 DEF StillTrue
<1>5. r.at = "consume" => r.link \in DOMAIN links' /\ links'[r.link].who = r.who
  BY <1>0, Grows DEF StillTrue
<1>6. r.at = "fail" => r.fails <= failures'[r.who]
  <2> SUFFICES ASSUME r.at = "fail" PROVE r.fails <= failures'[r.who]
    OBVIOUS
  <2>1. r.who \in Emails /\ r.fails \in Nat
    BY <1>0, WorkKinds, LimitsTyped DEF Failing
  <2>2. failures[r.who] \in Nat /\ failures'[r.who] \in Nat
    <3>1. failures \in [Emails -> 0 .. MaxFailed] /\ failures' \in [Emails -> 0 .. MaxFailed]
      BY FailuresTyped DEF Settled, Typed
    <3>2. QED
      BY <2>1, <3>1, LimitsTyped
  <2>3. r.fails <= failures[r.who] /\ failures[r.who] <= failures'[r.who]
    BY <1>0, <2>1, Grows DEF StillTrue
  <2>4. QED
    BY <2>1, <2>2, <2>3
<1>7. QED
  BY <1>0, <1>3, <1>4, <1>5, <1>6 DEF StillTrue

(* What a step tells the handler that takes it.                             *)
Fresh(h, w) ==
  /\ w.at \in Named => w.who \in Emails /\ users'[w.who].there
  /\ w.at = "revoke" /\ w.next # Idle => w.next.at = "session" /\ w.next.who = w.who
  /\ w.at \in {"findEmail", "insertUser", "insertLink"} => w.profile.email \in Emails
  /\ w.at = "insertLink" => users'[w.profile.email].there
  /\ w.at = "link" => w.profile.emailVerified
  /\ w.at = "consume" => w.link \in DOMAIN links' /\ links'[w.link].who = w.who
  /\ w.at = "fail" => w.fails <= failures'[w.who]

LEMMA FreshIsTrue ==
  ASSUME NEW h \in Handlers, NEW w, req'[h] = w, Fresh(h, w)
  PROVE  StillTrue(h)'
BY DEF Fresh, StillTrue

LEMMA StillTrueStep ==
  ASSUME Settled, LockNeedsFailures, [OAuthNext]_allVars, NEW g \in Handlers
  PROVE  StillTrue(g)'
<1>0. /\ Typed /\ OfAccounts /\ (\A h \in Handlers : StillTrue(h)) /\ Fresh(g, Idle)
      /\ req \in [Handlers -> Work] /\ users \in [Emails -> User]
      /\ \A e \in Emails : users[e].there => users'[e].there
  BY Grows DEF Settled, Typed, Fresh, Idle, Named
\* It is enough to look at what a step gives to its handler.
<1>1. ASSUME NEW h \in Handlers, NEW w, Become(h, w), Fresh(h, w) PROVE StillTrue(g)'
  <2>1. req'[h] = w /\ (g # h => req'[g] = req[g])
    BY <1>0, <1>1, Becomes
  <2>2. CASE g = h
    BY <1>1, <2>1, <2>2, FreshIsTrue
  <2>3. CASE g # h
    BY <2>1, <2>3, StillTrueKept
  <2>4. QED
    BY <2>2, <2>3
<1>2. \A h \in Handlers : Fresh(h, Idle)
  BY DEF Fresh, Idle, Named
<1>3. ASSUME NEW h \in Handlers, NEW e \in Emails, NEW p \in Passwords,
             Signup(h, e, p) \/ Login(h, e, p) \/ Change(h, e, p)
      PROVE  StillTrue(g)'
  <2>1. PICK w \in Creating \cup Failing \cup Entering \cup Setting :
          /\ Become(h, w) /\ w.who = e
          /\ w.at # "create" => users[e].there
          /\ w.at = "fail" => w.fails = users[e].fails
          /\ w.at \in {"create", "fail", "welcome", "change"}
    BY <1>0, <1>3, RequestWork
  <2>2. w.at = "fail" => w.fails <= failures'[e]
    <3>1. users[e].fails <= failures[e] /\ failures' = failures
      BY <1>0, <1>3, RequestWork DEF LockNeedsFailures
    <3>2. QED
      BY <2>1, <3>1
  <2>3. Fresh(h, w)
    BY <1>0, <2>1, <2>2 DEF Fresh, Named
  <2>4. QED
    BY <1>1, <2>1, <2>3
<1>4. ASSUME NEW h \in Handlers, NEW e \in Emails, NEW purpose \in Purposes, AskLink(h, e, purpose)
      PROVE  StillTrue(g)'
  <2> DEFINE w == [at |-> "mail", who |-> e, purpose |-> purpose]
  <2>1. Become(h, w) /\ users[e].there
    BY <1>4 DEF AskLink
  <2>2. Fresh(h, w)
    BY <1>0, <2>1 DEF Fresh, Named
  <2>3. QED
    BY <1>1, <2>1, <2>2
<1>5. ASSUME NEW h \in Handlers, NEW t \in DOMAIN links, VerifyEmail(h, t) PROVE StillTrue(g)'
  <2> DEFINE w == [at |-> "setVerified", who |-> links[t].who]
  <2>1. Become(h, w) /\ links[t].who \in Emails /\ users[links[t].who].there
    BY <1>0, <1>5, LinkDomain DEF VerifyEmail, OfAccounts, Link
  <2>2. Fresh(h, w)
    BY <1>0, <2>1 DEF Fresh, Named
  <2>3. QED
    BY <1>1, <2>1, <2>2
<1>6. ASSUME NEW h \in Handlers, NEW t \in DOMAIN links, NEW p \in Passwords, Reset(h, t, p)
      PROVE  StillTrue(g)'
  <2> DEFINE w == [at |-> "consume", who |-> links[t].who, pw |-> p, link |-> t]
  <2>1. /\ Become(h, w) /\ links[t].who \in Emails /\ users[links[t].who].there
        /\ links' = links
    BY <1>0, <1>6, LinkDomain DEF Reset, OfAccounts, Link
  <2>2. Fresh(h, w)
    BY <1>0, <2>1 DEF Fresh, Named
  <2>3. QED
    BY <1>1, <2>1, <2>2
<1>7. ASSUME NEW h \in Handlers, NEW f \in Flows, NEW p \in Profiles, HandleCallback(h, f, p)
      PROVE  StillTrue(g)'
  <2> DEFINE w == [at |-> "findLink", profile |-> p]
  <2>1. Become(h, w) \/ UNCHANGED req
    BY <1>7 DEF HandleCallback
  <2>2. Fresh(h, w)
    BY DEF Fresh, Named
  <2>3. QED
    BY <1>1, <2>1, <2>2, StillTrueKept
<1>8. ASSUME NEW h \in Handlers, OAuthCutOff(h) PROVE StillTrue(g)'
  BY <1>1, <1>2, <1>8 DEF OAuthCutOff, CutOff
<1>9. CASE UNCHANGED req
  BY <1>9, StillTrueKept
<1>10. ASSUME NEW h \in Handlers, Continue(h) PROVE StillTrue(g)'
  <2> DEFINE e == req[h].who
  <2>1. CASE Become(h, Idle)
    BY <1>1, <1>2, <2>1
  <2>2. CASE /\ Create(h) /\ Writes(h)
             /\ \E w \in Mailing : w.who = e /\ Become(h, w)
    <3>1. PICK w \in Mailing : w.who = e /\ Become(h, w)
      BY <2>2
    <3>2. PICK d \in Emails, u \in User :
            d = e /\ users' = [users EXCEPT ![d] = u] /\ Row(h, d, u)
      BY <1>0, <2>2, Written
    <3>3. e \in Emails /\ users'[e].there
      BY <1>0, <2>2, <3>2 DEF Row, Create
    <3>4. Fresh(h, w)
      BY <3>1, <3>3 DEF Fresh, Mailing
    <3>5. QED
      BY <1>1, <3>1, <3>4
  <2>3. CASE Welcome(h) /\ \E w \in Entering : w.who = e /\ Become(h, w)
    <3>1. PICK w \in Entering : w.who = e /\ Become(h, w)
      BY <2>3
    <3>2. e \in Emails /\ users'[e].there
      BY <2>3, NamedAreThere DEF Welcome, Named
    <3>3. Fresh(h, w)
      BY <3>1, <3>2 DEF Fresh, Entering
    <3>4. QED
      BY <1>1, <3>1, <3>3
  <2>4. CASE Consume(h) /\ \E w \in Setting : w.at = "setPassword" /\ w.who = e /\ Become(h, w)
    <3>1. PICK w \in Setting : w.at = "setPassword" /\ w.who = e /\ Become(h, w)
      BY <2>4
    <3>2. e \in Emails /\ users'[e].there
      BY <2>4, NamedAreThere DEF Consume, Named
    <3>3. Fresh(h, w)
      BY <3>1, <3>2 DEF Fresh
    <3>4. QED
      BY <1>1, <3>1, <3>3
  <2>5. CASE /\ SetPassword(h) \/ ChangePassword(h)
             /\ \E w \in Revoking : /\ w.who = e /\ Become(h, w)
                                    /\ \/ w.next = Idle
                                       \/ w.next.at = "session" /\ w.next.who = w.who
    <3>1. PICK w \in Revoking : /\ w.who = e /\ Become(h, w)
                                /\ \/ w.next = Idle
                                   \/ w.next.at = "session" /\ w.next.who = w.who
      BY <2>5
    <3>2. e \in Emails /\ users'[e].there
      BY <2>5, NamedAreThere DEF SetPassword, ChangePassword, Named
    <3>3. Fresh(h, w)
      BY <3>1, <3>2 DEF Fresh, Revoking
    <3>4. QED
      BY <1>1, <3>1, <3>3
  <2>6. CASE Revoke(h) /\ Become(h, req[h].next) /\ req[h].next \in {Idle} \cup Entering
    <3>1. e \in Emails /\ users'[e].there
      BY <2>6, NamedAreThere DEF Revoke, Named
    <3>2. req[h].next # Idle => req[h].next.at = "session" /\ req[h].next.who = e
      BY <1>0, <2>6 DEF StillTrue, Revoke
    <3>3. Fresh(h, req[h].next)
      BY <1>2, <3>1, <3>2 DEF Fresh
    <3>4. QED
      BY <1>1, <2>6, <3>3
  <2>7. QED
    BY <1>0, <1>10, <2>1, <2>2, <2>3, <2>4, <2>5, <2>6, ContinueWork
<1>11. ASSUME NEW h \in Handlers, CallbackStep(h) PROVE StillTrue(g)'
  <2> DEFINE r == req[h]
  <2>1. CASE Become(h, Idle)
    BY <1>1, <1>2, <2>1
  <2>2. CASE \E w \in Issuing : Become(h, w) /\ (w.who \in Emails => users'[w.who].there)
    <3>1. PICK w \in Issuing : Become(h, w) /\ (w.who \in Emails => users'[w.who].there)
      BY <2>2
    <3>2. Fresh(h, w)
      BY <3>1 DEF Fresh, Issuing
    <3>3. QED
      BY <1>1, <3>1, <3>2
  <2>3. CASE \E w \in Knocking : /\ w.at \in {"findEmail", "insertUser"}
                                 /\ w.profile.email \in Emails /\ Become(h, w)
    <3>1. PICK w \in Knocking : /\ w.at \in {"findEmail", "insertUser"}
                                /\ w.profile.email \in Emails /\ Become(h, w)
      BY <2>3
    <3>2. Fresh(h, w)
      BY <3>1 DEF Fresh, Named
    <3>3. QED
      BY <1>1, <3>1, <3>2
  <2>4. CASE \E w \in Linking : /\ w.at = "link" /\ w.profile.emailVerified
                                /\ users[w.who].there /\ Become(h, w)
    <3>1. PICK w \in Linking : /\ w.at = "link" /\ w.profile.emailVerified
                               /\ users[w.who].there /\ Become(h, w)
      BY <2>4
    <3>2. Fresh(h, w)
      BY <1>0, <3>1 DEF Fresh, Linking
    <3>3. QED
      BY <1>1, <3>1, <3>2
  <2>5. CASE InsertLinkOrNot(h) /\ \E w \in Linking : w.at = "patch" /\ w.who = r.who /\ Become(h, w)
    <3>1. PICK w \in Linking : w.at = "patch" /\ w.who = r.who /\ Become(h, w)
      BY <2>5
    <3>2. r.who \in Emails /\ users'[r.who].there
      BY <2>5, NamedAreThere DEF InsertLinkOrNot, Named
    <3>3. Fresh(h, w)
      BY <3>1, <3>2 DEF Fresh
    <3>4. QED
      BY <1>1, <3>1, <3>3
  <2>6. CASE InsertUser(h) /\ NewUser(h) /\ \E w \in Knocking :
               w.at = "insertLink" /\ w.profile = r.profile /\ Become(h, w)
    <3>1. PICK w \in Knocking : w.at = "insertLink" /\ w.profile = r.profile /\ Become(h, w)
      BY <2>6
    <3>2. r.profile.email \in Emails /\ users'[r.profile.email].there
      BY <1>0, <2>6, NewRow
    <3>3. Fresh(h, w)
      BY <3>1, <3>2 DEF Fresh, Named
    <3>4. QED
      BY <1>1, <3>1, <3>3
  <2>7. r.at \in {"link", "patch"} => users'[r.who].there
    BY NamedAreThere DEF Named
  <2>8. r.at = "insertLink" => users'[r.profile.email].there
    BY <1>0 DEF StillTrue
  <2>9. QED
    BY <1>0, <1>11, <2>1, <2>2, <2>3, <2>4, <2>5, <2>6, <2>7, <2>8, CallbackWork
       DEF InsertLinkOrNot, Patch, InsertLink, Issuing
<1>12. QED
  BY <1>3, <1>4, <1>5, <1>6, <1>7, <1>8, <1>9, <1>10, <1>11, NextCases
     DEF LockEnds, Suspend, LinkExpires, FlowExpires, Authorize

-----------------------------------------------------------------------------
(* Accounts and links.                                                      *)

(* What a step writes over a row of users, and who may be behind it.        *)
LEMMA RowStep ==
  ASSUME Settled, [OAuthNext]_allVars, NEW e \in Emails
  PROVE  \/ users'[e] = users[e]
         \/ \E h \in Handlers : /\ Writes(h) /\ req[h].who = e /\ Row(h, e, users'[e])
                                /\ Doing(h)
                                /\ req[h].at = "create" \/ users[e].there
         \/ \E h \in Handlers : /\ InsertUser(h) /\ req[h].profile.email = e /\ ~users[e].there
                                /\ users'[e].there /\ users'[e].password = NoPassword
                                /\ ~users'[e].locked /\ users'[e].fails = 0
         \/ /\ users'[e].there = users[e].there /\ users'[e].password = users[e].password
            /\ users'[e].fails = users[e].fails /\ (users'[e].locked => users[e].locked)
            /\ UNCHANGED <<sessions, failures, overtaken, req, oauth, halved>>
<1>0. Typed /\ users \in [Emails -> User]
  BY DEF Settled, Typed
<1>1. ASSUME NEW h \in Handlers, Writes(h)
      PROVE  \/ users'[e] = users[e]
             \/ /\ req[h].who = e /\ Row(h, e, users'[e])
                /\ req[h].at = "create" \/ users[e].there
  <2>1. PICK d \in Emails, u \in User :
          d = req[h].who /\ users' = [users EXCEPT ![d] = u] /\ Row(h, d, u)
    BY <1>0, <1>1, Written
  <2>2. CASE d # e
    BY <1>0, <2>1, <2>2
  <2>3. CASE d = e
    <3>1. users'[e] = u
      BY <1>0, <2>1, <2>3
    <3>2. req[h].at \in Named \cup {"create"}
      BY <1>1 DEF Writes, Named
    <3>3. req[h].at = "create" \/ users[e].there
      BY <2>1, <2>3, <3>2, NamedAreThere
    <3>4. QED
      BY <2>1, <2>3, <3>1, <3>3
  <2>4. QED
    BY <2>2, <2>3
<1>2. ASSUME NEW h \in Handlers, InsertUser(h), NewUser(h), ~users[req[h].profile.email].there
      PROVE  \/ users'[e] = users[e]
             \/ /\ req[h].profile.email = e /\ ~users[e].there
                /\ users'[e].there /\ users'[e].password = NoPassword
                /\ ~users'[e].locked /\ users'[e].fails = 0
  <2>1. StillTrue(h)
    BY DEF Settled
  <2>2. PICK d \in Emails, u \in User :
           /\ d = req[h].profile.email /\ users' = [users EXCEPT ![d] = u]
           /\ u.there /\ u.password = NoPassword /\ ~u.locked /\ u.fails = 0
    BY <1>0, <1>2, <2>1, NewRow
  <2>3. QED
    BY <1>0, <1>2, <2>2
<1>3. ASSUME NEW d \in Emails, LockEnds(d) \/ Suspend(d)
      PROVE  \/ users'[e] = users[e]
             \/ /\ users'[e].there = users[e].there /\ users'[e].password = users[e].password
                /\ users'[e].fails = users[e].fails /\ (users'[e].locked => users[e].locked)
  <2>1. PICK u \in User : /\ users' = [users EXCEPT ![d] = u]
                          /\ u.there = users[d].there /\ u.password = users[d].password
                          /\ u.fails = users[d].fails /\ (u.locked => users[d].locked)
    BY <1>0, <1>3, Elapsed
  <2>2. QED
    BY <1>0, <2>1
<1>4. QED
  BY <1>1, <1>2, <1>3, UsersStep

LEMMA OfAccountsStep ==
  ASSUME Settled, [OAuthNext]_allVars
  PROVE  OfAccounts'
<1>0. Typed /\ OfAccounts /\ users \in [Emails -> User]
  BY DEF Settled, Typed
<1>1. ASSUME NEW e \in Emails, ~users'[e].there PROVE users'[e].password = NoPassword
  <2>1. ~users[e].there /\ users[e].password = NoPassword
    BY <1>0, <1>1, Grows DEF OfAccounts
  <2>2. ASSUME NEW h \in Handlers, Row(h, e, users'[e]), req[h].at = "create" \/ users[e].there
        PROVE  FALSE
    BY <1>1, <2>1, <2>2 DEF Row
  <2>3. QED
    BY <1>1, <2>1, <2>2, RowStep
<1>2. ASSUME NEW t \in DOMAIN links' PROVE users'[links'[t].who].there
  <2>1. ASSUME t \in DOMAIN links PROVE users'[links'[t].who].there
    BY <1>0, <2>1, Grows, LinkDomain DEF OfAccounts, Link
  <2>2. ASSUME NEW h \in Handlers, MailLink(h), t = Len(links) + 1
        PROVE  users'[links'[t].who].there
    BY <1>0, <2>2, MailFacts, NamedAreThere DEF MailLink, Named
  <2>3. ASSUME NEW u \in DOMAIN links, NEW x \in {"used", "expired"}, Marked(u, x)
        PROVE  t \in DOMAIN links
    BY <1>0, <2>3, MarkedFacts
  <2>4. QED
    BY <1>0, <1>2, <2>1, <2>2, <2>3, LinksStep, MailFacts
<1>3. ASSUME NEW l \in oauth' PROVE users'[l.who].there
  <2>1. CASE l \in oauth
    BY <1>0, <2>1, Grows DEF OfAccounts, Typed, OAuthRow
  <2>2. ASSUME NEW p, NEW e \in Emails, NEW own, oauth' = Linked(p, e, own), users[e].there, l \notin oauth
        PROVE  users'[l.who].there
    <3>1. l.who = e
      BY <2>2 DEF Linked
    <3>2. QED
      BY <2>2, <3>1, Grows
  <2>3. QED
    BY <2>1, <2>2, IdentityStep
<1>4. QED
  BY <1>1, <1>2, <1>3 DEF OfAccounts

LEMMA SpentStep ==
  ASSUME Settled, Spent, [OAuthNext]_allVars
  PROVE  Spent'
<1>0. Typed /\ redeemed \in [Links -> Nat] /\ DOMAIN links \subseteq Links
  BY LinkDomain DEF Settled, Typed
<1>1. ASSUME NEW h \in Handlers, MailLink(h) PROVE Spent'
  <2>1. redeemed' = redeemed
    BY <1>1 DEF MailLink
  <2>2. QED
    BY <1>0, <1>1, <2>1, MailFacts DEF Spent
<1>2. ASSUME NEW u \in DOMAIN links, links[u].state = "live", Marked(u, "used"),
             redeemed' = [redeemed EXCEPT ![u] = @ + 1]
      PROVE  Spent'
  <2>1. redeemed[u] = 0
    BY <1>0, <1>2 DEF Spent
  <2>2. /\ DOMAIN links' = DOMAIN links
        /\ \A t \in DOMAIN links : links'[t].state = IF t = u THEN "used" ELSE links[t].state
    BY <1>0, <1>2, MarkedFacts
  <2>3. \A t \in Links : redeemed'[t] = IF t = u THEN 1 ELSE redeemed[t]
    BY <1>0, <1>2, <2>1
  <2>4. QED
    BY <1>2, <2>2, <2>3 DEF Spent
<1>3. ASSUME NEW u \in DOMAIN links, links[u].state = "live", Marked(u, "expired"),
             UNCHANGED redeemed
      PROVE  Spent'
  <2>1. /\ DOMAIN links' = DOMAIN links
        /\ \A t \in DOMAIN links : links'[t].state = IF t = u THEN "expired" ELSE links[t].state
    BY <1>0, <1>3, MarkedFacts
  <2>2. QED
    BY <1>3, <2>1 DEF Spent
<1>4. CASE UNCHANGED <<links, redeemed>>
  BY <1>4 DEF Spent
<1>5. QED
  BY <1>1, <1>2, <1>3, <1>4, LinksStep

-----------------------------------------------------------------------------
(* Locks.                                                                   *)

LEMMA LockStep ==
  ASSUME Settled, LockNeedsFailures, [OAuthNext]_allVars
  PROVE  LockNeedsFailures'
<1> SUFFICES ASSUME NEW e \in Emails
             PROVE  /\ users'[e].locked => failures'[e] >= MaxFailed
                    /\ users'[e].fails <= failures'[e]
  BY DEF LockNeedsFailures
<1>0. /\ Typed /\ failures[e] \in Nat /\ failures'[e] \in Nat /\ failures[e] <= failures'[e]
      /\ users[e].locked => failures[e] >= MaxFailed
      /\ users[e].fails <= failures[e] /\ users[e].fails \in Nat
      /\ MaxFailed \in Nat \ {0}
  <2>1. /\ failures \in [Emails -> 0 .. MaxFailed] /\ failures' \in [Emails -> 0 .. MaxFailed]
        /\ users[e] \in User
    BY FailuresTyped DEF Settled, Typed
  <2>2. users[e].fails \in 0 .. MaxFailed - 1
    BY <2>1 DEF User
  <2>3. QED
    BY <2>1, <2>2, Grows, LimitsTyped DEF LockNeedsFailures, Settled
<1>1. ASSUME NEW h \in Handlers, Row(h, e, users'[e]), req[h].who = e,
             Doing(h)
      PROVE  /\ users'[e].locked => failures'[e] >= MaxFailed
             /\ users'[e].fails <= failures'[e]
  <2>1. CASE req[h].at # "fail"
    BY <1>0, <1>1, <2>1 DEF Row, Locking, Counting
  <2>2. CASE req[h].at = "fail"
    <3>1. req[h].fails \in Nat /\ req[h].fails <= failures[e]
      BY <1>0, <1>1, <2>2, WorkKinds, LimitsTyped DEF Settled, StillTrue, Typed, Failing
    <3>2. failures'[e] = UpTo(failures[e] + 1)
      BY <1>0, <1>1, <2>2 DEF Doing, Fail, Typed
    <3>3. /\ Locking(h) => failures'[e] >= MaxFailed
          /\ Counting(h) => req[h].fails + 1 <= failures'[e]
      BY <1>0, <3>1, <3>2 DEF Locking, Counting, UpTo
    <3>4. QED
      BY <1>0, <1>1, <3>3 DEF Row
  <2>3. QED
    BY <2>1, <2>2
<1>2. QED
  BY <1>0, <1>1, RowStep
-----------------------------------------------------------------------------
(* Sessions.                                                                *)

(* Only a handler's own step moves it.                                      *)
LEMMA Movers ==
  ASSUME Settled, [OAuthNext]_allVars, NEW g \in Handlers
  PROVE  \/ req'[g] = req[g]
         \/ req[g] = Idle
         \/ Continue(g) \/ CallbackStep(g) \/ OAuthCutOff(g)
<1>0. req \in [Handlers -> Work]
  BY DEF Settled, Typed
<1>1. ASSUME NEW h \in Handlers, NEW w, Become(h, w), h # g PROVE req'[g] = req[g]
  BY <1>0, <1>1, Becomes
<1>2. ASSUME NEW h \in Handlers, h # g, Continue(h) PROVE req'[g] = req[g]
  BY <1>1, <1>2 DEF Settled, Typed, Continue, Create, MailLink, SetVerified, Fail, Welcome,
     OpenSession, Consume, SetPassword, ChangePassword, Revoke
<1>3. ASSUME NEW h \in Handlers, h # g, CallbackStep(h) PROVE req'[g] = req[g]
  BY <1>1, <1>3 DEF CallbackStep, FindLink, FindEmail, InsertLinkOrNot, Patch, InsertUser,
     InsertLink, Issue, SignIn
<1>4. ASSUME NEW h \in Handlers, h # g, OAuthCutOff(h) PROVE req'[g] = req[g]
  BY <1>1, <1>4 DEF OAuthCutOff, CutOff
<1>5. ASSUME NEW h \in Handlers, NEW e \in Emails, NEW p \in Passwords,
             Signup(h, e, p) \/ Login(h, e, p) \/ Change(h, e, p)
      PROVE  req'[g] = req[g] \/ req[g] = Idle
  BY <1>1, <1>5 DEF Signup, Login, Change
<1>6. ASSUME NEW h \in Handlers, NEW e \in Emails, NEW purpose \in Purposes, AskLink(h, e, purpose)
      PROVE  req'[g] = req[g] \/ req[g] = Idle
  BY <1>1, <1>6 DEF AskLink
<1>7. ASSUME NEW h \in Handlers, NEW t \in DOMAIN links, NEW p,
             VerifyEmail(h, t) \/ Reset(h, t, p)
      PROVE  req'[g] = req[g] \/ req[g] = Idle
  BY <1>1, <1>7 DEF VerifyEmail, Reset
<1>8. ASSUME NEW h \in Handlers, NEW f \in Flows, NEW p \in Profiles, HandleCallback(h, f, p)
      PROVE  req'[g] = req[g] \/ req[g] = Idle
  BY <1>1, <1>8 DEF HandleCallback
<1>9. QED
  BY <1>2, <1>3, <1>4, <1>5, <1>6, <1>7, <1>8, NextCases
     DEF LockEnds, Suspend, LinkExpires, FlowExpires, Authorize

(* Which sessions an address gets, and that being overtaken is for good.    *)
LEMMA SessionsStep ==
  ASSUME Settled, [OAuthNext]_allVars, NEW e \in Emails
  PROVE  /\ overtaken[e] => overtaken'[e]
         /\ \/ sessions'[e] \subseteq sessions[e] \cup {NoPassword}
            \/ /\ users' = users
               /\ sessions'[e] \subseteq sessions[e] \cup {users[e].password}
            \/ overtaken'[e]
<1>0. /\ Typed /\ overtaken \in [Emails -> BOOLEAN]
      /\ sessions \in [Emails -> SUBSET (Passwords \cup {NoPassword})]
  BY DEF Settled, Typed
<1> DEFINE Goal == /\ overtaken[e] => overtaken'[e]
                   /\ \/ sessions'[e] \subseteq sessions[e] \cup {NoPassword}
                      \/ /\ users' = users
                         /\ sessions'[e] \subseteq sessions[e] \cup {users[e].password}
                      \/ overtaken'[e]
<1>1. ASSUME NEW h \in Handlers, OpenSession(h) PROVE Goal
  <2>1. req[h] \in Entering
    BY <1>0, <1>1, WorkKinds DEF OpenSession, Typed
  <2>2. PICK d \in Emails, p \in Passwords : d = req[h].who /\ p = req[h].pw
    BY <2>1 DEF Entering
  <2>3. /\ sessions' = [sessions EXCEPT ![d] = @ \cup {p}]
        /\ overtaken' = [overtaken EXCEPT ![d] = @ \/ p # users[d].password]
        /\ users' = users
    BY <1>1, <2>2 DEF OpenSession
  <2>4. CASE d # e
    BY <1>0, <2>3, <2>4
  <2>5. CASE d = e
    <3>1. sessions'[e] = sessions[e] \cup {p}
      BY <1>0, <2>3, <2>5
    <3>2. overtaken'[e] = (overtaken[e] \/ p # users[e].password)
      BY <1>0, <2>3, <2>5
    <3>3. QED
      BY <2>3, <3>1, <3>2
  <2>6. QED
    BY <2>4, <2>5
<1>2. ASSUME NEW h \in Handlers, Revoke(h) \/ Issue(h) PROVE Goal
  <2>1. \A d \in Emails : sessions'[d] \subseteq sessions[d] \cup {NoPassword}
    BY <1>0, <1>2 DEF Revoke, Issue
  <2>2. overtaken' = overtaken
    BY <1>2 DEF Revoke, Issue
  <2>3. QED
    BY <2>1, <2>2
<1>3. ASSUME NEW h \in Handlers, CutOff(h) PROVE Goal
  BY <1>0, <1>3 DEF CutOff
<1>4. CASE UNCHANGED <<sessions, overtaken>>
  BY <1>4
<1>5. QED
  BY <1>1, <1>2, <1>3, <1>4, NextCases
     DEF Signup, Login, Change, AskLink, VerifyEmail, Reset, HandleCallback, OAuthCutOff,
         LockEnds, Suspend, LinkExpires, FlowExpires, Authorize, Continue, Create, MailLink,
         SetVerified, Welcome, Fail, Consume, SetPassword, ChangePassword,
         CallbackStep, FindLink, FindEmail, InsertLinkOrNot, Patch, InsertUser, InsertLink

(* A password that replaces another one is followed by a revocation.        *)
LEMMA PasswordStep ==
  ASSUME Settled, [OAuthNext]_allVars, NEW e \in Emails
  PROVE  \/ users'[e].password = users[e].password
         \/ ~users[e].there /\ users[e].password = NoPassword
         \/ \E h \in Handlers : req'[h].at = "revoke" /\ req'[h].who = e
<1>0. Typed /\ req \in [Handlers -> Work] /\ OfAccounts
  BY DEF Settled, Typed
<1>1. ASSUME NEW h \in Handlers, req[h].who = e, SetPassword(h) \/ ChangePassword(h)
      PROVE  req'[h].at = "revoke" /\ req'[h].who = e
  BY <1>0, <1>1 DEF SetPassword, ChangePassword, Become
<1>2. ASSUME NEW h \in Handlers, req[h].who = e, Row(h, e, users'[e]), Doing(h)
      PROVE  \/ users'[e].password = users[e].password
             \/ ~users[e].there
             \/ req'[h].at = "revoke" /\ req'[h].who = e
  BY <1>1, <1>2 DEF Row, Doing, Renewing
<1>3. ~users[e].there => users[e].password = NoPassword
  BY <1>0 DEF OfAccounts
<1>4. QED
  BY <1>2, <1>3, RowStep

LEMMA SessionsEndStep ==
  ASSUME Settled, OldSessionsEnd, [OAuthNext]_allVars
  PROVE  OldSessionsEnd'
<1> SUFFICES ASSUME NEW e \in Emails, ~overtaken'[e]
             PROVE  \/ \E h \in Handlers : req'[h].at = "revoke" /\ req'[h].who = e
                    \/ sessions'[e] \subseteq {users'[e].password, NoPassword}
  BY DEF OldSessionsEnd
<1>0. /\ Typed /\ ~overtaken[e] /\ overtaken \in [Emails -> BOOLEAN]
      /\ sessions \in [Emails -> SUBSET (Passwords \cup {NoPassword})]
  BY SessionsStep DEF Settled, Typed
<1>1. ASSUME NEW h \in Handlers, req[h].at = "revoke", req[h].who = e
      PROVE  req'[h] = req[h] \/ sessions'[e] = {}
  <2>1. CASE Revoke(h)
    BY <1>0, <1>1, <2>1 DEF Revoke
  <2>2. ~OAuthCutOff(h)
    BY <1>0, <1>1 DEF OAuthCutOff, CutOff
  <2>3. Continue(h) => Revoke(h)
    BY <1>1 DEF Continue, Create, MailLink, SetVerified, Fail, Welcome, OpenSession, Consume,
       SetPassword, ChangePassword
  <2>4. ~CallbackStep(h) /\ req[h] # Idle
    BY <1>1 DEF CallbackStep, FindLink, FindEmail, InsertLinkOrNot, Patch, InsertUser,
       InsertLink, Issue, Idle
  <2>5. QED
    BY <2>1, <2>2, <2>3, <2>4, Movers
<1>2. CASE \E h \in Handlers : req[h].at = "revoke" /\ req[h].who = e
  BY <1>1, <1>2
<1>3. CASE sessions[e] \subseteq {users[e].password, NoPassword}
  BY <1>3, SessionsStep, PasswordStep
<1>4. QED
  BY <1>0, <1>2, <1>3 DEF OldSessionsEnd

-----------------------------------------------------------------------------
(* Identities and the ways into an account.                                 *)

LEMMA ProvenStep ==
  ASSUME Settled, IdentityIsProven, [OAuthNext]_allVars
  PROVE  IdentityIsProven'
<1>1. CASE oauth' = oauth
  BY <1>1 DEF IdentityIsProven
<1>2. ASSUME NEW p \in Profiles, NEW e \in Emails, NEW own \in BOOLEAN,
             LinkOf(p) = {}, oauth' = Linked(p, e, own), own \/ p.emailVerified
      PROVE  IdentityIsProven'
  <2> DEFINE n == [provider |-> p.provider, account |-> p.account, who |-> e,
                   verified |-> p.emailVerified, own |-> own]
  <2>1. /\ n.provider = p.provider /\ n.account = p.account
        /\ n.verified \/ n.own
        /\ oauth' = oauth \cup {n}
    BY <1>2 DEF Linked
  <2>2. \A l \in oauth : ~(l.provider = p.provider /\ l.account = p.account)
    BY <1>2 DEF LinkOf
  <2> HIDE DEF n
  <2>3. QED
    BY <2>1, <2>2 DEF IdentityIsProven
<1>3. QED
  BY <1>1, <1>2, IdentityStep

LEMMA DoorStep ==
  ASSUME Settled, EveryAccountHasADoor, [OAuthNext]_allVars
  PROVE  EveryAccountHasADoor'
<1> SUFFICES ASSUME NEW e \in Emails, users'[e].there, users'[e].password = NoPassword,
                    e \notin halved'
             PROVE  \/ \E l \in oauth' : l.who = e
                    \/ \E h \in Handlers : req'[h].at = "insertLink" /\ req'[h].profile.email = e
  BY DEF EveryAccountHasADoor
<1>0. /\ Typed /\ req \in [Handlers -> Work] /\ oauth \subseteq oauth' /\ e \notin halved
      /\ NoPassword \notin Passwords
  <2>1. oauth \subseteq oauth'
    BY IdentityStep DEF Linked
  <2>2. halved \subseteq halved'
    BY NextCases
       DEF HandleCallback, OAuthCutOff, FlowExpires, Authorize, CallbackStep, FindLink, FindEmail,
           InsertLinkOrNot, Patch, InsertUser, InsertLink, Issue
  <2>3. QED
    BY <2>1, <2>2, PasswordsTyped DEF Settled, Typed
<1>1. CASE users[e].there /\ users[e].password = NoPassword
  <2>1. CASE \E l \in oauth : l.who = e
    BY <1>0, <2>1
  <2>2. ASSUME NEW h \in Handlers, req[h].at = "insertLink", req[h].profile.email = e
        PROVE  req'[h] = req[h] \/ \E l \in oauth' : l.who = e
    <3>1. CASE InsertLink(h)
      <4> DEFINE p == req[h].profile
                 n == [provider |-> p.provider, account |-> p.account, who |-> e,
                       verified |-> p.emailVerified, own |-> TRUE]
      <4>1. n.who = e
        OBVIOUS
      <4>2. LinkOf(p) # {} => halved' = halved \cup {e}
        BY <2>2, <3>1 DEF InsertLink
      <4>3. LinkOf(p) = {} => oauth' = oauth \cup {n}
        BY <2>2, <3>1 DEF InsertLink, Linked
      <4> HIDE DEF n
      <4>4. QED
        BY <4>1, <4>2, <4>3
    <3>2. ~OAuthCutOff(h)
      BY <2>2 DEF OAuthCutOff
    <3>3. CallbackStep(h) => InsertLink(h)
      BY <2>2 DEF CallbackStep, FindLink, FindEmail, InsertLinkOrNot, Patch, InsertUser, Issue
    <3>4. ~Continue(h) /\ req[h] # Idle
      BY <2>2 DEF Continue, Create, MailLink, SetVerified, Fail, Welcome, OpenSession, Consume,
         SetPassword, ChangePassword, Revoke, Idle
    <3>5. QED
      BY <3>1, <3>2, <3>3, <3>4, Movers
  <2>3. QED
    BY <1>0, <1>1, <2>1, <2>2 DEF EveryAccountHasADoor
<1>2. CASE ~(users[e].there /\ users[e].password = NoPassword)
  <2>1. ASSUME NEW h \in Handlers, Row(h, e, users'[e]) PROVE FALSE
    BY <1>0, <1>2, <2>1 DEF Row, Renewing
  <2>2. ASSUME NEW h \in Handlers, InsertUser(h), req[h].profile.email = e, ~users[e].there
        PROVE  req'[h].at = "insertLink" /\ req'[h].profile.email = e
    <3>1. req[h] \in Knocking
      BY <1>0, <2>2, WorkKinds DEF InsertUser
    <3>2. req'[h] = [req[h] EXCEPT !.at = "insertLink"]
      BY <1>0, <2>2 DEF InsertUser, Become
    <3>3. QED
      BY <2>2, <3>1, <3>2 DEF Knocking
  <2>3. QED
    BY <1>2, <2>1, <2>2, RowStep
<1>3. QED
  BY <1>1, <1>2

-----------------------------------------------------------------------------
(* The invariant.                                                           *)

LEMMA InitInvariant == ASSUME OAuthInit PROVE IInv
<1>1. Nobody \in User /\ ~Nobody.there /\ Nobody.password = NoPassword /\ ~Nobody.locked
      /\ Nobody.fails = 0
  BY NobodyTyped DEF Nobody
<1>2. \A e \in Emails : users[e] = Nobody
  BY DEF OAuthInit, Init
<1>3. DOMAIN links = {} /\ links \in Seq(Link) /\ Len(links) = 0
  BY DEF OAuthInit, Init
<1>4. \A h \in Handlers : req[h].at = "idle"
  BY DEF OAuthInit, Init, Idle
<1>5. Typed
  <2>1. users \in [Emails -> User] /\ req \in [Handlers -> Work]
    BY <1>1 DEF OAuthInit, Init, Work
  <2>2. /\ sessions \in [Emails -> SUBSET (Passwords \cup {NoPassword})]
        /\ redeemed \in [Links -> Nat] /\ overtaken \in [Emails -> BOOLEAN]
    BY DEF OAuthInit, Init
  <2>3. failures \in [Emails -> 0 .. MaxFailed]
    BY LimitsTyped DEF OAuthInit, Init
  <2>4. /\ flows \in [Flows -> Providers \cup {"new", "gone"}]
        /\ oauth \subseteq OAuthRow /\ halved \subseteq Emails
    BY DEF OAuthInit
  <2>5. QED
    BY <1>3, <2>1, <2>2, <2>3, <2>4, LimitsTyped DEF Typed
<1>6. OfAccounts
  BY <1>1, <1>2, <1>3 DEF OfAccounts, OAuthInit
<1>7. \A h \in Handlers : StillTrue(h)
  BY <1>4 DEF StillTrue, Named
<1>8. Spent
  BY <1>3 DEF Spent, OAuthInit, Init
<1>9. LockNeedsFailures
  <2>1. \A e \in Emails : failures[e] = 0 /\ ~users[e].locked /\ users[e].fails = 0
    BY <1>1, <1>2 DEF OAuthInit, Init
  <2>2. \A e \in Emails : users[e].fails <= failures[e]
    <3>1. \A e \in Emails : failures[e] = 0 /\ users[e].fails = 0
      BY <2>1, Zenon
    <3>2. 0 <= 0
      OBVIOUS
    <3>3. QED
      BY <3>1, <3>2, Zenon
  <2>3. \A e \in Emails : users[e].locked => failures[e] >= MaxFailed
    BY <2>1, Zenon
  <2>4. QED
    BY <2>2, <2>3, Zenon DEF LockNeedsFailures
<1>10. OldSessionsEnd
  BY DEF OldSessionsEnd, OAuthInit, Init
<1>11. IdentityIsProven /\ EveryAccountHasADoor
  BY <1>1, <1>2 DEF IdentityIsProven, EveryAccountHasADoor, OAuthInit
<1>12. QED
  BY <1>5, <1>6, <1>7, <1>8, <1>9, <1>10, <1>11 DEF IInv, Settled

LEMMA Invariant == OAuthSpec => []IInv
<1>1. OAuthInit => IInv
  BY InitInvariant
<1>2. IInv /\ [OAuthNext]_allVars => IInv'
  <2> SUFFICES ASSUME IInv, [OAuthNext]_allVars PROVE IInv'
    OBVIOUS
  <2>1. Settled'
    BY TypedStep, OfAccountsStep, StillTrueStep DEF IInv, Settled
  <2>2. Spent' /\ LockNeedsFailures' /\ OldSessionsEnd'
    BY SpentStep, LockStep, SessionsEndStep DEF IInv
  <2>3. IdentityIsProven' /\ EveryAccountHasADoor'
    BY ProvenStep, DoorStep DEF IInv
  <2>4. QED
    BY <2>1, <2>2, <2>3 DEF IInv
<1>3. QED
  BY <1>1, <1>2, PTL DEF OAuthSpec
-----------------------------------------------------------------------------
(* Theorems.                                                                *)

(* Every statement of auth-service.ts and oauth-service.ts leaves rows,     *)
(* links, sessions and callbacks well formed, and an identity always has    *)
(* the account it signs in to.                                              *)
THEOREM TypeCorrect == OAuthSpec => []OAuthTypeOK
<1>1. IInv => OAuthTypeOK
  <2> SUFFICES ASSUME IInv PROVE OAuthTypeOK
    OBVIOUS
  <2>1. Typed /\ OfAccounts
    BY DEF IInv, Settled
  <2>2. ASSUME NEW h \in Handlers
        PROVE  /\ req[h].at \in Steps \cup Callback
               /\ req[h].at \in Callback => req[h].profile \in Profiles
    <3>1. req[h] \in Work
      BY <2>1 DEF Typed
    <3>2. req[h].at \in Callback => req[h] \in Knocking \cup Linking \cup Issuing
      BY <3>1, WorkKinds DEF Callback
    <3>3. QED
      BY <3>1, <3>2, WorkKinds DEF Knocking, Linking, Issuing
  <2>3. QED
    BY <2>1, <2>2 DEF Typed, OfAccounts, OAuthTypeOK
<1>2. QED
  BY <1>1, Invariant, PTL

(* consumeOneTimeToken: a link is redeemed once at most, by however many    *)
(* requests at the same time, and a request that peeked at a link still     *)
(* acts for its owner when it claims it.                                    *)
THEOREM LinksAreSpentOnce == OAuthSpec => []LinkSpentOnce
<1>1. IInv => LinkSpentOnce
  <2> SUFFICES ASSUME IInv PROVE LinkSpentOnce
    OBVIOUS
  <2>1. DOMAIN links \subseteq Links
    BY LinkDomain DEF IInv, Settled
  <2>2. \A t \in DOMAIN links : redeemed[t] = IF links[t].state = "used" THEN 1 ELSE 0
    BY <2>1 DEF IInv, Spent
  <2>3. \A h \in Handlers : req[h].at = "consume" => links[req[h].link].who = req[h].who
    BY DEF IInv, Settled, StillTrue
  <2>4. QED
    BY <2>2, <2>3 DEF LinkSpentOnce
<1>2. QED
  BY <1>1, Invariant, PTL

(* registerFailedLogin: however stale the counter a login writes, nobody is *)
(* locked out before MaxFailed logins failed.                               *)
THEOREM LocksAreEarned == OAuthSpec => []LockNeedsFailures
<1>1. IInv => LockNeedsFailures
  BY DEF IInv
<1>2. QED
  BY <1>1, Invariant, PTL

(* resetPassword and changePassword: once the revocation that follows a new *)
(* password is done, only its sessions and those of OAuth sign-ins live,    *)
(* unless a login or a crash overtook it.                                   *)
THEOREM NewPasswordsEndSessions == OAuthSpec => []OldSessionsEnd
<1>1. IInv => OldSessionsEnd
  BY DEF IInv
<1>2. QED
  BY <1>1, Invariant, PTL

(* resolveOAuthUser: an identity has one account, and it has it by a        *)
(* verified address or by the callback that made the account.               *)
THEOREM IdentitiesAreProven == OAuthSpec => []IdentityIsProven
<1>1. IInv => IdentityIsProven
  BY DEF IInv
<1>2. QED
  BY <1>1, Invariant, PTL

(* An account has a password or an identity, unless the callback that made  *)
(* it ended between its two INSERTs.                                        *)
THEOREM AccountsHaveADoor == OAuthSpec => []EveryAccountHasADoor
<1>1. IInv => EveryAccountHasADoor
  BY DEF IInv
<1>2. QED
  BY <1>1, Invariant, PTL

(* resetPassword asks the policy before it spends the link.                 *)
THEOREM RejectionsAreFree == OAuthSpec => RejectedPasswordCostsNothing
<1> DEFINE Costs == \A t \in DOMAIN links :
             Redeemable(t, "password_reset") /\ links'[t].state = "used" =>
               \E h \in Handlers : req'[h].at = "setPassword" /\ req'[h].who = links[t].who
                                   /\ req'[h].pw \notin Weak
<1>1. IInv /\ [OAuthNext]_allVars => [Costs]_vars
  <2> DEFINE Paid(t) == \E h \in Handlers : req'[h].at = "setPassword"
                          /\ req'[h].who = links[t].who /\ req'[h].pw \notin Weak
  <2> SUFFICES ASSUME IInv, [OAuthNext]_allVars, NEW t \in DOMAIN links,
                      Redeemable(t, "password_reset"), links'[t].state = "used"
               PROVE  Paid(t)
    OBVIOUS
  <2>0. Typed /\ Settled /\ links[t].state = "live" /\ links[t].purpose = "password_reset"
    BY DEF IInv, Settled, Redeemable
  <2>1. ASSUME links' = links PROVE FALSE
    BY <2>0, <2>1
  <2>2. ASSUME NEW h \in Handlers, NEW u \in DOMAIN links, VerifyEmail(h, u) PROVE FALSE
    <3>1. Marked(u, "used") /\ u # t
      BY <2>0, <2>2 DEF VerifyEmail, Redeemable, Redeem, Marked
    <3>2. QED
      BY <2>0, <3>1, MarkedFacts
  <2>3. ASSUME NEW u \in DOMAIN links, LinkExpires(u) PROVE FALSE
    <3>1. Marked(u, "expired")
      BY <2>3 DEF LinkExpires, Marked
    <3>2. QED
      BY <2>0, <3>1, MarkedFacts
  <2>4. ASSUME NEW h \in Handlers, MailLink(h) PROVE FALSE
    BY <2>0, <2>4, MailFacts
  <2>5. ASSUME NEW h \in Handlers, Consume(h) PROVE Paid(t)
    <3>1. req[h] \in Consuming /\ req \in [Handlers -> Work]
      BY <2>0, <2>5, WorkKinds DEF Consume, Typed
    <3>2. /\ req[h].link \in DOMAIN links /\ links[req[h].link].who = req[h].who
          /\ req[h].pw \notin Weak
      BY <2>0, <2>5, <3>1 DEF Settled, StillTrue, Consume, Consuming
    <3>3. Redeemable(req[h].link, "password_reset")
      BY <2>1, <2>5 DEF Consume
    <3>4. Marked(req[h].link, "used")
      BY <2>5, <3>3 DEF Consume, Redeem, Marked
    <3>5. req[h].link = t
      BY <2>0, <3>2, <3>4, MarkedFacts
    <3>6. req'[h] = [at |-> "setPassword", who |-> req[h].who, pw |-> req[h].pw]
      BY <2>5, <3>1, <3>3 DEF Consume, Become
    <3>7. QED
      BY <3>2, <3>5, <3>6
  <2>6. ASSUME NEW h \in Handlers, Continue(h) PROVE links' = links \/ MailLink(h) \/ Consume(h)
    BY <2>6 DEF Continue, Create, SetVerified, Fail, Welcome, OpenSession, SetPassword,
       ChangePassword, Revoke
  <2>7. ASSUME NEW h \in Handlers, CallbackStep(h) PROVE links' = links
    BY <2>7 DEF CallbackStep, FindLink, FindEmail, InsertLinkOrNot, Patch, InsertUser,
       InsertLink, Issue
  <2>8. QED
    BY <2>1, <2>2, <2>3, <2>4, <2>5, <2>6, <2>7, NextCases
       DEF Signup, Login, Change, AskLink, Reset, HandleCallback, OAuthCutOff, CutOff,
           LockEnds, Suspend, FlowExpires, Authorize
<1>2. QED
  BY <1>1, Invariant, PTL DEF OAuthSpec, RejectedPasswordCostsNothing

(* signup: ON CONFLICT DO NOTHING.  The password of an account is replaced  *)
(* only on the way to a revocation: by a redeemed link or a signed-in user. *)
THEOREM SignupsNeverReplace == OAuthSpec => SignupNeverReplaces
<1> DEFINE Kept == \A e \in Emails :
             users[e].there /\ users'[e].password # users[e].password =>
               \E h \in Handlers : req'[h].at = "revoke" /\ req'[h].who = e
<1>1. IInv /\ [OAuthNext]_allVars => [Kept]_vars
  BY PasswordStep DEF IInv
<1>2. QED
  BY <1>1, Invariant, PTL DEF OAuthSpec, SignupNeverReplaces
=============================================================================
