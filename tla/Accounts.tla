------------------------------- MODULE Accounts -------------------------------
(***************************************************************************)
(* The password side of an account: auth-service.ts.  Signup, login and its *)
(* lockout, e-mailed links, password reset and change.  Each SQL statement  *)
(* is an action; handlers interleave, act on rows they read earlier, and    *)
(* are cut off by crashes.  How a session goes on after it was opened is    *)
(* RefreshTokens.                                                           *)
(***************************************************************************)
EXTENDS Naturals, Sequences

CONSTANTS
  Emails,      \* addresses; the unique index makes one the name of its account
  Passwords,   \* what a user may type
  Weak,        \* those the password policy refuses
  NoPassword,  \* passwordHash IS NULL: an account that signs in by OAuth
  Handlers,    \* requests the API can have in flight at once
  MaxFailed,   \* MAX_FAILED_LOGINS
  MaxLinks     \* bound: e-mailed links made in one behaviour

ASSUME PasswordsTyped == Weak \subseteq Passwords /\ NoPassword \notin Passwords
ASSUME LimitsTyped == MaxFailed \in Nat \ {0} /\ MaxLinks \in Nat

VARIABLES
  users,     \* the users table, by address
  links,     \* verification_tokens, in the order of insertion
  req,       \* what each handler does next, and what it knows
  sessions,  \* address -> passwords that opened its live sessions, NoPassword
             \* for those of an OAuth sign-in
  redeemed,  \* history: link -> how often it was redeemed
  failures,  \* history: failed logins recorded for an address (up to MaxFailed)
  overtaken  \* history: a session was opened with a password replaced since it
             \* was checked, or a reset or change was cut off before it ended
             \* the sessions

vars == <<users, links, req, sessions, redeemed, failures, overtaken>>

Purposes == {"email_verify", "password_reset"}
Links == 1 .. MaxLinks
User == [there : BOOLEAN, password : Passwords \cup {NoPassword}, active : BOOLEAN,
         verified : BOOLEAN, fails : 0 .. MaxFailed - 1, locked : BOOLEAN]
Link == [who : Emails, purpose : Purposes, state : {"live", "used", "expired"}]

Nobody == [there |-> FALSE, password |-> NoPassword, active |-> TRUE,
           verified |-> FALSE, fails |-> 0, locked |-> FALSE]

(* A handler: where it stands and its local variables, as far as they are   *)
(* set; fails is the counter of the row that login read.                    *)
Idle == [at |-> "idle"]
Steps == {"idle", "create", "mail", "fail", "welcome", "session", "consume",
          "setVerified", "setPassword", "change", "revoke"}

Init ==
  /\ users = [e \in Emails |-> Nobody]
  /\ links = <<>>
  /\ req = [h \in Handlers |-> Idle]
  /\ sessions = [e \in Emails |-> {}]
  /\ redeemed = [t \in Links |-> 0]
  /\ failures = [e \in Emails |-> 0]
  /\ overtaken = [e \in Emails |-> FALSE]

Become(h, work) == req' = [req EXCEPT ![h] = work]
UpTo(n) == IF n > MaxFailed THEN MaxFailed ELSE n

-----------------------------------------------------------------------------
(* Signup.                                                                  *)

(* validatePassword, then the SELECT: an address that is taken is answered  *)
(* like one that is not.                                                    *)
Signup(h, e, p) ==
  /\ req[h] = Idle
  /\ p \notin Weak
  /\ ~users[e].there
  /\ Become(h, [at |-> "create", who |-> e, pw |-> p])
  /\ UNCHANGED <<users, links, sessions, redeemed, failures, overtaken>>

(* Slip: ON CONFLICT DO UPDATE.                                             *)
CreateOrReplace(h) ==
  /\ req[h].at = "create"
  /\ users' = [users EXCEPT ![req[h].who] =
                 [Nobody EXCEPT !.there = TRUE, !.password = req[h].pw]]
  /\ Become(h, [at |-> "mail", who |-> req[h].who, purpose |-> "email_verify"])
  /\ UNCHANGED <<links, sessions, redeemed, failures, overtaken>>

(* INSERT ... ON CONFLICT DO NOTHING: the loser of a race is a duplicate.   *)
Create(h) ==
  /\ req[h].at = "create"
  /\ IF users[req[h].who].there
       THEN Become(h, Idle) /\ UNCHANGED users
       ELSE /\ users' = [users EXCEPT ![req[h].who] =
                           [Nobody EXCEPT !.there = TRUE, !.password = req[h].pw]]
            /\ Become(h, [at |-> "mail", who |-> req[h].who, purpose |-> "email_verify"])
  /\ UNCHANGED <<links, sessions, redeemed, failures, overtaken>>

-----------------------------------------------------------------------------
(* Links: resendVerification and requestPasswordReset read the account,     *)
(* createOneTimeToken inserts the link.                                     *)

AskLink(h, e, purpose) ==
  /\ req[h] = Idle
  /\ users[e].there
  /\ IF purpose = "email_verify" THEN ~users[e].verified ELSE users[e].active
  /\ Become(h, [at |-> "mail", who |-> e, purpose |-> purpose])
  /\ UNCHANGED <<users, links, sessions, redeemed, failures, overtaken>>

MailLink(h) ==
  /\ req[h].at = "mail"
  /\ Len(links) < MaxLinks
  /\ links' = Append(links, [who |-> req[h].who, purpose |-> req[h].purpose,
                             state |-> "live"])
  /\ Become(h, Idle)
  /\ UNCHANGED <<users, sessions, redeemed, failures, overtaken>>

(* consumeOneTimeToken's conditional UPDATE.                                *)
Redeemable(t, purpose) == links[t].state = "live" /\ links[t].purpose = purpose
Redeem(t) ==
  /\ links' = [links EXCEPT ![t].state = "used"]
  /\ redeemed' = [redeemed EXCEPT ![t] = @ + 1]

VerifyEmail(h, t) ==
  /\ req[h] = Idle
  /\ Redeemable(t, "email_verify")
  /\ Redeem(t)
  /\ Become(h, [at |-> "setVerified", who |-> links[t].who])
  /\ UNCHANGED <<users, sessions, failures, overtaken>>

SetVerified(h) ==
  /\ req[h].at = "setVerified"
  /\ users' = [users EXCEPT ![req[h].who].verified = TRUE]
  /\ Become(h, Idle)
  /\ UNCHANGED <<links, sessions, redeemed, failures, overtaken>>

-----------------------------------------------------------------------------
(* Login.  The row is read once; password, lock, status and verification    *)
(* are judged by it, and the counter is written from it.                    *)

Login(h, e, p) ==
  /\ req[h] = Idle
  /\ users[e].there /\ users[e].password # NoPassword /\ ~users[e].locked
  /\ IF p # users[e].password
       THEN Become(h, [at |-> "fail", who |-> e, fails |-> users[e].fails])
       ELSE /\ users[e].active /\ users[e].verified
            /\ Become(h, [at |-> "welcome", who |-> e, pw |-> p])
  /\ UNCHANGED <<users, links, sessions, redeemed, failures, overtaken>>

(* Slip: the lock comes one failure early.                                  *)
FailLocksEarly(h) ==
  /\ req[h].at = "fail"
  /\ LET e == req[h].who
         lock == req[h].fails + 2 >= MaxFailed IN
     /\ users' = [users EXCEPT ![e].fails = IF lock THEN 0 ELSE req[h].fails + 1,
                               ![e].locked = lock]
     /\ failures' = [failures EXCEPT ![e] = UpTo(@ + 1)]
  /\ Become(h, Idle)
  /\ UNCHANGED <<links, sessions, redeemed, overtaken>>

(* Slip: locking does not start the counter again.                          *)
FailKeepsCounting(h) ==
  /\ req[h].at = "fail"
  /\ LET e == req[h].who
         lock == req[h].fails + 1 >= MaxFailed IN
     /\ users' = [users EXCEPT ![e].fails = req[h].fails + 1, ![e].locked = lock]
     /\ failures' = [failures EXCEPT ![e] = UpTo(@ + 1)]
  /\ Become(h, Idle)
  /\ UNCHANGED <<links, sessions, redeemed, overtaken>>

(* registerFailedLogin: counter and lock are both overwritten.              *)
Fail(h) ==
  /\ req[h].at = "fail"
  /\ LET e == req[h].who
         lock == req[h].fails + 1 >= MaxFailed IN
     /\ users' = [users EXCEPT ![e].fails = IF lock THEN 0 ELSE req[h].fails + 1,
                               ![e].locked = lock]
     /\ failures' = [failures EXCEPT ![e] = UpTo(@ + 1)]
  /\ Become(h, Idle)
  /\ UNCHANGED <<links, sessions, redeemed, overtaken>>

Unlocked(u) == [u EXCEPT !.fails = 0, !.locked = FALSE]

Welcome(h) ==
  /\ req[h].at = "welcome"
  /\ users' = [users EXCEPT ![req[h].who] = Unlocked(@)]
  /\ Become(h, [req[h] EXCEPT !.at = "session"])
  /\ UNCHANGED <<links, sessions, redeemed, failures, overtaken>>

(* establishSession, after login or at the end of password/change.          *)
OpenSession(h) ==
  /\ req[h].at = "session"
  /\ LET e == req[h].who IN
     /\ sessions' = [sessions EXCEPT ![e] = @ \cup {req[h].pw}]
     /\ overtaken' = [overtaken EXCEPT ![e] = @ \/ req[h].pw # users[e].password]
  /\ Become(h, Idle)
  /\ UNCHANGED <<users, links, redeemed, failures>>

-----------------------------------------------------------------------------
(* Password reset and change.                                               *)

(* Slip: the link is spent before the policy is asked.                      *)
ResetSpendsFirst(h, t, p) ==
  /\ req[h] = Idle
  /\ Redeemable(t, "password_reset")
  /\ Redeem(t)
  /\ IF p \in Weak THEN UNCHANGED req
     ELSE Become(h, [at |-> "setPassword", who |-> links[t].who, pw |-> p])
  /\ UNCHANGED <<users, sessions, failures, overtaken>>

(* peekOneTimeToken and the policy: nothing is spent yet.                   *)
Reset(h, t, p) ==
  /\ req[h] = Idle
  /\ Redeemable(t, "password_reset")
  /\ p \notin Weak
  /\ Become(h, [at |-> "consume", who |-> links[t].who, pw |-> p, link |-> t])
  /\ UNCHANGED <<users, links, sessions, redeemed, failures, overtaken>>

(* Slip: the peek is taken for the claim.                                   *)
ConsumeUnchecked(h) ==
  /\ req[h].at = "consume"
  /\ Redeem(req[h].link)
  /\ Become(h, [at |-> "setPassword", who |-> req[h].who, pw |-> req[h].pw])
  /\ UNCHANGED <<users, sessions, failures, overtaken>>

Consume(h) ==
  /\ req[h].at = "consume"
  /\ IF Redeemable(req[h].link, "password_reset")
       THEN /\ Redeem(req[h].link)
            /\ Become(h, [at |-> "setPassword", who |-> req[h].who, pw |-> req[h].pw])
       ELSE Become(h, Idle) /\ UNCHANGED <<links, redeemed>>
  /\ UNCHANGED <<users, sessions, failures, overtaken>>

(* Slip: the sessions are left alone.                                       *)
SetPasswordOnly(h) ==
  /\ req[h].at = "setPassword"
  /\ users' = [users EXCEPT ![req[h].who] =
                 [Unlocked(@) EXCEPT !.password = req[h].pw, !.verified = TRUE]]
  /\ Become(h, Idle)
  /\ UNCHANGED <<links, sessions, redeemed, failures, overtaken>>

(* The UPDATE of resetPassword also verifies the address and unlocks.       *)
SetPassword(h) ==
  /\ req[h].at = "setPassword"
  /\ users' = [users EXCEPT ![req[h].who] =
                 [Unlocked(@) EXCEPT !.password = req[h].pw, !.verified = TRUE]]
  /\ Become(h, [at |-> "revoke", who |-> req[h].who, next |-> Idle])
  /\ UNCHANGED <<links, sessions, redeemed, failures, overtaken>>

(* changePassword: the current password is judged by the row read here.     *)
(* The access token may have outlived its session, or come from an OAuth    *)
(* sign-in; with a password set, either means that the address is verified. *)
Change(h, e, p) ==
  /\ req[h] = Idle
  /\ users[e].verified
  /\ users[e].there /\ users[e].password # NoPassword
  /\ p \notin Weak
  /\ Become(h, [at |-> "change", who |-> e, pw |-> p])
  /\ UNCHANGED <<users, links, sessions, redeemed, failures, overtaken>>

ChangePassword(h) ==
  /\ req[h].at = "change"
  /\ users' = [users EXCEPT ![req[h].who].password = req[h].pw]
  /\ Become(h, [at |-> "revoke", who |-> req[h].who,
                next |-> [req[h] EXCEPT !.at = "session"]])
  /\ UNCHANGED <<links, sessions, redeemed, failures, overtaken>>

(* revokeAllForUser; after a change the caller gets a new session.          *)
Revoke(h) ==
  /\ req[h].at = "revoke"
  /\ sessions' = [sessions EXCEPT ![req[h].who] = {}]
  /\ Become(h, req[h].next)
  /\ UNCHANGED <<users, links, redeemed, failures, overtaken>>

-----------------------------------------------------------------------------
(* Time, an operator, failures.                                             *)

(* lockedUntil passes.                                                      *)
LockEnds(e) ==
  /\ users[e].locked
  /\ users' = [users EXCEPT ![e].locked = FALSE]
  /\ UNCHANGED <<links, req, sessions, redeemed, failures, overtaken>>

LinkExpires(t) ==
  /\ links[t].state = "live"
  /\ links' = [links EXCEPT ![t].state = "expired"]
  /\ UNCHANGED <<users, req, sessions, redeemed, failures, overtaken>>

Suspend(e) ==
  /\ users[e].there /\ users[e].active
  /\ users' = [users EXCEPT ![e].active = FALSE]
  /\ UNCHANGED <<links, req, sessions, redeemed, failures, overtaken>>

(* A statement fails and ends its handler; a process that dies does this to *)
(* all of them.  It may come between the UPDATE of a password and the end   *)
(* of the sessions.                                                         *)
CutOff(h) ==
  /\ req[h] # Idle
  /\ Become(h, Idle)
  /\ IF req[h].at = "revoke"
       THEN overtaken' = [overtaken EXCEPT ![req[h].who] = TRUE]
       ELSE UNCHANGED overtaken
  /\ UNCHANGED <<users, links, sessions, redeemed, failures>>

-----------------------------------------------------------------------------
(* The requests; OAuth puts them together with its callbacks.               *)

Begin(h) ==
  \/ \E e \in Emails, p \in Passwords : Signup(h, e, p) \/ Login(h, e, p) \/ Change(h, e, p)
  \/ \E e \in Emails, purpose \in Purposes : AskLink(h, e, purpose)
  \/ \E t \in DOMAIN links : VerifyEmail(h, t) \/ \E p \in Passwords : Reset(h, t, p)

Continue(h) ==
  \/ Create(h) \/ MailLink(h) \/ SetVerified(h) \/ Fail(h) \/ Welcome(h)
  \/ OpenSession(h) \/ Consume(h) \/ SetPassword(h) \/ ChangePassword(h) \/ Revoke(h)

Elapse ==
  \/ \E e \in Emails : LockEnds(e) \/ Suspend(e)
  \/ \E t \in DOMAIN links : LinkExpires(t)

-----------------------------------------------------------------------------
(* Properties.                                                              *)

(* An e-mailed link is redeemed at most once, by however many requests at   *)
(* the same time, and never once it has expired.                            *)
LinkSpentOnce ==
  /\ \A t \in DOMAIN links : redeemed[t] = IF links[t].state = "used" THEN 1 ELSE 0
  /\ \A h \in Handlers : req[h].at = "consume" => links[req[h].link].who = req[h].who

(* "Does not burn the link when the new password is rejected": a reset link *)
(* is spent only by a request whose password is then set, unless the        *)
(* process dies in between.                                                 *)
RejectedPasswordCostsNothing ==
  [][\A t \in DOMAIN links :
       Redeemable(t, "password_reset") /\ links'[t].state = "used" =>
         \E h \in Handlers : req'[h].at = "setPassword" /\ req'[h].who = links[t].who
                             /\ req'[h].pw \notin Weak]_vars

(* A password change or reset ends every session that an older password     *)
(* opened: once its revocation is done, only the current password's         *)
(* sessions are live.  The exceptions are those overtaken records: a login  *)
(* that had checked the old password before, and a crash.                   *)
OldSessionsEnd ==
  \A e \in Emails :
    \/ overtaken[e]
    \/ \E h \in Handlers : req[h].at = "revoke" /\ req[h].who = e
    \/ sessions[e] \subseteq {users[e].password, NoPassword}

(* A lock is earned: nobody is locked out before MaxFailed logins failed,   *)
(* however stale the counters were that the handlers wrote.                 *)
LockNeedsFailures ==
  \A e \in Emails : /\ users[e].locked => failures[e] >= MaxFailed
                    /\ users[e].fails <= failures[e]

(* Signing up for an address that is taken changes nothing: the password of *)
(* an account only changes through a redeemed link or by a signed-in user.  *)
SignupNeverReplaces ==
  [][\A e \in Emails : users[e].there /\ users'[e].password # users[e].password =>
       \E h \in Handlers : req'[h].at = "revoke" /\ req'[h].who = e]_vars
=============================================================================
