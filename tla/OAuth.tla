--------------------------------- MODULE OAuth ---------------------------------
(***************************************************************************)
(* Sign-in with Google or GitHub (oauth-service.ts and its two routes)      *)
(* beside the password side of Accounts.  A flow is a state parameter that  *)
(* waits in Redis; the callback spends it, reads who signed in from the     *)
(* provider and finds, links or creates the account, one statement after    *)
(* the other.  Callbacks and password requests share the handlers.          *)
(***************************************************************************)
EXTENDS Accounts, FiniteSets

CONSTANTS
  Flows,    \* state parameters
  Profiles, \* what a provider says of one of its accounts
  NoEmail   \* an account without an address

Providers == {"google", "github"}
Profile == [provider : Providers, account : STRING, email : Emails \cup {NoEmail},
            emailVerified : BOOLEAN]

(* GitHub's profile comes with a verified address or not at all.            *)
ASSUME ProfilesTyped ==
  /\ NoEmail \notin Emails
  /\ Profiles \subseteq Profile
  /\ \A p \in Profiles : p.provider = "github" => p.emailVerified /\ p.email # NoEmail

VARIABLES
  flows,  \* each state parameter: "new", the provider it waits for, or "gone"
  oauth,  \* oauth_accounts, with a note: was the address verified, was the
          \* account made by the same callback
  halved  \* history: accounts whose INSERT was not followed by that of the link

oauthVars == <<flows, oauth, halved>>
allVars == <<vars, oauthVars>>

Callback == {"findLink", "findEmail", "link", "patch", "insertUser", "insertLink", "issue"}

OAuthTypeOK ==
  /\ users \in [Emails -> User]
  /\ links \in Seq(Link) /\ Len(links) <= MaxLinks
  /\ \A h \in Handlers : req[h].at \in Steps \cup Callback
  /\ \A h \in Handlers : req[h].at \in Callback => req[h].profile \in Profiles
  /\ sessions \in [Emails -> SUBSET (Passwords \cup {NoPassword})]
  /\ redeemed \in [Links -> Nat]
  /\ failures \in [Emails -> 0 .. MaxFailed]
  /\ overtaken \in [Emails -> BOOLEAN]
  /\ flows \in [Flows -> Providers \cup {"new", "gone"}]
  /\ \A l \in oauth : users[l.who].there
  /\ halved \subseteq Emails

OAuthInit ==
  /\ Init
  /\ flows = [f \in Flows |-> "new"]
  /\ oauth = {}
  /\ halved = {}

-----------------------------------------------------------------------------
(* The flow.                                                                *)

(* buildAuthorizationUrl.                                                   *)
Authorize(f, provider) ==
  /\ flows[f] = "new"
  /\ flows' = [flows EXCEPT ![f] = provider]
  /\ UNCHANGED <<vars, oauth, halved>>

(* Its time to live is over.                                                *)
FlowExpires(f) ==
  /\ flows[f] \in Providers
  /\ flows' = [flows EXCEPT ![f] = "gone"]
  /\ UNCHANGED <<vars, oauth, halved>>

Move(h, label) == Become(h, [req[h] EXCEPT !.at = label])
Rest == UNCHANGED <<links, redeemed, failures, overtaken>>

(* consumeState reads and deletes in one command; a callback for the other  *)
(* provider spends the flow for nothing.  Then the exchange of the code and *)
(* the profile, which may fail.                                             *)
HandleCallback(h, f, p) ==
  /\ req[h] = Idle
  /\ flows[f] \in Providers
  /\ flows' = [flows EXCEPT ![f] = "gone"]
  /\ IF flows[f] = p.provider THEN Become(h, [at |-> "findLink", profile |-> p])
     ELSE UNCHANGED req
  /\ UNCHANGED <<users, sessions, oauth, halved>> /\ Rest

-----------------------------------------------------------------------------
(* resolveOAuthUser.                                                        *)

LinkOf(p) == {l \in oauth : l.provider = p.provider /\ l.account = p.account}
SignIn(h, e) == Become(h, [at |-> "issue", who |-> e, profile |-> req[h].profile])

(* The link and its user; without a link it goes on by the address.         *)
FindLink(h) ==
  /\ req[h].at = "findLink"
  /\ LET p == req[h].profile IN
     IF LinkOf(p) # {}
       THEN \E l \in LinkOf(p) : IF users[l.who].active THEN SignIn(h, l.who) ELSE Become(h, Idle)
       ELSE IF p.email = NoEmail THEN Become(h, Idle) ELSE Move(h, "findEmail")
  /\ UNCHANGED <<users, sessions, oauthVars>> /\ Rest

(* Slip: an address the provider did not verify is taken for proof.         *)
FindEmailTrusting(h) ==
  /\ req[h].at = "findEmail"
  /\ LET p == req[h].profile IN
     IF ~users[p.email].there THEN Move(h, "insertUser")
     ELSE IF users[p.email].active
       THEN Become(h, [at |-> "link", who |-> p.email, profile |-> p,
                       patch |-> ~users[p.email].verified])
       ELSE Become(h, Idle)
  /\ UNCHANGED <<users, sessions, oauthVars>> /\ Rest

(* The account that has the address: linked only when it is active and the  *)
(* provider has verified the address.                                       *)
FindEmail(h) ==
  /\ req[h].at = "findEmail"
  /\ LET p == req[h].profile IN
     IF ~users[p.email].there THEN Move(h, "insertUser")
     ELSE IF users[p.email].active /\ p.emailVerified
       THEN Become(h, [at |-> "link", who |-> p.email, profile |-> p,
                       patch |-> ~users[p.email].verified])
       ELSE Become(h, Idle)
  /\ UNCHANGED <<users, sessions, oauthVars>> /\ Rest

Linked(p, e, own) ==
  oauth \cup {[provider |-> p.provider, account |-> p.account, who |-> e,
               verified |-> p.emailVerified, own |-> own]}

(* INSERT ... ON CONFLICT DO NOTHING.                                       *)
InsertLinkOrNot(h) ==
  /\ req[h].at = "link"
  /\ oauth' = IF LinkOf(req[h].profile) = {} THEN Linked(req[h].profile, req[h].who, FALSE) ELSE oauth
  /\ IF req[h].patch THEN Move(h, "patch") ELSE SignIn(h, req[h].who)
  /\ UNCHANGED <<users, sessions, flows, halved>> /\ Rest

(* The provider's word verifies the address of the row that was read.       *)
Patch(h) ==
  /\ req[h].at = "patch"
  /\ users' = [users EXCEPT ![req[h].who].verified = TRUE]
  /\ SignIn(h, req[h].who)
  /\ UNCHANGED <<sessions, oauthVars>> /\ Rest

(* A new account without a password; the unique index refuses an address    *)
(* that has been taken meanwhile, and the callback fails.                   *)
NewUser(h) ==
  LET p == req[h].profile IN
  users' = [users EXCEPT ![p.email] = [Nobody EXCEPT !.there = TRUE, !.verified = p.emailVerified]]

(* Slip: the new account gets no link.                                      *)
InsertUserAlone(h) ==
  /\ req[h].at = "insertUser"
  /\ IF users[req[h].profile.email].there THEN Become(h, Idle) /\ UNCHANGED users
     ELSE NewUser(h) /\ SignIn(h, req[h].profile.email)
  /\ UNCHANGED <<sessions, oauthVars>> /\ Rest

InsertUser(h) ==
  /\ req[h].at = "insertUser"
  /\ IF users[req[h].profile.email].there THEN Become(h, Idle) /\ UNCHANGED users
     ELSE NewUser(h) /\ Move(h, "insertLink")
  /\ UNCHANGED <<sessions, oauthVars>> /\ Rest

(* Its link, this time with an error on a conflict.                         *)
InsertLink(h) ==
  /\ req[h].at = "insertLink"
  /\ LET p == req[h].profile IN
     IF LinkOf(p) = {}
       THEN oauth' = Linked(p, p.email, TRUE) /\ SignIn(h, p.email) /\ UNCHANGED halved
       ELSE Become(h, Idle) /\ halved' = halved \cup {p.email} /\ UNCHANGED oauth
  /\ UNCHANGED <<users, sessions, flows>> /\ Rest

(* The route opens a session, which no password stands behind.              *)
Issue(h) ==
  /\ req[h].at = "issue"
  /\ sessions' = [sessions EXCEPT ![req[h].who] = @ \cup {NoPassword}]
  /\ Become(h, Idle)
  /\ UNCHANGED <<users, oauthVars>> /\ Rest

(* As in Accounts; between its two INSERTs it leaves the account unlinked.  *)
OAuthCutOff(h) ==
  /\ CutOff(h)
  /\ halved' = IF req[h].at = "insertLink" THEN halved \cup {req[h].profile.email} ELSE halved
  /\ UNCHANGED <<flows, oauth>>

-----------------------------------------------------------------------------
(* The specification: the requests of Accounts and the callbacks.           *)

CallbackStep(h) ==
  \/ FindLink(h) \/ FindEmail(h) \/ InsertLinkOrNot(h) \/ Patch(h)
  \/ InsertUser(h) \/ InsertLink(h) \/ Issue(h)

OAuthNext ==
  \/ \E h \in Handlers :
       \/ (Begin(h) \/ Continue(h)) /\ UNCHANGED oauthVars
       \/ \E f \in Flows, p \in Profiles : HandleCallback(h, f, p)
       \/ CallbackStep(h) \/ OAuthCutOff(h)
  \/ Elapse /\ UNCHANGED oauthVars
  \/ \E f \in Flows : FlowExpires(f) \/ \E provider \in Providers : Authorize(f, provider)

OAuthSpec == OAuthInit /\ [][OAuthNext]_allVars

-----------------------------------------------------------------------------
(* Properties.                                                              *)

(* An identity at a provider belongs to one account for good, and it was    *)
(* given to it by an address the provider had verified, or by the sign-in   *)
(* that made the account.  Concurrent callbacks and signups included.       *)
IdentityIsProven ==
  /\ \A l, m \in oauth : l.provider = m.provider /\ l.account = m.account => l = m
  /\ \A l \in oauth : l.verified \/ l.own

(* There is a way into every account: a password or an identity at a        *)
(* provider, unless the callback that made it ended between its two INSERTs. *)
EveryAccountHasADoor ==
  \A e \in Emails :
    users[e].there /\ users[e].password = NoPassword /\ e \notin halved =>
      (\E l \in oauth : l.who = e)
        \/ \E h \in Handlers : req[h].at = "insertLink" /\ req[h].profile.email = e
=============================================================================
