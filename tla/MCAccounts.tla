------------------------------ MODULE MCAccounts ------------------------------
(* One address, two good passwords and a weak one, and what providers say:   *)
(* of a Google account that it has the address, verified or not, or none;    *)
(* of a GitHub account that it has it.                                       *)
EXTENDS OAuth, TLC

CONSTANTS e1, p1, p2, weak, h1, h2, f1, f2

Google(email, verified) ==
  [provider |-> "google", account |-> "a", email |-> email, emailVerified |-> verified]
MCProfiles ==
  {Google(e1, TRUE), Google(e1, FALSE), Google(NoEmail, FALSE),
   [provider |-> "github", account |-> "b", email |-> e1, emailVerified |-> TRUE]}
Sym == Permutations(Handlers) \cup Permutations({p1, p2}) \cup Permutations(Flows)
=============================================================================
