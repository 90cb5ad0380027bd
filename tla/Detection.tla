------------------------------- MODULE Detection -------------------------------
(***************************************************************************)
(* The detection engine (detectors/index.ts): which technologies a captured *)
(* page is reported to use, and how sure the report is, over the rules of   *)
(* TechRules.  The engine runs every rule once and then goes twice through  *)
(* the rules to add what they imply, each visit seeing what earlier ones    *)
(* added; a visit is a step here.                                           *)
(*                                                                          *)
(* A site shows marks, pairs of a technology and the confidence of a signal *)
(* of its rule that matches the page, and defines globals on its window.    *)
(***************************************************************************)
EXTENDS TechRules

LOCAL INSTANCE FiniteSetsExt

CONSTANTS
  Sites,   \* what the scanned sites show
  Visited  \* the orders in which a pass may visit the rules, each under a name

Site == [globals : SUBSET STRING, marks : SUBSET (STRING \X Nat)]
ASSUME SitesTyped == \A s \in Sites : s \in Site

VARIABLES
  site,   \* the site that was captured
  order,  \* the order in which the rules are taken
  found,  \* the report so far: technology -> confidence
  pass,   \* passes over the implications: 0 before the first
  at      \* the rule the pass visits next

vars == <<site, order, found, pass, at>>

(* What the crawler hands to the engine: all the marks, but of the globals  *)
(* only those on its list.                                                  *)
Capture(s) == [s EXCEPT !.globals = @ \cap PROBE_GLOBALS]

-----------------------------------------------------------------------------
(* Slip: a later rule of a technology that has one already is ignored.      *)
FirstByName(rules) ==
  {rules[i] : i \in {k \in DOMAIN rules : \A j \in 1 .. k - 1 : rules[j].name # rules[k].name}}

(* mergeByName: one rule per technology, with the signals and implications  *)
(* of all of them.  The order of the result is left to Visited.             *)
mergeByName(rules) ==
  LET Merged(n, same) == [name |-> n,
                          implies |-> UNION {r.implies : r \in same},
                          signals |-> UNION {r.signals : r \in same}]
  IN {Merged(n, {rules[i] : i \in {k \in DOMAIN rules : rules[k].name = n}}) :
        n \in {rules[i].name : i \in DOMAIN rules}}

RULES == mergeByName(RAW_RULES)

Names == {RAW_RULES[i].name : i \in DOMAIN RAW_RULES}
Implied == [n \in Names |-> UNION {r.implies : r \in {x \in RULES : x.name = n}}]

(* A rule that implies nothing adds nothing in a pass, so an order may      *)
(* leave it out.                                                            *)
ASSUME VisitedTyped == \A o \in DOMAIN Visited :
  /\ Visited[o] \in Seq(Names)
  /\ \A n \in Names : Implied[n] # {} => \E i \in DOMAIN Visited[o] : Visited[o][i] = n

-----------------------------------------------------------------------------
testSignal(rule, s, input) ==
  IF s.global # "" THEN s.global \in input.globals
  ELSE <<rule.name, s.confidence>> \in input.marks

(* The confidences of the signals of a rule that match.                     *)
runHits(rule, input) == {s.confidence : s \in {x \in rule.signals : testSignal(rule, x, input)}}

Strongest(confidences) == Max(confidences)

(* runRule for every rule: what the page itself shows, each with the        *)
(* confidence of the strongest signal that matched.                         *)
Direct(input) ==
  LET hit == {r \in RULES : runHits(r, input) # {}}
  IN [n \in {r.name : r \in hit} |->
        Strongest(runHits(CHOOSE r \in hit : r.name = n, input))]

-----------------------------------------------------------------------------
(* The engine.                                                              *)

Init ==
  /\ site \in Sites
  /\ order \in DOMAIN Visited
  /\ found = <<>> /\ pass = 0 /\ at = 1

RunRules ==
  /\ pass = 0
  /\ found' = Direct(Capture(site))
  /\ pass' = 1
  /\ UNCHANGED <<site, order, at>>

(* A visit to a rule: if its technology is found, what it implies is added  *)
(* with confidence 70, unless it is found already.                          *)
Follow(name) ==
  IF name \notin DOMAIN found THEN found
  ELSE [n \in DOMAIN found \cup Implied[name] |-> IF n \in DOMAIN found THEN found[n] ELSE 70]

Visit ==
  /\ pass \in 1 .. 2 /\ at <= Len(Visited[order])
  /\ found' = Follow(Visited[order][at])
  /\ at' = at + 1
  /\ UNCHANGED <<site, order, pass>>

(* Slip: one pass is taken to be enough.                                    *)
OnlyPass ==
  /\ pass \in 1 .. 2 /\ at > Len(Visited[order])
  /\ pass' = 3 /\ at' = 1
  /\ UNCHANGED <<site, order, found>>

NextPass ==
  /\ pass \in 1 .. 2 /\ at > Len(Visited[order])
  /\ pass' = pass + 1 /\ at' = 1
  /\ UNCHANGED <<site, order, found>>

Next == RunRules \/ Visit \/ NextPass
Spec == Init /\ [][Next]_vars

Reported == pass = 3

-----------------------------------------------------------------------------
(* Properties.                                                              *)

(* The one global a rule asks for that PROBE_GLOBALS does not list: the     *)
(* signal of Gatsby's rule that looks for it never matches.                 *)
Unprobed == {"___gatsby"}

(* What the rules of all sections say of a technology.                      *)
RulesFor == [n \in Names |-> {RAW_RULES[i] : i \in {j \in DOMAIN RAW_RULES : RAW_RULES[j].name = n}}]
Brings == [n \in Names |-> UNION {r.implies : r \in RulesFor[n]}]
Shown == [n \in Names |->
  {s.confidence : s \in {x \in UNION {r.signals : r \in RulesFor[n]} :
     IF x.global = "" THEN <<n, x.confidence>> \in site.marks
     ELSE x.global \in site.globals \ Unprobed}}]

(* The lists agree: the crawler asks for every global a rule looks for, but *)
(* for the one above.                                                       *)
ASSUME GlobalsAreProbed ==
  \A i \in DOMAIN RAW_RULES : \A s \in RAW_RULES[i].signals :
    s.global # "" => (s.global \in PROBE_GLOBALS <=> s.global \notin Unprobed)

(* "The depth the rule set actually has": what a technology brings may      *)
(* bring others, but those bring nothing, and nothing brings itself.        *)
ASSUME RulesAreShallow ==
  \A n \in Names :
    /\ Brings[n] \subseteq Names \ {n}
    /\ \A m \in Brings[n] : \A k \in Brings[m] : Brings[k] = {}

TypeOK ==
  /\ site \in Site /\ order \in DOMAIN Visited
  /\ pass \in 0 .. 3 /\ at \in 1 .. Len(Visited[order]) + 1
  /\ DOMAIN found \subseteq Names /\ \A n \in DOMAIN found : found[n] \in 1 .. 100

(* Nothing the site shows is lost on the way to the report: a technology    *)
(* any of its sections has a matching signal for is reported, as surely as  *)
(* the strongest of them says and whatever implies it besides, whether the  *)
(* signal stands in its first or a later section and whether it reads the   *)
(* page or a global the crawler has to ask for.                             *)
EverySignalCounts == Reported =>
  \A n \in Names : Shown[n] # {} => n \in DOMAIN found /\ found[n] = Max(Shown[n])

(* The two passes are enough, in either order of the rules: what a reported *)
(* technology brings with it is reported too.  And nothing is made up: what *)
(* the site does not show is reported only if something reported brings it. *)
ImplicationsAreComplete == Reported =>
  \A n \in DOMAIN found :
    /\ Brings[n] \subseteq DOMAIN found
    /\ Shown[n] # {} \/ \E m \in DOMAIN found \ {n} : n \in Brings[m]
=============================================================================
