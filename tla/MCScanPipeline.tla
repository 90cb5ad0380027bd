----------------------------- MODULE MCScanPipeline -----------------------------
(* Inputs for TLC.  Either the target is a plain public one and the site    *)
(* varies: every signal of every section on its own, and beside it the      *)
(* weakest signal of a technology that its rule implies.  Or the site shows *)
(* nothing and the target varies: IPv4 addresses and IPv6 groups at and next *)
(* to the borders of the blocks, answers that change between nothing, a good *)
(* address, a doubtful one and both, and everything that can be wrong with a *)
(* URL.                                                                     *)
EXTENDS ScanPipeline

LOCAL INSTANCE FiniteSetsExt
LOCAL INSTANCE SequencesExt
LOCAL INSTANCE TLC

(* The technologies that imply something in the order of the code's list,   *)
(* which is that of their first rules; and the other way round.             *)
AsWritten ==
  LET raw == RAW_RULES
      Implies(n) == \E j \in DOMAIN raw : raw[j].name = n /\ raw[j].implies # {}
      Leads(i) == Implies(raw[i].name) /\ \A j \in 1 .. i - 1 : raw[j].name # raw[i].name
      leading == SelectSeq([i \in DOMAIN raw |-> i], Leads)
  IN FoldLeft(LAMBDA names, i : Append(names, raw[i].name), <<>>, leading)
Backwards == FoldLeft(LAMBDA names, n : <<n>> \o names, <<>>, AsWritten)
MCVisited == ("asWritten" :> AsWritten) @@ ("reversed" :> Backwards)

Showing(n, s) ==
  [globals |-> {s.global} \ {""},
   marks |-> IF s.global = "" THEN {<<n, s.confidence>>} ELSE {}]
Both(a, b) == [globals |-> a.globals \cup b.globals, marks |-> a.marks \cup b.marks]

Weakest(n) == LET ss == UNION {r.signals : r \in RulesFor[n]} IN
  CHOOSE s \in ss : \A x \in ss : s.confidence <= x.confidence

SitesOf(r) ==
  LET alone == {Showing(r.name, s) : s \in r.signals}
  IN alone \cup {Both(a, Showing(n, Weakest(n))) : a \in alone, n \in r.implies}
MCSites == UNION {SitesOf(RAW_RULES[i]) : i \in DOMAIN RAW_RULES}

BareSite == [globals |-> {}, marks |-> {}]
AllSites == MCSites \cup {BareSite}

V4(a, b, c) == [family |-> 4, quad |-> <<a, b, c, 1>>]
Plain(g) == [family |-> 6, form |-> "plain", group |-> g]
Mapped(a, b, c) == [family |-> 6, form |-> "mapped", quad |-> <<a, b, c, 1>>]

Borders(S) == UNION {{n - 1, n, n + 1} : n \in S}
Firsts == Borders({0, 10, 100, 127, 169, 172, 192, 198, 203, 224, 255}) \cap Byte
Seconds == (Borders({16, 31, 51, 64, 127, 168, 254}) \cup {0, 1, 17, 18, 19, 20, 255}) \cap Byte
Addresses ==
  {V4(a, b, c) : a \in Firsts, b \in Seconds, c \in {0, 1, 2, 100, 113}}
  \cup {Plain(g) : g \in (Borders({65152, 65215, 64512, 65023, 65280, 65535, 4072, 252, 255, 8192, 16383})
                           \cup {9734, 16357}) \cap 0 .. 65535}
  \cup {[family |-> 6, form |-> f, group |-> 0] : f \in {"unspecified", "loopback"}}
  \cup {Mapped(a, b, c) : a \in {8, 127, 169, 172, 192, 198, 203}, b \in {0, 16, 51, 254}, c \in {0, 5, 113}}
Public == V4(93, 184, 216)

Good == [valid |-> TRUE, scheme |-> "https", credentials |-> FALSE, host |-> "name"]
Case(u, lookups, s) == [url |-> u, lookups |-> lookups, site |-> s]
Doubtful == {V4(10, 0, 0), V4(8, 8, 8), V4(172, 31, 1), V4(203, 0, 5), Plain(64512), Mapped(127, 0, 0)}
MCInputs ==
  {Case(Good, {{Public}}, s) : s \in AllSites}
  \cup {Case(Good, {{x}}, BareSite) : x \in Addresses}
  \cup {Case(Good, {{}, {Public}, {x}, {x, Public}}, BareSite) : x \in Doubtful}
  \cup {Case(u, {{Public}}, BareSite) : u \in Url}
  \cup {Case([Good EXCEPT !.host = "IPv4"], {{x}}, BareSite) : x \in Doubtful \cap IPv4}
=============================================================================
