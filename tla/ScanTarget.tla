------------------------------ MODULE ScanTarget ------------------------------
(***************************************************************************)
(* From what a user types to a scan target (lib/scan-target.ts): which      *)
(* addresses of websites are taken, and which network addresses count as    *)
(* public.  Pure operators; ScanPipeline puts them to work.                 *)
(*                                                                          *)
(* An IPv4 address is its four numbers.  Of an IPv6 address the code looks  *)
(* at three special forms and else at the first hex digits of the text, so  *)
(* it is its form and its first group.                                      *)
(***************************************************************************)
EXTENDS Integers, Sequences

Byte == 0 .. 255
Quad == Byte \X Byte \X Byte \X Byte
Group == 0 .. 65535
IPv4 == [family : {4}, quad : Quad]
IPv6 == [family : {6}, form : {"unspecified", "loopback", "plain"}, group : Group]
  \cup [family : {6}, form : {"mapped"}, quad : Quad]

(* What new URL() makes of the input: whether it is a URL at all, its       *)
(* scheme (https if none was typed), whether it carries credentials, and    *)
(* its host: a name, or an address.  A literal IPv6 address stands in       *)
(* brackets, so it reads as a name without a dot.                           *)
Url == [valid : BOOLEAN, scheme : {"http", "https", "other"}, credentials : BOOLEAN,
        host : {"empty", "undotted", "blocked", "name", "IPv4"}]

-----------------------------------------------------------------------------
(* isPublicIPv4 decides by the first two numbers.                           *)

(* Slip: the upper end of 172.16.0.0/12 is forgotten.                       *)
isPublicIPv4From16(q) == LET a == q[1] b == q[2] IN
  ~ \/ a \in {0, 10, 127}
    \/ a = 169 /\ b = 254
    \/ a = 172 /\ b >= 16
    \/ a = 192 /\ b \in {168, 0}
    \/ a = 100 /\ b \in 64 .. 127
    \/ a = 198 /\ b \in {18, 19, 51}
    \/ a = 203 /\ b = 0
    \/ a >= 224

isPublicIPv4(q) == LET a == q[1] b == q[2] IN
  ~ \/ a \in {0, 10, 127}
    \/ a = 169 /\ b = 254
    \/ a = 172 /\ b \in 16 .. 31
    \/ a = 192 /\ b \in {168, 0}
    \/ a = 100 /\ b \in 64 .. 127
    \/ a = 198 /\ b \in {18, 19, 51}
    \/ a = 203 /\ b = 0
    \/ a >= 224

(* The text of a group, which has no leading zeros, starts with the digits  *)
(* of hex number p.                                                         *)
StartsWith(group, p) == \E k \in {1, 16, 256, 4096} : group \div k = p

isPublicIPv6(x) ==
  IF x.form = "mapped" THEN isPublicIPv4(x.quad)
  ELSE /\ x.form = "plain"
       /\ \A p \in {4072, 4073, 4074, 4075,  \* fe8 fe9 fea feb
                    252, 253,                \* fc fd
                    255} :                   \* ff
            ~StartsWith(x.group, p)

isPublicAddress(x) == IF x.family = 4 THEN isPublicIPv4(x.quad) ELSE isPublicIPv6(x)

-----------------------------------------------------------------------------
(* parseTarget: a web address of a host that is neither bare nor blocked.   *)
Parses(u) ==
  /\ u.valid /\ u.scheme # "other" /\ ~u.credentials
  /\ u.host \in {"name", "IPv4"}

(* resolveTarget takes the URL and what its host resolves to: the address   *)
(* itself for a literal, nothing when the lookup fails.  Every answer has   *)
(* to be public.                                                            *)
resolveTarget(u, answers) ==
  /\ Parses(u)
  /\ answers # {} /\ \A x \in answers : isPublicAddress(x)

-----------------------------------------------------------------------------
(* For reference: the blocks the comments of isPublicIPv4 name, by their    *)
(* first three numbers and prefix length.                                   *)
Block(a, b, c, bits) == [start |-> (a * 256 + b) * 256 + c, bits |-> bits]
Reserved == {
  Block(0, 0, 0, 8), Block(10, 0, 0, 8), Block(127, 0, 0, 8), Block(169, 254, 0, 16),
  Block(172, 16, 0, 12), Block(192, 168, 0, 16), Block(192, 0, 0, 24), Block(192, 0, 2, 24),
  Block(100, 64, 0, 10), Block(198, 18, 0, 15), Block(198, 51, 100, 24), Block(203, 0, 113, 24),
  Block(224, 0, 0, 3)}

InBlock(q, block) == LET size == 2 ^ (24 - block.bits) IN
  ((q[1] * 256 + q[2]) * 256 + q[3]) \div size = block.start \div size
IsReserved4(q) == \E block \in Reserved : InBlock(q, block)

(* And for IPv6: ::, ::1, fe80::/10, fc00::/7, ff00::/8, and what is mapped *)
(* from IPv4.                                                               *)
IsReserved6(x) ==
  IF x.form = "mapped" THEN IsReserved4(x.quad)
  ELSE x.form # "plain" \/ x.group \in 65152 .. 65215 \cup 64512 .. 65023 \cup 65280 .. 65535

IsReserved(x) == IF x.family = 4 THEN IsReserved4(x.quad) ELSE IsReserved6(x)
=============================================================================
