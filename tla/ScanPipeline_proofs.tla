------------------------- MODULE ScanPipeline_proofs -------------------------
(***************************************************************************)
(* The verdict on a target is right whatever its host resolves to: what     *)
(* isPublicIPv4 and isPublicIPv6 decide by comparing numbers and prefixes   *)
(* of text, held against the blocks their comments name.  And the report on *)
(* a site is complete whatever the site shows, in whatever order the passes *)
(* take the rules.                                                          *)
(***************************************************************************)
EXTENDS ScanPipeline, TLAPS

(* The number that the first three bytes of an address make, and the size   *)
(* of a block in such numbers.                                              *)
Number(q) == (q[1] * 256 + q[2]) * 256 + q[3]
Size(bits) == 2 ^ (24 - bits)

LEMMA Sizes ==
  /\ Size(3) = 2097152 /\ Size(8) = 65536 /\ Size(10) = 16384 /\ Size(12) = 4096
  /\ Size(15) = 512 /\ Size(16) = 256 /\ Size(24) = 1
BY SMT DEF Size

(* An address is in a block if both give the same quotient.                 *)
LEMMA BlockIsQuotient ==
  ASSUME NEW q, NEW a, NEW b, NEW c, NEW bits
  PROVE  InBlock(q, Block(a, b, c, bits))
           <=> Number(q) \div Size(bits) = ((a * 256 + b) * 256 + c) \div Size(bits)
BY SMT DEF InBlock, Number, Size, Block

(* The quotients by the first two bytes.                                    *)
LEMMA Quotients ==
  ASSUME NEW q \in Quad
  PROVE  /\ Number(q) \div 2097152 = q[1] \div 32
         /\ Number(q) \div 65536 = q[1]
         /\ Number(q) \div 16384 = q[1] * 4 + (q[2] \div 64)
         /\ Number(q) \div 4096 = q[1] * 16 + (q[2] \div 16)
         /\ Number(q) \div 512 = q[1] * 128 + (q[2] \div 2)
         /\ Number(q) \div 256 = q[1] * 256 + q[2]
         /\ Number(q) \div 1 = Number(q)
<1>1. q[1] \in Byte /\ q[2] \in Byte /\ q[3] \in Byte
  BY SMT DEF Quad
<1>2. ASSUME NEW a \in Byte, NEW b \in Byte, NEW c \in Byte, NEW n, n = (a * 256 + b) * 256 + c
      PROVE  n \div 2097152 = a \div 32 /\ n \div 65536 = a
  BY <1>2, SMT DEF Byte
<1>3. ASSUME NEW a \in Byte, NEW b \in Byte, NEW c \in Byte, NEW n, n = (a * 256 + b) * 256 + c
      PROVE  n \div 16384 = a * 4 + (b \div 64) /\ n \div 4096 = a * 16 + (b \div 16)
  BY <1>3, SMT DEF Byte
<1>4. ASSUME NEW a \in Byte, NEW b \in Byte, NEW c \in Byte, NEW n, n = (a * 256 + b) * 256 + c
      PROVE  n \div 512 = a * 128 + (b \div 2) /\ n \div 256 = a * 256 + b /\ n \div 1 = n
  BY <1>4, SMT DEF Byte
<1> QED
  BY <1>1, <1>2, <1>3, <1>4, SMT DEF Number

(* So each block is a condition on the first two bytes, or implies one.     *)
LEMMA BlocksOfBytes ==
  ASSUME NEW q \in Quad
  PROVE  /\ InBlock(q, Block(0, 0, 0, 8)) <=> q[1] = 0
         /\ InBlock(q, Block(10, 0, 0, 8)) <=> q[1] = 10
         /\ InBlock(q, Block(127, 0, 0, 8)) <=> q[1] = 127
         /\ InBlock(q, Block(224, 0, 0, 3)) <=> q[1] >= 224
         /\ InBlock(q, Block(169, 254, 0, 16)) <=> q[1] = 169 /\ q[2] = 254
         /\ InBlock(q, Block(192, 168, 0, 16)) <=> q[1] = 192 /\ q[2] = 168
         /\ InBlock(q, Block(172, 16, 0, 12)) <=> q[1] = 172 /\ q[2] \in 16 .. 31
         /\ InBlock(q, Block(100, 64, 0, 10)) <=> q[1] = 100 /\ q[2] \in 64 .. 127
         /\ InBlock(q, Block(198, 18, 0, 15)) <=> q[1] = 198 /\ q[2] \in {18, 19}
         /\ InBlock(q, Block(192, 0, 0, 24)) => q[1] = 192 /\ q[2] = 0
         /\ InBlock(q, Block(192, 0, 2, 24)) => q[1] = 192 /\ q[2] = 0
         /\ InBlock(q, Block(198, 51, 100, 24)) => q[1] = 198 /\ q[2] = 51
         /\ InBlock(q, Block(203, 0, 113, 24)) => q[1] = 203 /\ q[2] = 0
<1> DEFINE n == Number(q)
           u == q[1]
           v == q[2]
           w == q[3]
<1>1. u \in 0 .. 255 /\ v \in 0 .. 255 /\ w \in 0 .. 255
  BY SMT DEF Quad, Byte
<1>2. /\ n \div 2097152 = u \div 32 /\ n \div 65536 = u
      /\ n \div 16384 = u * 4 + (v \div 64) /\ n \div 4096 = u * 16 + (v \div 16)
      /\ n \div 512 = u * 128 + (v \div 2) /\ n \div 256 = u * 256 + v /\ n \div 1 = n
  BY Quotients, SMT
<1>3. n = (u * 256 + v) * 256 + w
  BY SMT DEF Number
<1> HIDE DEF n, u, v, w
<1>4. /\ InBlock(q, Block(0, 0, 0, 8)) <=> n \div 65536 = 0
      /\ InBlock(q, Block(10, 0, 0, 8)) <=> n \div 65536 = 10
      /\ InBlock(q, Block(127, 0, 0, 8)) <=> n \div 65536 = 127
      /\ InBlock(q, Block(224, 0, 0, 3)) <=> n \div 2097152 = 7
      /\ InBlock(q, Block(169, 254, 0, 16)) <=> n \div 256 = 43518
      /\ InBlock(q, Block(192, 168, 0, 16)) <=> n \div 256 = 49320
  BY BlockIsQuotient, Sizes, SMT DEF n
<1>5. /\ InBlock(q, Block(172, 16, 0, 12)) <=> n \div 4096 = 2753
      /\ InBlock(q, Block(100, 64, 0, 10)) <=> n \div 16384 = 401
      /\ InBlock(q, Block(198, 18, 0, 15)) <=> n \div 512 = 25353
  BY BlockIsQuotient, Sizes, SMT DEF n
<1>6. /\ InBlock(q, Block(192, 0, 0, 24)) <=> n \div 1 = 12582912
      /\ InBlock(q, Block(192, 0, 2, 24)) <=> n \div 1 = 12582914
      /\ InBlock(q, Block(198, 51, 100, 24)) <=> n \div 1 = 12989284
      /\ InBlock(q, Block(203, 0, 113, 24)) <=> n \div 1 = 13303921
  BY BlockIsQuotient, Sizes, SMT DEF n
<1>7. /\ n \div 2097152 = 7 <=> u >= 224
      /\ n \div 256 = 43518 <=> u = 169 /\ v = 254
      /\ n \div 256 = 49320 <=> u = 192 /\ v = 168
  BY <1>1, <1>2, SMT
<1>8. /\ n \div 4096 = 2753 <=> u = 172 /\ v \in 16 .. 31
      /\ n \div 16384 = 401 <=> u = 100 /\ v \in 64 .. 127
      /\ n \div 512 = 25353 <=> u = 198 /\ v \in {18, 19}
  BY <1>1, <1>2, SMT
<1>9. /\ n \in {12582912, 12582914} => u = 192 /\ v = 0
      /\ n = 12989284 => u = 198 /\ v = 51
      /\ n = 13303921 => u = 203 /\ v = 0
  BY <1>1, <1>3, SMT
<1> QED
  BY <1>2, <1>4, <1>5, <1>6, <1>7, <1>8, <1>9, SMT DEF u, v

Near(q) == <<q[1], q[2]>> \in {<<192, 0>>, <<198, 51>>, <<203, 0>>}

(* IPv4: the code refuses all of the blocks and, beyond them, only the rest *)
(* of the three networks of which they are a part.                          *)
LEMMA PublicQuads ==
  ASSUME NEW q \in Quad
  PROVE  /\ isPublicIPv4(q) => ~IsReserved4(q)
         /\ ~isPublicIPv4(q) => IsReserved4(q) \/ Near(q)
<1> DEFINE u == q[1]
           v == q[2]
           Whole == u \in {0, 10, 127} \/ u >= 224
           Part == \/ u = 169 /\ v = 254
                   \/ u = 192 /\ v = 168
                   \/ u = 172 /\ v \in 16 .. 31
                   \/ u = 100 /\ v \in 64 .. 127
                   \/ u = 198 /\ v \in {18, 19}
           Beside == \/ u = 192 /\ v = 0
                     \/ u = 198 /\ v = 51
                     \/ u = 203 /\ v = 0
<1>1. u \in 0 .. 255 /\ v \in 0 .. 255
  BY SMT DEF Quad, Byte
<1>2. isPublicIPv4(q) <=> ~Whole /\ ~Part /\ ~Beside
  BY SMT DEF isPublicIPv4
<1>3. /\ InBlock(q, Block(0, 0, 0, 8)) <=> u = 0
      /\ InBlock(q, Block(10, 0, 0, 8)) <=> u = 10
      /\ InBlock(q, Block(127, 0, 0, 8)) <=> u = 127
      /\ InBlock(q, Block(224, 0, 0, 3)) <=> u >= 224
  BY BlocksOfBytes
<1>4. /\ InBlock(q, Block(169, 254, 0, 16)) <=> u = 169 /\ v = 254
      /\ InBlock(q, Block(192, 168, 0, 16)) <=> u = 192 /\ v = 168
      /\ InBlock(q, Block(172, 16, 0, 12)) <=> u = 172 /\ v \in 16 .. 31
      /\ InBlock(q, Block(100, 64, 0, 10)) <=> u = 100 /\ v \in 64 .. 127
      /\ InBlock(q, Block(198, 18, 0, 15)) <=> u = 198 /\ v \in {18, 19}
  BY BlocksOfBytes
<1>5. /\ InBlock(q, Block(192, 0, 0, 24)) => u = 192 /\ v = 0
      /\ InBlock(q, Block(192, 0, 2, 24)) => u = 192 /\ v = 0
      /\ InBlock(q, Block(198, 51, 100, 24)) => u = 198 /\ v = 51
      /\ InBlock(q, Block(203, 0, 113, 24)) => u = 203 /\ v = 0
  BY BlocksOfBytes
<1>6. Beside => Near(q)
  BY SMT DEF Near
<1> HIDE DEF u, v
<1>7. ASSUME NEW block \in Reserved, InBlock(q, block)
      PROVE  Whole \/ Part \/ Beside
  <2>1. \/ block \in {Block(0, 0, 0, 8), Block(10, 0, 0, 8), Block(127, 0, 0, 8), Block(224, 0, 0, 3)}
        \/ block \in {Block(169, 254, 0, 16), Block(192, 168, 0, 16), Block(172, 16, 0, 12),
                      Block(100, 64, 0, 10), Block(198, 18, 0, 15)}
        \/ block \in {Block(192, 0, 0, 24), Block(192, 0, 2, 24), Block(198, 51, 100, 24),
                      Block(203, 0, 113, 24)}
    BY SMT DEF Reserved
  <2>2. ASSUME block \in {Block(0, 0, 0, 8), Block(10, 0, 0, 8), Block(127, 0, 0, 8), Block(224, 0, 0, 3)}
        PROVE  Whole
    BY <1>1, <1>3, <1>7, <2>2
  <2>3. ASSUME block \in {Block(169, 254, 0, 16), Block(192, 168, 0, 16), Block(172, 16, 0, 12),
                         Block(100, 64, 0, 10), Block(198, 18, 0, 15)}
        PROVE  Part
    BY <1>1, <1>4, <1>7, <2>3
  <2>4. ASSUME block \in {Block(192, 0, 0, 24), Block(192, 0, 2, 24), Block(198, 51, 100, 24),
                         Block(203, 0, 113, 24)}
        PROVE  Beside
    BY <1>1, <1>5, <1>7, <2>4
  <2> QED
    BY <2>1, <2>2, <2>3, <2>4
<1>8. ASSUME NEW block \in Reserved, InBlock(q, block)
      PROVE  IsReserved4(q)
  BY <1>8 DEF IsReserved4
<1>9. /\ Block(0, 0, 0, 8) \in Reserved /\ Block(10, 0, 0, 8) \in Reserved
      /\ Block(127, 0, 0, 8) \in Reserved /\ Block(224, 0, 0, 3) \in Reserved
      /\ Block(169, 254, 0, 16) \in Reserved /\ Block(192, 168, 0, 16) \in Reserved
      /\ Block(172, 16, 0, 12) \in Reserved /\ Block(100, 64, 0, 10) \in Reserved
      /\ Block(198, 18, 0, 15) \in Reserved
  BY SMT DEF Reserved
<1>10. Whole => IsReserved4(q)
  BY <1>1, <1>3, <1>8, <1>9
<1>11. Part => IsReserved4(q)
  BY <1>1, <1>4, <1>8, <1>9
<1>12. IsReserved4(q) => Whole \/ Part \/ Beside
  BY <1>7 DEF IsReserved4
<1> HIDE DEF Whole, Part, Beside
<1> QED
  BY <1>2, <1>6, <1>10, <1>11, <1>12

(* IPv6: the prefixes of the text refuse all of the reserved groups, and no *)
(* group that is in use.                                                    *)
ReservedGroups == 65152 .. 65215 \cup 64512 .. 65023 \cup 65280 .. 65535
GroupsInUse == 8192 .. 16383
Prefixes == {4072, 4073, 4074, 4075, 252, 253, 255}

LEMMA PublicGroups ==
  ASSUME NEW g \in Group
  PROVE  /\ g \in ReservedGroups => \E p \in Prefixes : StartsWith(g, p)
         /\ g \in GroupsInUse => \A p \in Prefixes : ~StartsWith(g, p)
<1>1. ASSUME NEW n \in Int, n \in 65152 .. 65215
      PROVE  n \div 16 \in 4072 .. 4075
  BY <1>1, SMT
<1>2. ASSUME NEW n \in Int, n \in 64512 .. 65023
      PROVE  n \div 256 \in 252 .. 253
  BY <1>2, SMT
<1>3. ASSUME NEW n \in Int, n \in 65280 .. 65535
      PROVE  n \div 256 \in 255 .. 255
  BY <1>3, SMT
<1>4. ASSUME NEW n \in Int, 8192 <= n, n <= 16383
      PROVE  /\ 8192 <= n \div 1
             /\ 512 <= n \div 16 /\ n \div 16 <= 1023
             /\ 32 <= n \div 256 /\ n \div 256 <= 63
             /\ n \div 4096 <= 3
  BY <1>4, SMT
<1>5. g \in Int
  BY SMT DEF Group
<1>6. ASSUME g \in ReservedGroups
      PROVE  g \div 16 \in 4072 .. 4075 \/ g \div 256 \in 252 .. 253 \/ g \div 256 \in 255 .. 255
  BY <1>1, <1>2, <1>3, <1>5, <1>6, SMT DEF ReservedGroups
<1>7. ASSUME NEW k \in {1, 16, 256, 4096}, g \div k \in Prefixes
      PROVE  \E p \in Prefixes : StartsWith(g, p)
  BY <1>7, SMT DEF StartsWith
<1>8. ASSUME NEW n \in 4072 .. 4075 \cup 252 .. 253 \cup 255 .. 255
      PROVE  n \in Prefixes
  BY <1>8, SMT DEF Prefixes
<1>9. ASSUME g \in ReservedGroups
      PROVE  \E p \in Prefixes : StartsWith(g, p)
  BY <1>6, <1>7, <1>8, <1>9, SMT
<1>10. ASSUME g \in GroupsInUse, NEW k \in {1, 16, 256, 4096}, NEW p \in Prefixes, g \div k = p
       PROVE  FALSE
  <2> 8192 <= g /\ g <= 16383
    BY <1>5, <1>10, SMT DEF GroupsInUse
  <2>1. k = 1 \/ k = 16 \/ k = 256 \/ k = 4096
    BY SMT
  <2>2. /\ 8192 <= g \div 1
        /\ 512 <= g \div 16 /\ g \div 16 <= 1023
        /\ 32 <= g \div 256 /\ g \div 256 <= 63
        /\ g \div 4096 <= 3
    BY <1>4, <1>5
  <2>3. \/ 8192 <= p
        \/ 512 <= p /\ p <= 1023
        \/ 32 <= p /\ p <= 63
        \/ p <= 3
    BY <1>10, <2>1, <2>2, SMT
  <2> QED
    BY <2>3, SMT DEF Prefixes
<1>11. ASSUME g \in GroupsInUse, NEW p \in Prefixes
       PROVE  ~StartsWith(g, p)
  BY <1>10, <1>11 DEF StartsWith
<1> QED
  BY <1>9, <1>11

-----------------------------------------------------------------------------
(* Both kinds of address.                                                   *)
LEMMA PublicAddresses ==
  ASSUME NEW x \in IPv4 \cup IPv6
  PROVE  /\ isPublicAddress(x) => ~IsReserved(x)
         /\ ~isPublicAddress(x) => IsReserved(x) \/ Widened(x) \/ ~GlobalUnicast(x)
<1>1. CASE x \in IPv4
  <2>1. x.family = 4 /\ x.quad \in Quad
    BY <1>1 DEF IPv4, Quad
  <2>2. isPublicAddress(x) = isPublicIPv4(x.quad) /\ IsReserved(x) = IsReserved4(x.quad)
    BY <2>1 DEF isPublicAddress, IsReserved
  <2>3. Near(x.quad) => Widened(x)
    BY <2>1 DEF Near, Widened
  <2> QED
    BY <2>1, <2>2, <2>3, PublicQuads
<1>2. CASE x \in [family : {6}, form : {"mapped"}, quad : Quad]
  <2>1. x.family = 6 /\ x.form = "mapped" /\ x.quad \in Quad
    BY <1>2
  <2>2. isPublicAddress(x) = isPublicIPv4(x.quad) /\ IsReserved(x) = IsReserved4(x.quad)
    BY <2>1 DEF isPublicAddress, isPublicIPv6, IsReserved, IsReserved6
  <2>3. Near(x.quad) => Widened(x)
    BY <2>1 DEF Near, Widened
  <2> QED
    BY <2>1, <2>2, <2>3, PublicQuads
<1>3. CASE x \in [family : {6}, form : {"unspecified", "loopback", "plain"}, group : Group]
  <2>1. x.family = 6 /\ x.form # "mapped"
    BY <1>3, SMT
  <2>2. x.group \in Group
    BY <1>3, SMT
  <2>3. CASE x.form # "plain"
    <3>1. ~isPublicAddress(x) /\ ~GlobalUnicast(x)
      BY <2>1, <2>3, SMT DEF isPublicAddress, isPublicIPv6, GlobalUnicast
    <3> QED
      BY <3>1, Zenon
  <2>4. CASE x.form = "plain"
    <3>1. isPublicAddress(x) <=> \A p \in Prefixes : ~StartsWith(x.group, p)
      BY <2>1, <2>4, SMT DEF isPublicAddress, isPublicIPv6, Prefixes
    <3>2. IsReserved(x) <=> x.group \in ReservedGroups
      BY <2>1, <2>4, SMT DEF IsReserved, IsReserved6, ReservedGroups
    <3>3. GlobalUnicast(x) <=> x.group \in GroupsInUse
      BY <2>1, <2>4, SMT DEF GlobalUnicast, GroupsInUse
    <3>4. isPublicAddress(x) => ~IsReserved(x)
      BY <2>2, <3>1, <3>2, PublicGroups, SMT
    <3>5. GlobalUnicast(x) => isPublicAddress(x)
      BY <2>2, <3>1, <3>3, PublicGroups, SMT
    <3> QED
      BY <3>4, <3>5, Zenon
  <2> QED
    BY <2>3, <2>4
<1>4. IPv6 = [family : {6}, form : {"unspecified", "loopback", "plain"}, group : Group]
               \cup [family : {6}, form : {"mapped"}, quad : Quad]
  BY DEF IPv6
<1> QED
  BY <1>1, <1>2, <1>3, <1>4

-----------------------------------------------------------------------------
(* The invariant: every verdict is the one that resolveTarget gives of the  *)
(* addresses it was called with, and a report is only made of a crawled     *)
(* target.                                                                  *)
Addresses(S) == S \subseteq IPv4 \cup IPv6

Judged ==
  /\ \A a \in input.lookups : Addresses(a)
  /\ answers \in input.lookups /\ Addresses(judged)
  /\ target \in {"admitted", "crawled"} => resolveTarget(input.url, judged)
  /\ target \in {"refused", "turnedAway"} => ~resolveTarget(input.url, judged)
  /\ pass > 0 => target = "crawled"

LEMMA JudgedFirst == PipelineInit => Judged
<1> SUFFICES ASSUME PipelineInit PROVE Judged
  OBVIOUS
<1>1. PICK i \in Inputs : input = [url |-> i.url, lookups |-> i.lookups] /\ answers \in i.lookups
  BY DEF PipelineInit
<1>2. \A a \in input.lookups : Addresses(a)
  BY <1>1, InputsTyped DEF Addresses
<1>3. answers \in input.lookups
  BY <1>1
<1>4. pass = 0 /\ target = "asked" /\ judged = {}
  BY DEF PipelineInit, Init
<1> QED
  BY <1>2, <1>3, <1>4 DEF Judged, Addresses

(* One call of resolveTarget, from a target of which nothing is reported.   *)
LEMMA VerdictIsKept ==
  ASSUME Judged, NEW good \in {"admitted", "crawled"}, NEW bad \in {"refused", "turnedAway"},
         target # "crawled", Judge(good, bad)
  PROVE  Judged'
<1>1. /\ input' = input /\ answers' = answers /\ judged' = answers /\ pass' = pass
      /\ target' = IF resolveTarget(input.url, answers) THEN good ELSE bad
  BY DEF Judge, vars
<1>2. resolveTarget(input.url, judged)' = resolveTarget(input.url, answers)
  BY <1>1 DEF resolveTarget, Parses, isPublicAddress
<1>3. \A a \in input'.lookups : Addresses(a)
  BY <1>1 DEF Judged
<1>4. answers' \in input'.lookups /\ Addresses(judged')
  BY <1>1 DEF Judged
<1>5. ~(pass' > 0)
  BY <1>1 DEF Judged
<1>6. target' \in {"admitted", "crawled"} => resolveTarget(input.url, answers)
  BY <1>1
<1>7. target' \in {"refused", "turnedAway"} => ~resolveTarget(input.url, answers)
  BY <1>1
<1> QED
  BY <1>2, <1>3, <1>4, <1>5, <1>6, <1>7 DEF Judged, Addresses

(* What is said of a verdict stands while nobody judges.                    *)
LEMMA VerdictStands ==
  ASSUME input' = input, judged' = judged
  PROVE  resolveTarget(input.url, judged)' = resolveTarget(input.url, judged)
BY DEF resolveTarget, Parses, isPublicAddress

LEMMA JudgedNext == Judged /\ [PipelineNext]_pipelineVars => Judged'
<1> SUFFICES ASSUME Judged, [PipelineNext]_pipelineVars PROVE Judged'
  OBVIOUS
<1>1. CASE Resolve
  BY <1>1, VerdictIsKept DEF Resolve
<1>2. CASE Crawl
  BY <1>2, VerdictIsKept DEF Crawl
<1>3. CASE Detect
  <2>1. /\ input' = input /\ answers' = answers /\ judged' = judged
        /\ target' = target /\ target = "crawled"
    BY <1>3 DEF Detect
  <2> QED
    BY <2>1, VerdictStands DEF Judged, Addresses
<1>4. CASE Retry
  <2>1. /\ input' = input /\ answers' = answers /\ judged' = judged
        /\ target' = "retried" /\ pass' = 0
    BY <1>4 DEF Retry
  <2> QED
    BY <2>1 DEF Judged, Addresses
<1>5. CASE AnswersChange
  <2>1. /\ input' = input /\ answers' \in input.lookups /\ judged' = judged
        /\ target' = target /\ pass' = pass
    BY <1>5 DEF AnswersChange, vars
  <2> QED
    BY <2>1, VerdictStands DEF Judged, Addresses
<1>6. CASE UNCHANGED pipelineVars
  <2>1. /\ input' = input /\ answers' = answers /\ judged' = judged
        /\ target' = target /\ pass' = pass
    BY <1>6 DEF pipelineVars, vars
  <2> QED
    BY <2>1, VerdictStands DEF Judged, Addresses
<1> QED
  BY <1>1, <1>2, <1>3, <1>4, <1>5, <1>6 DEF PipelineNext

LEMMA PipelineJudged == PipelineSpec => []Judged
BY JudgedFirst, JudgedNext, PTL DEF PipelineSpec

(* What resolveTarget lets through is harmless, and what it turns away has  *)
(* something the matter with it.                                            *)
LEMMA VerdictsAreRight ==
  ASSUME NEW u, NEW S, Addresses(S)
  PROVE  /\ resolveTarget(u, S) => Harmless(S)
         /\ ~resolveTarget(u, S) /\ Parses(u) /\ S # {} =>
              \E x \in S : IsReserved(x) \/ Widened(x) \/ ~GlobalUnicast(x)
<1>1. \A x \in S : x \in IPv4 \cup IPv6
  BY DEF Addresses
<1>2. resolveTarget(u, S) <=> Parses(u) /\ S # {} /\ \A x \in S : isPublicAddress(x)
  BY DEF resolveTarget
<1> QED
  BY <1>1, <1>2, PublicAddresses DEF Harmless

(* Whatever hosts resolve to, and however that changes: what resolveTarget  *)
(* lets through, and a report is made of, was outside all of the reserved   *)
(* blocks when it was called, and no web address is turned away without a   *)
(* reason.                                                                  *)
THEOREM TargetsAreJudgedRight == PipelineSpec => []TargetIsJudgedRight
<1>1. Judged => TargetIsJudgedRight
  BY VerdictsAreRight DEF Judged, TargetIsJudgedRight
<1> QED
  BY <1>1, PipelineJudged, PTL

(* No run begins to crawl a host by what it resolved to at some other time: *)
(* not when it was admitted, nor in an earlier attempt.                     *)
THEOREM CrawlsAreJudgedAfresh == PipelineSpec => CrawlIsJudgedAfresh
<1>1. ASSUME Judged, [PipelineNext]_pipelineVars, target # "crawled", target' = "crawled"
      PROVE  Harmless(answers)
  <2>1. Crawl
    BY <1>1 DEF PipelineNext, Resolve, Detect, Retry, AnswersChange, Judge, pipelineVars
  <2>2. resolveTarget(input.url, answers)
    BY <1>1, <2>1 DEF Crawl, Judge
  <2>3. Addresses(answers)
    BY <1>1 DEF Judged
  <2> QED
    BY <2>2, <2>3, VerdictsAreRight
<1>2. Judged /\ [PipelineNext]_pipelineVars =>
        [target # "crawled" /\ target' = "crawled" => Harmless(answers)]_pipelineVars
  BY <1>1
<1> QED
  BY <1>2, PipelineJudged, PTL DEF PipelineSpec, CrawlIsJudgedAfresh


-----------------------------------------------------------------------------
(* The engine.  A technology has one rule after the merge, with everything  *)
(* its sections say.                                                        *)
Rule(n) ==
  [name |-> n, implies |-> Brings[n], signals |-> UNION {r.signals : r \in RulesFor[n]}]

LEMMA RulesOfNames == RULES = {Rule(n) : n \in Names}
<1>1. \A n \in Names : RulesFor[n] = {RAW_RULES[i] : i \in {j \in DOMAIN RAW_RULES : RAW_RULES[j].name = n}}
  BY DEF RulesFor
<1>2. \A n \in Names : Brings[n] = UNION {r.implies : r \in RulesFor[n]}
  BY DEF Brings
<1>3. RULES = {[name |-> n, implies |-> UNION {r.implies : r \in RulesFor[n]},
                signals |-> UNION {r.signals : r \in RulesFor[n]}] : n \in Names}
  BY <1>1 DEF RULES, mergeByName, Names
<1> QED
  BY <1>2, <1>3 DEF Rule

LEMMA ImpliedIsBrought == \A n \in Names : Implied[n] = Brings[n]
<1> TAKE n \in Names
<1>1. {x \in RULES : x.name = n} = {Rule(n)}
  BY RulesOfNames DEF Rule
<1>2. Implied[n] = UNION {r.implies : r \in {x \in RULES : x.name = n}}
  BY DEF Implied
<1>3. UNION {r.implies : r \in {Rule(n)}} = Rule(n).implies
  OBVIOUS
<1> QED
  BY <1>1, <1>2, <1>3 DEF Rule

(* What the merged rule finds in the capture is what the site shows.        *)
LEMMA HitsAreShown ==
  ASSUME site \in Site, NEW n \in Names
  PROVE  runHits(Rule(n), Capture(site)) = Shown[n]
<1> DEFINE Signals == UNION {r.signals : r \in RulesFor[n]}
           Seen(x) == IF x.global = "" THEN <<n, x.confidence>> \in site.marks
                      ELSE x.global \in site.globals \ Unprobed
<1>1. Shown[n] = {s.confidence : s \in {x \in Signals : Seen(x)}}
  BY DEF Shown
<1>2. Capture(site).marks = site.marks /\ Capture(site).globals = site.globals \cap PROBE_GLOBALS
  BY DEF Capture, Site
<1>3. Rule(n).signals = Signals /\ Rule(n).name = n
  BY DEF Rule
<1>4. ASSUME NEW x \in Signals
      PROVE  x.global # "" => (x.global \in PROBE_GLOBALS <=> x.global \notin Unprobed)
  <2>1. PICK i \in DOMAIN RAW_RULES : x \in RAW_RULES[i].signals
    BY <1>4 DEF RulesFor
  <2> QED
    BY <2>1, GlobalsAreProbed
<1>5. ASSUME NEW x \in Signals
      PROVE  testSignal(Rule(n), x, Capture(site)) <=> Seen(x)
  BY <1>2, <1>3, <1>4, <1>5 DEF testSignal
<1>6. runHits(Rule(n), Capture(site))
        = {s.confidence : s \in {x \in Signals : testSignal(Rule(n), x, Capture(site))}}
  BY <1>3 DEF runHits
<1> HIDE DEF Signals, Seen
<1> QED
  BY <1>1, <1>5, <1>6

(* The first step of the engine reports exactly what the site shows.        *)
LEMMA DirectIsShown ==
  ASSUME site \in Site
  PROVE  /\ DOMAIN Direct(Capture(site)) = {n \in Names : Shown[n] # {}}
         /\ \A n \in Names : Shown[n] # {} => Direct(Capture(site))[n] = Strongest(Shown[n])
<1> DEFINE hit == {r \in RULES : runHits(r, Capture(site)) # {}}
<1>1. hit = {Rule(n) : n \in {m \in Names : Shown[m] # {}}}
  <2>1. \A n \in Names : runHits(Rule(n), Capture(site)) = Shown[n]
    BY HitsAreShown
  <2>2. \A r : r \in hit <=> \E n \in Names : r = Rule(n) /\ Shown[n] # {}
    BY <2>1, RulesOfNames
  <2> QED
    BY <2>2
<1>2. {r.name : r \in hit} = {n \in Names : Shown[n] # {}}
  <2>1. \A n \in Names : Rule(n).name = n
    BY DEF Rule
  <2>2. {r.name : r \in hit} = {Rule(n).name : n \in {m \in Names : Shown[m] # {}}}
    BY <1>1
  <2> QED
    BY <2>1, <2>2
<1>3. ASSUME NEW n \in Names, Shown[n] # {}
      PROVE  (CHOOSE r \in hit : r.name = n) = Rule(n)
  <2>1. Rule(n) \in hit /\ Rule(n).name = n
    BY <1>1, <1>3 DEF Rule
  <2>2. \A r \in hit : r.name = n => r = Rule(n)
    BY <1>1 DEF Rule
  <2> QED
    BY <2>1, <2>2
<1>4. Direct(Capture(site))
        = [n \in {r.name : r \in hit} |->
             Strongest(runHits(CHOOSE r \in hit : r.name = n, Capture(site)))]
  BY DEF Direct, Strongest
<1> HIDE DEF hit
<1> QED
  BY <1>2, <1>3, <1>4, HitsAreShown

(* The report while it is made: what the site shows is in it as it was      *)
(* found, and everything else is brought by something that is.              *)
Evidence ==
  \A n \in Names : Shown[n] # {} => n \in DOMAIN found /\ found[n] = Strongest(Shown[n])
Founded ==
  /\ DOMAIN found \subseteq Names
  /\ \A n \in DOMAIN found : Shown[n] # {} \/ \E m \in DOMAIN found \ {n} : n \in Brings[m]

(* How far the passes have come.  The first visit of a technology that the  *)
(* site shows adds all it brings, so after the first pass only technologies *)
(* that were brought can lack something, and those bring nothing that       *)
(* brings anything itself.                                                  *)
Complete(n) == n \in DOMAIN found => Brings[n] \subseteq DOMAIN found
VisitedSoFar == {Visited[order][i] : i \in 1 .. at - 1}
Closed ==
  /\ pass = 0 => at = 1
  /\ pass = 1 => \A n \in VisitedSoFar : Shown[n] # {} => Complete(n)
  /\ pass >= 2 => \A n \in Names : Shown[n] # {} => Complete(n)
  /\ pass = 2 => \A n \in VisitedSoFar : Complete(n)
  /\ pass = 3 => \A n \in Names : Complete(n)

EngineTyped ==
  /\ site \in Site /\ order \in DOMAIN Visited
  /\ pass \in 0 .. 3 /\ at \in 1 .. Len(Visited[order]) + 1
Engine == EngineTyped /\ Closed /\ (pass > 0 => Evidence /\ Founded)

LEMMA OrdersAreNames ==
  ASSUME EngineTyped
  PROVE  /\ Len(Visited[order]) \in Nat
         /\ \A i \in 1 .. Len(Visited[order]) : Visited[order][i] \in Names
         /\ \A n \in Names : Brings[n] # {} =>
              \E i \in 1 .. Len(Visited[order]) : Visited[order][i] = n
<1>1. Visited[order] \in Seq(Names)
  BY VisitedTyped DEF EngineTyped
<1>2. \A n \in Names : Brings[n] # {} => \E i \in DOMAIN Visited[order] : Visited[order][i] = n
  BY VisitedTyped, ImpliedIsBrought DEF EngineTyped
<1> QED
  BY <1>1, <1>2

LEMMA EngineStarts == Init => Engine
<1> SUFFICES ASSUME Init PROVE Engine
  OBVIOUS
<1>1. site \in Site /\ order \in DOMAIN Visited /\ pass = 0 /\ at = 1
  BY SitesTyped DEF Init
<1>2. Len(Visited[order]) \in Nat
  BY <1>1, VisitedTyped
<1> QED
  BY <1>1, <1>2 DEF Engine, EngineTyped, Closed

(* Steps that leave site and order alone leave what the site shows alone.   *)
LEMMA SameSite ==
  ASSUME site' = site
  PROVE  Shown' = Shown /\ Direct(Capture(site))' = Direct(Capture(site))
BY DEF Shown, Direct, Capture, runHits, testSignal

LEMMA RulesRun ==
  ASSUME Engine, RunRules
  PROVE  Engine'
<1>1. /\ pass = 0 /\ pass' = 1 /\ found' = Direct(Capture(site))
      /\ site' = site /\ order' = order /\ at' = at
  BY DEF RunRules
<1>2. EngineTyped'
  BY <1>1 DEF Engine, EngineTyped
<1>3. site \in Site
  BY DEF Engine, EngineTyped
<1>4. DOMAIN found' = {n \in Names : Shown[n] # {}}
  BY <1>1, <1>3, DirectIsShown
<1>5. Evidence'
  BY <1>1, <1>3, DirectIsShown, SameSite DEF Evidence
<1>6. Founded'
  BY <1>1, <1>4, SameSite DEF Founded
<1>7. at = 1
  BY <1>1 DEF Engine, Closed
<1>8. VisitedSoFar' = {}
  BY <1>1, <1>7 DEF VisitedSoFar
<1>9. Closed'
  BY <1>1, <1>8 DEF Closed
<1> QED
  BY <1>2, <1>5, <1>6, <1>9 DEF Engine

LEMMA RuleIsVisited ==
  ASSUME Engine, Visit
  PROVE  Engine'
<1> DEFINE v == Visited[order][at]
<1>1. /\ pass \in 1 .. 2 /\ at <= Len(Visited[order]) /\ found' = Follow(v)
      /\ at' = at + 1 /\ site' = site /\ order' = order /\ pass' = pass
  BY DEF Visit
<1>2. EngineTyped /\ Closed /\ Evidence /\ Founded
  BY <1>1 DEF Engine
<1>3. at \in 1 .. Len(Visited[order]) /\ Len(Visited[order]) \in Nat /\ v \in Names
  BY <1>1, <1>2, OrdersAreNames DEF EngineTyped
<1>4. Shown' = Shown
  BY <1>1, SameSite
<1>5. VisitedSoFar' = VisitedSoFar \cup {v}
  BY <1>1, <1>3 DEF VisitedSoFar
<1>6. VisitedSoFar \subseteq Names
  BY <1>2, <1>3, OrdersAreNames DEF VisitedSoFar
<1>7. EngineTyped'
  BY <1>1, <1>2, <1>3 DEF EngineTyped
<1> HIDE DEF v
<1>8. CASE v \notin DOMAIN found
  <2>1. found' = found
    BY <1>1, <1>8 DEF Follow
  <2>2. Evidence' /\ Founded'
    BY <1>2, <1>4, <2>1 DEF Evidence, Founded
  <2>3. \A n \in Names : Complete(n)' <=> Complete(n)
    BY <2>1 DEF Complete
  <2>4. Complete(v)
    BY <1>8 DEF Complete
  <2>5. Closed'
    BY <1>1, <1>2, <1>3, <1>4, <1>5, <1>6, <2>3, <2>4 DEF Closed
  <2> QED
    BY <1>7, <2>2, <2>5 DEF Engine
<1>9. CASE v \in DOMAIN found
  <2>1. found' = [n \in DOMAIN found \cup Brings[v] |-> IF n \in DOMAIN found THEN found[n] ELSE 70]
    BY <1>1, <1>3, <1>9, ImpliedIsBrought DEF Follow
  <2>2. /\ DOMAIN found' = DOMAIN found \cup Brings[v]
        /\ \A n \in DOMAIN found : found'[n] = found[n]
    BY <2>1
  <2>3. Brings[v] \subseteq Names \ {v}
    BY <1>3, RulesAreShallow
  <2>4. Evidence'
    BY <1>2, <1>4, <2>2 DEF Evidence
  <2>5. Founded'
    BY <1>2, <1>4, <1>9, <2>2, <2>3 DEF Founded
  <2>6. ASSUME NEW n \in Names, Complete(n), n \in DOMAIN found
        PROVE  Complete(n)'
    BY <2>2, <2>6 DEF Complete
  <2>7. ASSUME NEW n, n = v
        PROVE  Complete(n)'
    BY <2>2, <2>7 DEF Complete
  <2>8. ASSUME NEW n \in Names, Shown[n] # {}, Complete(n)
        PROVE  Complete(n)'
    BY <1>2, <2>6, <2>8 DEF Evidence
  <2>9. ASSUME pass = 2, NEW n \in Names, Complete(n)
        PROVE  Complete(n)'
    <3>1. CASE n \in DOMAIN found
      BY <2>6, <2>9, <3>1
    <3>2. CASE n \notin DOMAIN found \cup Brings[v]
      BY <2>2, <3>2 DEF Complete
    <3>3. CASE n \in Brings[v] \ DOMAIN found
      <4>1. Shown[v] = {}
        BY <1>1, <1>2, <1>3, <1>9, <2>9, <3>3 DEF Closed, Complete
      <4>2. PICK m \in Names : v \in Brings[m]
        BY <1>2, <1>9, <4>1 DEF Founded
      <4>3. Brings[n] = {}
        BY <3>3, <4>2, RulesAreShallow
      <4> QED
        BY <4>3 DEF Complete
    <3> QED
      BY <3>1, <3>2, <3>3
  <2>10. ASSUME NEW n \in Names, pass = 1 => n \in VisitedSoFar', Shown[n] # {}
         PROVE  Complete(n)'
    <3>1. CASE n = v
      BY <2>7, <3>1
    <3>2. CASE n # v
      <4>1. Complete(n)
        BY <1>1, <1>2, <1>5, <2>10, <3>2 DEF Closed
      <4> QED
        BY <2>8, <2>10, <4>1
    <3> QED
      BY <3>1, <3>2
  <2>11. ASSUME pass = 2, NEW n \in VisitedSoFar'
         PROVE  Complete(n)'
    <3>1. CASE n = v
      BY <2>7, <3>1
    <3>2. CASE n # v
      <4>1. n \in Names /\ Complete(n)
        BY <1>2, <1>5, <1>6, <2>11, <3>2 DEF Closed
      <4> QED
        BY <2>9, <2>11, <4>1
    <3> QED
      BY <3>1, <3>2
  <2>12. VisitedSoFar' \subseteq Names
    BY <1>3, <1>5, <1>6
  <2>13. pass' = pass /\ pass # 0 /\ pass # 3 /\ (pass >= 2 => pass # 1)
    BY <1>1
  <2>14. Closed'
    <3>1. (pass' = 1 => \A n \in VisitedSoFar' : Shown'[n] # {} => Complete(n)')
      BY <1>4, <2>10, <2>12
    <3>2. pass' >= 2 => \A n \in Names : Shown'[n] # {} => Complete(n)'
      BY <1>4, <2>10, <2>13
    <3>3. pass' = 2 => \A n \in VisitedSoFar' : Complete(n)'
      BY <2>11, <2>13
    <3> QED
      BY <2>13, <3>1, <3>2, <3>3 DEF Closed
  <2> QED
    BY <1>7, <2>4, <2>5, <2>14 DEF Engine
<1> QED
  BY <1>8, <1>9

LEMMA PassEnds ==
  ASSUME Engine, NextPass
  PROVE  Engine'
<1>1. /\ pass \in 1 .. 2 /\ at > Len(Visited[order]) /\ pass' = pass + 1 /\ at' = 1
      /\ site' = site /\ order' = order /\ found' = found
  BY DEF NextPass
<1>2. EngineTyped /\ Closed /\ Evidence /\ Founded
  BY <1>1 DEF Engine
<1>3. Len(Visited[order]) \in Nat /\ at = Len(Visited[order]) + 1
  BY <1>1, <1>2, OrdersAreNames DEF EngineTyped
<1>4. EngineTyped'
  BY <1>1, <1>2, <1>3 DEF EngineTyped
<1>5. Shown' = Shown
  BY <1>1, SameSite
<1>6. Evidence' /\ Founded'
  BY <1>1, <1>2, <1>5 DEF Evidence, Founded
<1>7. \A n \in Names : Complete(n)' <=> Complete(n)
  BY <1>1 DEF Complete
<1>8. \A n \in Names : Brings[n] # {} => n \in VisitedSoFar
  BY <1>2, <1>3, OrdersAreNames DEF VisitedSoFar
<1>9. \A n \in Names : n \notin VisitedSoFar => Complete(n)
  BY <1>8 DEF Complete
<1>10. VisitedSoFar' = {}
  BY <1>1 DEF VisitedSoFar
<1>11. Closed'
  <2>1. CASE pass = 1
    BY <1>1, <1>2, <1>5, <1>7, <1>9, <1>10, <2>1 DEF Closed
  <2>2. CASE pass = 2
    BY <1>1, <1>2, <1>5, <1>7, <1>9, <1>10, <2>2 DEF Closed
  <2> QED
    BY <1>1, <2>1, <2>2
<1> QED
  BY <1>4, <1>6, <1>11 DEF Engine

LEMMA EngineNext == Engine /\ [Next]_vars => Engine'
<1> SUFFICES ASSUME Engine, [Next]_vars PROVE Engine'
  OBVIOUS
<1>1. CASE RunRules
  BY <1>1, RulesRun
<1>2. CASE Visit
  BY <1>2, RuleIsVisited
<1>3. CASE NextPass
  BY <1>3, PassEnds
<1>4. CASE UNCHANGED vars
  <2>1. site' = site /\ order' = order /\ found' = found /\ pass' = pass /\ at' = at
    BY <1>4 DEF vars
  <2>2. Shown' = Shown
    BY <2>1, SameSite
  <2>3. (Evidence' <=> Evidence) /\ (Founded' <=> Founded)
    BY <2>1, <2>2 DEF Evidence, Founded
  <2>4. VisitedSoFar' = VisitedSoFar /\ \A n : Complete(n)' <=> Complete(n)
    BY <2>1 DEF VisitedSoFar, Complete
  <2>5. Closed' <=> Closed
    BY <2>1, <2>2, <2>4 DEF Closed
  <2>6. EngineTyped' <=> EngineTyped
    BY <2>1 DEF EngineTyped
  <2> QED
    BY <2>1, <2>3, <2>5, <2>6 DEF Engine
<1> QED
  BY <1>1, <1>2, <1>3, <1>4 DEF Next

(* A new attempt starts the engine from nothing.                            *)
LEMMA EngineRestarts ==
  ASSUME Engine, Retry
  PROVE  Engine'
<1>1. pass' = 0 /\ at' = 1 /\ site' = site /\ order' = order
  BY DEF Retry
<1>2. site \in Site /\ order \in DOMAIN Visited
  BY DEF Engine, EngineTyped
<1>3. Len(Visited[order]) \in Nat
  BY <1>2, VisitedTyped
<1> QED
  BY <1>1, <1>2, <1>3 DEF Engine, EngineTyped, Closed

LEMMA PipelineEngine == PipelineSpec => []Engine
<1>1. PipelineInit => Engine
  BY EngineStarts DEF PipelineInit
<1>2. [PipelineNext]_pipelineVars => [Next]_vars \/ Retry
  BY DEF PipelineNext, Resolve, Crawl, Judge, Detect, AnswersChange, pipelineVars
<1>3. Engine /\ [PipelineNext]_pipelineVars => Engine'
  BY <1>2, EngineNext, EngineRestarts
<1> QED
  BY <1>1, <1>3, PTL DEF PipelineSpec

(* Whatever the sites show and in whatever order the passes take the rules, *)
(* nothing that a site shows is lost on the way to the report.              *)
THEOREM SignalsCount == PipelineSpec => []EverySignalCounts
<1>1. Engine => EverySignalCounts
  <2> SUFFICES ASSUME Engine, Reported PROVE EverySignalCounts
    BY DEF EverySignalCounts
  <2>1. Evidence
    BY DEF Engine, Reported
  <2> QED
    BY <2>1 DEF Evidence, EverySignalCounts, Strongest
<1> QED
  BY <1>1, PipelineEngine, PTL

(* And two passes complete every report, since the rules are shallow, and   *)
(* make nothing up.                                                         *)
THEOREM TwoPassesSuffice == PipelineSpec => []ImplicationsAreComplete
<1>1. Engine => ImplicationsAreComplete
  <2> SUFFICES ASSUME Engine, Reported PROVE ImplicationsAreComplete
    BY DEF ImplicationsAreComplete
  <2>1. Founded /\ \A n \in Names : Complete(n)
    BY DEF Engine, Closed, Reported
  <2> QED
    BY <2>1 DEF Founded, Complete, ImplicationsAreComplete
<1> QED
  BY <1>1, PipelineEngine, PTL
=============================================================================
