---------------------------- MODULE Calls_proofs ----------------------------
(***************************************************************************)
(* Proofs about three calls with which nothing else interferes: the        *)
(* comparison of two paths, the reads of a packet, and a narinfo that is   *)
(* parsed, checked, rendered and parsed again.                             *)
(***************************************************************************)
EXTENDS PathOrder, Wire, NarInfo, SequenceTheorems, WellFoundedInduction, TLAPS

\* The loop invariant: the bytes before i are the same in both paths.
Inv ==
  /\ TypeOK
  /\ i <= Shorter + 1
  /\ result = "pending" => Bytes!AgreeUpTo(path1, path2, i - 1)
  /\ ComputesOrder

\* The first difference decides the order.
LEMMA FirstDifference ==
  ASSUME NEW p \in Seq(Byte), NEW q \in Seq(Byte), NEW k \in 1..Len(p), k \in 1..Len(q),
         Bytes!AgreeUpTo(p, q, k - 1), p[k] # q[k]
  PROVE  Bytes!Ordered(p, q) <=> Smaller(p[k], q[k])
<1>1. /\ Len(p) \in Nat /\ Len(q) \in Nat
      /\ p[k] \in Byte /\ q[k] \in Byte /\ p[k] \in Nat /\ q[k] \in Nat
  <2>1. p[k] \in Byte
    OBVIOUS
  <2>2. q[k] \in Byte
    OBVIOUS
  <2>3. Len(p) \in Nat /\ Len(q) \in Nat
    OBVIOUS
  <2> QED BY <2>1, <2>2, <2>3, BytesAreNumbers
<1>2. <<p[k], q[k]>> \in SlashFirst <=> Smaller(p[k], q[k])
  BY <1>1, BytesAreNumbers DEF SlashFirst, Smaller
<1>3. ~Bytes!StartsWith(q, p)
  BY <1>1 DEF Bytes!StartsWith, Bytes!AgreeUpTo
<1>4. ASSUME NEW j \in (1..Len(p)) \cap (1..Len(q)), Bytes!AgreeUpTo(p, q, j - 1),
             <<p[j], q[j]>> \in SlashFirst
      PROVE  j = k
  <2>1. p[j] # q[j]
    BY <1>4 DEF SlashFirst
  <2> QED BY <1>1, <1>4, <2>1 DEF Bytes!AgreeUpTo
<1> QED BY <1>2, <1>3, <1>4 DEF Bytes!Ordered

\* Without a difference the shorter path comes first.
LEMMA NoDifference ==
  ASSUME NEW p \in Seq(Byte), NEW q \in Seq(Byte), NEW n \in Nat,
         n = Len(p) \/ n = Len(q), n <= Len(p), n <= Len(q), Bytes!AgreeUpTo(p, q, n)
  PROVE  Bytes!Ordered(p, q) <=> Len(q) >= Len(p)
<1>1. Len(p) \in Nat /\ Len(q) \in Nat
  OBVIOUS
<1>2. ASSUME NEW j \in (1..Len(p)) \cap (1..Len(q)) PROVE <<p[j], q[j]>> \notin SlashFirst
  BY <1>1, <1>2 DEF SlashFirst, Bytes!AgreeUpTo
<1>3. Bytes!StartsWith(q, p) <=> Len(q) >= Len(p)
  BY <1>1 DEF Bytes!StartsWith, Bytes!AgreeUpTo
<1> QED BY <1>2, <1>3 DEF Bytes!Ordered

\* The loop begins with nothing compared.
LEMMA InitInv == Init => Inv
BY PathsAreBytes DEF Init, Inv, TypeOK, Shorter, ComputesOrder, Bytes!AgreeUpTo

\* A comparison of two bytes keeps the invariant.
LEMMA NextInv == Inv /\ [Next]_vars => Inv'
<1> SUFFICES ASSUME Inv, [Next]_vars PROVE Inv'
  OBVIOUS
<1>0. /\ path1 \in Seq(Byte) /\ path2 \in Seq(Byte) /\ i \in Nat \ {0}
      /\ Len(path1) \in Nat /\ Len(path2) \in Nat /\ Shorter \in Nat
      /\ Shorter <= Len(path1) /\ Shorter <= Len(path2)
      /\ Shorter = Len(path1) \/ Shorter = Len(path2)
  BY DEF Inv, TypeOK, Shorter
<1>1. CASE Continue
  <2>1. Bytes!AgreeUpTo(path1, path2, i)
    BY <1>0, <1>1 DEF Continue, Inv, Bytes!AgreeUpTo
  <2> QED BY <1>0, <1>1, <2>1 DEF Continue, Inv, TypeOK, Shorter, ComputesOrder, Bytes!AgreeUpTo
<1>2. CASE Decide
  <2>1. Bytes!Ordered(path1, path2) <=> Smaller(path1[i], path2[i])
    BY <1>0, <1>2, FirstDifference DEF Decide, Inv
  <2>2. /\ UNCHANGED <<path1, path2, i>>
        /\ result' = IF Smaller(path1[i], path2[i]) THEN "true" ELSE "false"
    BY <1>2 DEF Decide, Return
  <2>3. ComputesOrder'
    BY <2>1, <2>2 DEF ComputesOrder, Bytes!Ordered, Bytes!StartsWith, Bytes!AgreeUpTo
  <2> QED BY <2>2, <2>3 DEF Inv, TypeOK, Shorter
<1>3. CASE Exhaust
  <2>1. i - 1 = Shorter /\ Bytes!AgreeUpTo(path1, path2, Shorter)
    BY <1>0, <1>3 DEF Exhaust, Inv
  <2>2. Bytes!Ordered(path1, path2) <=> Len(path2) >= Len(path1)
    BY <1>0, <2>1, NoDifference
  <2>3. /\ UNCHANGED <<path1, path2, i>>
        /\ result' = IF Len(path2) >= Len(path1) THEN "true" ELSE "false"
    BY <1>3 DEF Exhaust, Return
  <2>4. ComputesOrder'
    BY <2>2, <2>3 DEF ComputesOrder, Bytes!Ordered, Bytes!StartsWith, Bytes!AgreeUpTo
  <2> QED BY <2>3, <2>4 DEF Inv, TypeOK, Shorter
<1>4. CASE UNCHANGED vars
  BY <1>4 DEF vars, Inv, TypeOK, Shorter, ComputesOrder, Bytes!Ordered, Bytes!StartsWith,
     Bytes!AgreeUpTo
<1> QED BY <1>1, <1>2, <1>3, <1>4 DEF Next, Returned

(***************************************************************************)
(* Whatever it returns, the loop has computed the order.                   *)
(***************************************************************************)
THEOREM Correct == Spec => []ComputesOrder
<1>1. Inv => ComputesOrder
  BY DEF Inv
<1> QED BY <1>1, InitInv, NextInv, PTL DEF Spec

----------------------------------------------------------------------------

Octet == 0..(Radix - 1)

\* A smallest element, of any set of numbers that is not empty.
LEMMA Smallest ==
  ASSUME NEW T, T \subseteq Nat, T # {}
  PROVE  \E m \in T : \A k \in T : m <= k
<1>1. PICK m \in T : \A k \in T : ~(<<k, m>> \in OpToRel(<, Nat))
  BY WFMin, NatLessThanWellFounded
<1>2. \A k \in T : ~(k < m)
  BY <1>1 DEF OpToRel
<1> QED BY <1>2

\* What little-endian bytes stand for is a number.
LEMMA UintIsNat ==
  ASSUME NEW s \in Seq(Octet)
  PROVE  Uint(s) \in Nat
<1> DEFINE n == Len(s)
           Step(h, k) == IF k = 0 THEN 0 ELSE h[k - 1] * Radix + s[n - k + 1]
           Sums(m) == {h \in [0..m -> Nat] : \A k \in 0..m : h[k] = Step(h, k)}
<1>1. n \in Nat /\ \A k \in 1..n : s[k] \in Nat
  BY WidthAssumption DEF Octet
<1>2. \A a \in Nat, b \in Nat : a * Radix + b \in Nat
  BY WidthAssumption
<1>3. \A m \in 0..n : Sums(m) # {}
  <2> DEFINE Missing == {m \in 0..n : Sums(m) = {}}
  <2> SUFFICES ASSUME Missing # {} PROVE FALSE
    OBVIOUS
  <2>1. Missing \subseteq Nat
    OBVIOUS
  <2>2. PICK m \in Missing : \A k \in Missing : m <= k
    <3> HIDE DEF Missing
    <3> QED BY <2>1, Smallest
  <2>3. CASE m = 0
    <3> DEFINE z == [k \in 0..0 |-> 0]
    <3>1. z \in [0..0 -> Nat] /\ \A k \in 0..0 : k = 0 /\ z[k] = 0
      OBVIOUS
    <3> HIDE DEF z
    <3>2. z \in Sums(0)
      BY <3>1
    <3> QED BY <2>2, <2>3, <3>2
  <2>4. CASE m # 0
    <3>1. m - 1 \in 0..n /\ m - 1 \notin Missing
      <4>1. m \in 0..n
        BY <2>2
      <4>2. m - 1 \in 0..n /\ m - 1 < m
        BY <1>1, <2>4, <4>1
      <4> HIDE DEF Missing
      <4> QED BY <2>2, <4>1, <4>2
    <3>2. PICK h \in Sums(m - 1) : TRUE
      BY <3>1
    <3> DEFINE g == [k \in 0..m |-> IF k = m THEN h[m - 1] * Radix + s[n - m + 1] ELSE h[k]]
    <3>3. h[m - 1] \in Nat /\ s[n - m + 1] \in Nat
      BY <1>1, <2>2, <2>4, <3>2
    <3>4. g \in [0..m -> Nat]
      <4>1. h \in [0..(m - 1) -> Nat] /\ h[m - 1] * Radix + s[n - m + 1] \in Nat
        BY <1>2, <3>2, <3>3
      <4>2. \A k \in 0..m : k = m \/ k \in 0..(m - 1)
        BY <1>1, <2>2
      <4> HIDE DEF n
      <4> QED BY <4>1, <4>2
    <3>5. \A k \in 0..m : g[k] = Step(g, k)
      <4>1. /\ g[m] = h[m - 1] * Radix + s[n - m + 1]
            /\ \A k \in 0..(m - 1) : g[k] = h[k] /\ h[k] = Step(h, k)
        BY <1>1, <2>2, <3>2
      <4> HIDE DEF g
      <4>2. \A k \in 0..m : k = m \/ k \in 0..(m - 1)
        BY <1>1, <2>2
      <4>3. \A k \in 0..(m - 1) : k = 0 \/ k - 1 \in 0..(m - 1)
        BY <1>1, <2>2
      <4>4. m - 1 \in 0..(m - 1)
        BY <1>1, <2>2, <2>4
      <4> QED BY <2>4, <4>1, <4>2, <4>3, <4>4, SMTT(30)
    <3>6. g \in Sums(m)
      BY <3>4, <3>5
    <3> QED BY <2>2, <3>6
  <2> QED BY <2>3, <2>4
<1>4. PICK h \in Sums(n) : TRUE
  <2> HIDE DEF Sums, n
  <2> QED BY <1>1, <1>3
<1>5. h = [k \in 0..n |-> Step(h, k)]
  <2>1. h \in [0..n -> Nat] /\ \A k \in 0..n : h[k] = Step(h, k)
    BY <1>4
  <2> HIDE DEF Step, n
  <2> QED BY <2>1
<1> DEFINE v == CHOOSE f : f = [k \in 0..n |-> Step(f, k)]
<1>6. v = [k \in 0..n |-> Step(v, k)]
  <2>1. \E f : f = [k \in 0..n |-> Step(f, k)]
    BY <1>5
  <2> QED BY <2>1
<1>7. Uint(s) = v[n]
  BY DEF Uint
<1> HIDE DEF v
<1>8. \A m \in 0..n : v[m] \in Nat
  <2> DEFINE Odd == {m \in 0..n : v[m] \notin Nat}
  <2> SUFFICES ASSUME Odd # {} PROVE FALSE
    OBVIOUS
  <2>1. Odd \subseteq Nat
    OBVIOUS
  <2>2. PICK m \in Odd : \A k \in Odd : m <= k
    <3> HIDE DEF Odd
    <3> QED BY <2>1, Smallest
  <2>3. v[m] = Step(v, m)
    BY <1>6, <2>2
  <2>4. m # 0
    BY <2>2, <2>3
  <2>5. v[m - 1] \in Nat /\ s[n - m + 1] \in Nat
    BY <1>1, <2>2, <2>4
  <2> QED BY <1>2, <2>2, <2>3, <2>4, <2>5, ZenonT(30)
<1> QED BY <1>1, <1>7, <1>8

\* The first number that a field has no room for, and half of it.
LEMMA ModulusIsNat == Modulus \in Nat /\ Modulus \div 2 \in Nat
<1>1. [k \in 1..Block |-> Radix - 1] \in Seq(Octet)
  BY WidthAssumption DEF Octet
<1>2. Uint([k \in 1..Block |-> Radix - 1]) \in Nat
  BY <1>1, UintIsNat
<1> QED BY <1>2 DEF Modulus

----------------------------------------------------------------------------
(***************************************************************************)
(* The inductive invariant: at each label, where the input stands, and     *)
(* what of it is at hand.                                                  *)
(***************************************************************************)
WireTypes ==
  /\ source \in Sources /\ pos \in 0..Len(source.bytes)
  /\ call \in {"string", "bytes"}
  /\ pc \in {"length", "string", "bytes", "skip", "padding", "returned"}
  /\ buf \in Seq(Octet) /\ length \in Nat /\ limit \in Int

ContentEnd == Block + length

\* Unless the length is no int64, the limited reader ends with the content.
Limited == ~Oversized => limit = ContentEnd - pos /\ pos <= ContentEnd

\* There is a whole packet to read.
Sound ==
  /\ ContentEnd <= Len(source.bytes) /\ IsPrefix(Packet(Content), source.bytes)
  /\ length < Modulus \div 2 /\ (call = "string" => length <= MaxLength)

\* What ReadBytesFull has to say of a content, before it closes what is deferred.
Verdict ==
  /\ err # "none"
  /\ err = "ok" => value = Content /\ Len(value) = length
  /\ err = "eof" => Oversized \/ (Remaining = 0 /\ pos = Block)
  /\ Sound => err = "ok"

\* What the caller of ReadBytes has read is the beginning of the content.
Begun ==
  /\ err = "none"
  /\ ~Oversized => /\ Len(value) \in 0..length
                   /\ value = SubSeq(source.bytes, Block + 1, Block + Len(value))

Handed == (call = "string" => Verdict) /\ (call = "bytes" => Begun)

WireInv ==
  /\ WireTypes
  /\ pc = "length" =>
       pos <= Block /\ buf = SubSeq(source.bytes, 1, pos) /\ err = "none" /\ value = << >>
  /\ pc = "string" =>
       /\ call = "string" /\ err = "none" /\ Limited
       /\ pos \in Block..ContentEnd /\ buf = SubSeq(source.bytes, Block + 1, pos)
  /\ pc = "bytes" =>
       /\ call = "bytes" /\ Limited /\ Begun
       /\ ~Oversized => pos = Block + Len(value)
  /\ pc = "skip" => Limited /\ Handed
  /\ pc = "padding" =>
       /\ Handed
       /\ ~Oversized =>
            \/ /\ pos = ContentEnd + Len(buf) /\ Len(buf) <= Padding(length)
               /\ buf = SubSeq(source.bytes, ContentEnd + 1, pos)
            \/ Remaining = 0 /\ buf = << >> /\ pos < ContentEnd
  /\ HonestOutcome /\ ReadsPacket

----------------------------------------------------------------------------
\* The input is a sequence of bytes, and the position is in it.
LEMMA InputFacts ==
  ASSUME WireTypes
  PROVE  /\ source.bytes \in Seq(Octet) /\ source.end \in {"eof", "err"}
         /\ Len(source.bytes) \in Nat /\ pos \in Nat /\ pos <= Len(source.bytes)
         /\ Block \in Nat \ {0} /\ MaxLength \in Nat
         /\ Remaining \in Nat /\ Remaining = Len(source.bytes) - pos
BY SourceAssumption, WidthAssumption DEF WireTypes, Octet, Remaining

\* The bytes from one position to another.
LEMMA Stretch ==
  ASSUME NEW s \in Seq(Octet), NEW f \in Nat \ {0}, NEW b \in Nat, f <= b + 1, b <= Len(s)
  PROVE  /\ SubSeq(s, f, b) \in Seq(Octet) /\ Len(SubSeq(s, f, b)) = b - f + 1
         /\ \A k \in 1..(b - f + 1) : SubSeq(s, f, b)[k] = s[f + k - 1]
<1>1. Len(s) \in Nat /\ \A k \in f..b : s[k] \in Octet
  OBVIOUS
<1> QED BY <1>1, SubSeqProperties

\* Adjacent stretches make one.
LEMMA Adjacent ==
  ASSUME NEW s \in Seq(Octet), NEW f \in Nat \ {0}, NEW b \in Nat, NEW c \in Nat,
         f <= b + 1, b <= c, c <= Len(s)
  PROVE  SubSeq(s, f, b) \o SubSeq(s, b + 1, c) = SubSeq(s, f, c)
<1>1. f \in 1..(Len(s) + 1) /\ b \in (f - 1)..Len(s) /\ c \in b..Len(s)
  OBVIOUS
<1> QED BY <1>1, ConcatAdjacentSubSeq

\* The padding is shorter than a block, and there is none behind whole blocks only.
LEMMA PaddingFacts ==
  ASSUME NEW n \in Nat
  PROVE  /\ Padding(n) \in Nat /\ Padding(n) < Block
         /\ Padding(n) = 0 => n % Block = 0
<1>1. n % Block \in 0..(Block - 1)
  BY WidthAssumption
<1>2. \A r \in 0..(Block - 1) : r % Block = r
  BY WidthAssumption
<1>3. Block % Block = 0
  BY WidthAssumption
<1>4. CASE n % Block = 0
  BY <1>3, <1>4, WidthAssumption DEF Padding
<1>5. CASE n % Block # 0
  <2>1. Block - (n % Block) \in 0..(Block - 1) /\ Block - (n % Block) # 0
    BY <1>1, <1>5, WidthAssumption
  <2> QED BY <1>2, <2>1, WidthAssumption DEF Padding
<1> QED BY <1>4, <1>5

\* A whole packet ends in the input, and its padding is null.
LEMMA SoundFacts ==
  ASSUME WireTypes, Sound
  PROVE  /\ ~Oversized /\ PacketEnd <= Len(source.bytes)
         /\ Len(Packet(Content)) = PacketEnd
         /\ SubSeq(source.bytes, ContentEnd + 1, PacketEnd) = Zeros(Padding(length))
<1> DEFINE s == source.bytes
           l == LengthBytes(Len(Content))
           z == Zeros(Padding(length))
           S == Octet \cup {l[k] : k \in 1..Block}
<1>1. /\ s \in Seq(Octet) /\ Len(s) \in Nat /\ Block \in Nat \ {0} /\ length \in Nat
      /\ ContentEnd = Block + length /\ ContentEnd <= Len(s)
  BY InputFacts DEF Sound, ContentEnd, WireTypes
<1>2. Content \in Seq(Octet) /\ Len(Content) = length
  <2>1. /\ Block + 1 \in Nat \ {0} /\ Block + length \in Nat
        /\ Block + length - (Block + 1) + 1 = length /\ Block + 1 <= Block + length + 1
    BY <1>1
  <2> QED BY <1>1, <2>1, Stretch DEF Content
<1>3. Padding(length) \in Nat
  BY <1>1, PaddingFacts
<1>4. l \in Seq(S) /\ Len(l) = Block
  <2>1. l = [k \in 1..Block |-> l[k]]
    BY DEF LengthBytes
  <2> HIDE DEF l
  <2> QED BY <1>1, <2>1
<1>5. z \in Seq(S) /\ Len(z) = Padding(length) /\ \A k \in 1..Padding(length) : z[k] = 0
  <2>1. 0 \in S
    BY WidthAssumption DEF Octet
  <2> HIDE DEF S
  <2> QED BY <1>3, <2>1 DEF Zeros
<1>6. Content \in Seq(S)
  <2>1. Octet \subseteq S
    OBVIOUS
  <2> HIDE DEF S
  <2> QED BY <1>2, <2>1
<1>7. Packet(Content) = (l \o Content) \o z
  BY <1>2 DEF Packet
<1> HIDE DEF l, z, S
<1>8. l \o Content \in Seq(S) /\ Len(l \o Content) = Block + length
  BY <1>2, <1>4, <1>6, ConcatProperties
<1> DEFINE p == l \o Content
<1> HIDE DEF p
<1>a. p \in Seq(S) /\ Len(p) = Block + length /\ Packet(Content) = p \o z
  BY <1>7, <1>8 DEF p
<1>b. /\ p \o z \in Seq(S) /\ Len(p \o z) = Len(p) + Len(z)
      /\ \A k \in 1..(Len(p) + Len(z)) : (p \o z)[k] = IF k <= Len(p) THEN p[k] ELSE z[k - Len(p)]
  BY <1>5, <1>a, ConcatProperties
<1>9. /\ Packet(Content) \in Seq(S)
      /\ Len(Packet(Content)) = Block + length + Padding(length)
      /\ \A k \in 1..(Block + length + Padding(length)) :
           Packet(Content)[k] = IF k <= Block + length THEN (l \o Content)[k]
                                ELSE z[k - (Block + length)]
  BY <1>5, <1>a, <1>b DEF p
<1>10. PacketEnd = Block + length + Padding(length) /\ PacketEnd \in Nat
  BY <1>1, <1>3 DEF PacketEnd
<1>11. /\ PacketEnd <= Len(s)
       /\ SubSeq(Packet(Content), 1, PacketEnd) = SubSeq(s, 1, PacketEnd)
  BY <1>9, <1>10 DEF Sound, IsPrefix
<1>12. \A k \in 1..PacketEnd : Packet(Content)[k] = s[k]
  <2> DEFINE written == Packet(Content)
  <2> HIDE DEF written
  <2>1. SubSeq(written, 1, PacketEnd) = SubSeq(s, 1, PacketEnd)
    BY <1>11 DEF written
  <2>2. \A k \in 1..PacketEnd : SubSeq(written, 1, PacketEnd)[k] = written[k]
    BY <1>9, <1>10, SubSeqProperties DEF written
  <2>3. \A k \in 1..PacketEnd : SubSeq(s, 1, PacketEnd)[k] = s[k]
    BY <1>1, <1>10, <1>11, SubSeqProperties
  <2> QED BY <2>1, <2>2, <2>3 DEF written
<1>13. \A k \in 1..Padding(length) : s[ContentEnd + k] = 0
  <2> TAKE k \in 1..Padding(length)
  <2> DEFINE j == ContentEnd + k
  <2>1. j \in 1..PacketEnd /\ ~(j <= Block + length) /\ j - (Block + length) = k
    BY <1>1, <1>3, <1>10
  <2> HIDE DEF j
  <2>2. Packet(Content)[j] = z[k]
    BY <1>9, <1>10, <2>1
  <2>3. s[j] = 0
    BY <1>5, <1>12, <2>1, <2>2
  <2> QED BY <2>3 DEF j
<1>14. SubSeq(s, ContentEnd + 1, PacketEnd) = z
  <2> DEFINE t == SubSeq(s, ContentEnd + 1, PacketEnd)
  <2>1. t \in Seq(Octet) /\ Len(t) = Padding(length)
        /\ \A k \in 1..Padding(length) : t[k] = s[ContentEnd + k]
    <3>1. /\ ContentEnd + 1 \in Nat \ {0} /\ ContentEnd + 1 <= PacketEnd + 1
          /\ PacketEnd - (ContentEnd + 1) + 1 = Padding(length)
          /\ \A k \in 1..Padding(length) : ContentEnd + 1 + k - 1 = ContentEnd + k
      BY <1>1, <1>3, <1>10
    <3> QED BY <1>1, <1>10, <1>11, <3>1, Stretch, SMTT(30)
  <2>2. t \in Seq(S)
    <3>1. Octet \subseteq S
      BY DEF S
    <3> HIDE DEF t
    <3> QED BY <2>1, <3>1
  <2> HIDE DEF t
  <2>3. \A k \in 1..Len(t) : t[k] = z[k]
    BY <1>5, <1>13, <2>1
  <2>4. t = z
    BY <1>5, <2>1, <2>2, <2>3, SeqEqual
  <2> QED BY <2>4 DEF t
<1>15. ~Oversized
  BY <1>1, ModulusIsNat DEF Sound, Oversized
<1> QED BY <1>9, <1>10, <1>11, <1>14, <1>15 DEF z

----------------------------------------------------------------------------
\* What a read of the source at hand adds to what was read before it.
LEMMA ReadsMore ==
  ASSUME WireTypes, NEW f \in Nat \ {0}, NEW k \in Nat, NEW most \in Int,
         f <= pos + 1, buf = SubSeq(source.bytes, f, pos), Reads(k, most)
  PROVE  \E m \in 1..k :
           /\ pos' = pos + m /\ pos' \in 0..Len(source.bytes) /\ f <= pos' + 1
           /\ pos' - f + 1 <= k /\ m <= most
           /\ buf' = SubSeq(source.bytes, f, pos') /\ buf' \in Seq(Octet)
<1>1. PICK m \in 1..k : /\ m <= k - Len(buf) /\ m <= most /\ m <= Remaining
                        /\ buf' = buf \o Slice(m) /\ pos' = pos + m
  BY DEF Reads
<1> DEFINE end == pos + m
<1>2. /\ source.bytes \in Seq(Octet) /\ Len(source.bytes) \in Nat /\ pos \in Nat
      /\ pos <= Len(source.bytes) /\ Remaining = Len(source.bytes) - pos
  BY InputFacts
<1>3. Len(buf) = pos - f + 1
  BY <1>2, Stretch
<1>4. /\ end \in Nat /\ pos <= end /\ end <= Len(source.bytes) /\ f <= end + 1
      /\ end - f + 1 <= k
  BY <1>1, <1>2, <1>3
<1>5. pos' = end /\ buf' = buf \o SubSeq(source.bytes, pos + 1, end)
  BY <1>1 DEF Slice
<1> HIDE DEF end
<1>6. /\ buf' = SubSeq(source.bytes, f, end)
      /\ SubSeq(source.bytes, f, end) \in Seq(Octet)
  BY <1>2, <1>4, <1>5, Adjacent, Stretch, ZenonT(30)
<1>7. /\ pos' = pos + m /\ pos' \in 0..Len(source.bytes) /\ f <= pos' + 1
      /\ pos' - f + 1 <= k /\ m <= most
  BY <1>1, <1>2, <1>4, <1>5
<1>8. buf' = SubSeq(source.bytes, f, pos') /\ buf' \in Seq(Octet)
  BY <1>5, <1>6
<1> QED BY <1>7, <1>8

\* Where the source has ended although something is left to read, nothing is left of it.
LEMMA EndsFacts ==
  ASSUME WireTypes, NEW most \in Int, Ends(most)
  PROVE  most > 0 => Remaining = 0 /\ pos = Len(source.bytes)
BY InputFacts DEF Ends

\* While a call has not returned, nothing is said of its outcome.
LEMMA Unreturned ==
  ASSUME pc' # "returned" PROVE HonestOutcome' /\ ReadsPacket'
BY DEF HonestOutcome, ReadsPacket

\* What is said of a content does not change with what is read of it.
LEMMA SameContent ==
  ASSUME UNCHANGED <<source, call, length>>
  PROVE  /\ Content' = Content /\ Oversized' = Oversized /\ ContentEnd' = ContentEnd
         /\ PacketEnd' = PacketEnd /\ Sound' = Sound /\ Padding(length)' = Padding(length)
BY DEF Content, Oversized, ContentEnd, PacketEnd, Sound, Packet, LengthBytes, Zeros

\* Nothing has been read.
LEMMA InitWire == WireInit => WireInv
<1> SUFFICES ASSUME WireInit PROVE WireInv
  OBVIOUS
<1>1. source.bytes \in Seq(Octet) /\ Block \in Nat
  BY SourceAssumption, WidthAssumption DEF WireInit, Octet
<1>2. SubSeq(source.bytes, 1, 0) = << >>
  BY SubSeqEmpty
<1> QED BY <1>1, <1>2 DEF WireInit, WireInv, WireTypes, HonestOutcome, ReadsPacket

\* The bytes of the length field come in.
LEMMA ReadLengthInv == WireInv /\ ReadLength => WireInv'
<1> SUFFICES ASSUME WireInv, ReadLength PROVE WireInv'
  OBVIOUS
<1>0. /\ WireTypes /\ pc = "length" /\ Len(buf) < Block /\ pos <= Block
      /\ buf = SubSeq(source.bytes, 1, pos) /\ err = "none" /\ value = << >>
      /\ UNCHANGED <<source, call, length, limit, value>>
  BY DEF WireInv, ReadLength
<1>1. CASE Reads(Block, Block) /\ UNCHANGED <<pc, err>>
  <2>1. PICK m \in 1..Block :
          /\ pos' = pos + m /\ pos' \in 0..Len(source.bytes) /\ 1 <= pos' + 1
          /\ pos' - 1 + 1 <= Block /\ m <= Block
          /\ buf' = SubSeq(source.bytes, 1, pos') /\ buf' \in Seq(Octet)
    <3>1. 1 \in Nat \ {0} /\ 1 <= pos + 1 /\ Block \in Nat /\ Block \in Int
      BY <1>0, InputFacts
    <3> QED BY <1>0, <1>1, <3>1, ReadsMore
  <2>2. pos' <= Block
    BY <1>0, <2>1, InputFacts
  <2>3. WireTypes'
    BY <1>0, <1>1, <2>1 DEF WireTypes
  <2> QED BY <1>0, <1>1, <2>1, <2>2, <2>3, Unreturned DEF WireInv
<1>2. CASE Ends(Block) /\ ReturnWith(FullError(Block)) /\ UNCHANGED <<buf, pos>>
  <2>1. pos = Len(source.bytes) /\ Remaining = 0 /\ Len(buf) = pos /\ pos < Block
    BY <1>0, <1>2, InputFacts, EndsFacts, Stretch
  <2>2. pc' = "returned" /\ err' = FullError(Block)
    BY <1>2 DEF ReturnWith
  <2>3. WireTypes'
    BY <1>0, <1>2, <2>2 DEF WireTypes
  <2>4. err' # "ok" /\ (err' = "eof" => buf = << >>)
    BY <2>2 DEF FullError
  <2>5. buf = << >> => pos = 0
    BY <2>1
  <2>6. HonestOutcome'
    BY <1>0, <1>2, <2>1, <2>4, <2>5 DEF HonestOutcome, Remaining
  <2>7. ~(ContentEnd <= Len(source.bytes))
    BY <1>0, <2>1, InputFacts DEF ContentEnd, WireTypes
  <2>8. ReadsPacket'
    BY <1>0, <2>7 DEF ReadsPacket, ContentEnd
  <2> QED BY <2>2, <2>3, <2>6, <2>8 DEF WireInv
<1> QED BY <1>1, <1>2 DEF ReadLength

\* The length is taken from its field.
LEMMA TakeLengthInv == WireInv /\ TakeLength => WireInv'
<1> SUFFICES ASSUME WireInv, TakeLength PROVE WireInv'
  OBVIOUS
<1> DEFINE n == Uint(buf)
<1>0. /\ WireTypes /\ pc = "length" /\ Len(buf) = Block
      /\ buf = SubSeq(source.bytes, 1, pos) /\ err = "none" /\ value = << >>
      /\ length' = n /\ limit' = Int64(n) /\ buf' = << >>
      /\ UNCHANGED <<source, pos, call, value>>
      /\ call \in {"string", "bytes"}
  BY DEF WireInv, WireTypes, TakeLength
<1>1. pos = Block
  BY <1>0, InputFacts, Stretch
<1>2. n \in Nat
  BY <1>0, UintIsNat DEF WireTypes
<1> HIDE DEF n
<1>3. Int64(n) \in Int /\ (n < Modulus \div 2 => Int64(n) = n)
  BY <1>2, ModulusIsNat DEF Int64
<1>4. CASE call = "string" /\ TooLong(n)
  <2>1. pc' = "returned" /\ err' = "err"
    BY <1>4 DEF TakeLength, ReturnWith, n
  <2>2. WireTypes'
    BY <1>0, <1>2, <1>3, <2>1 DEF WireTypes
  <2>3. n > MaxLength
    BY <1>4 DEF TooLong
  <2>4. HonestOutcome' /\ ReadsPacket'
    BY <1>0, <1>2, <1>4, <2>1, <2>3, WidthAssumption DEF HonestOutcome, ReadsPacket
  <2> QED BY <2>1, <2>2, <2>4 DEF WireInv
<1>5. CASE ~(call = "string" /\ TooLong(n))
  <2>1. pc' = call /\ err' = "none"
    BY <1>0, <1>5 DEF TakeLength, n
  <2>2. WireTypes'
    BY <1>0, <1>2, <1>3, <2>1 DEF WireTypes
  <2>3. Limited'
    BY <1>0, <1>1, <1>2, <1>3, ModulusIsNat, WidthAssumption DEF Limited, Oversized, ContentEnd
  <2>4. SubSeq(source.bytes, Block + 1, Block) = << >>
    BY WidthAssumption, SubSeqEmpty
  <2>5. ContentEnd' = Block + n /\ pos' = Block /\ pos' \in Block..(Block + n)
    BY <1>0, <1>1, <1>2, WidthAssumption DEF ContentEnd
  <2>6. Begun' /\ pos' = Block + Len(value')
    BY <1>0, <1>1, <1>2, <2>1, <2>4, WidthAssumption DEF Begun
  <2> QED BY <1>0, <1>1, <2>1, <2>2, <2>3, <2>4, <2>5, <2>6, Unreturned DEF WireInv
<1> QED BY <1>4, <1>5

\* Bytes of the content come in, or none that are left.
LEMMA ReadContentInv == WireInv /\ ReadContent => WireInv'
<1> SUFFICES ASSUME WireInv, ReadContent PROVE WireInv'
  OBVIOUS
<1>0. /\ WireTypes /\ pc = "string" /\ Len(buf) < length
      /\ call = "string" /\ err = "none" /\ Limited
      /\ pos \in Block..ContentEnd /\ buf = SubSeq(source.bytes, Block + 1, pos)
      /\ UNCHANGED <<source, call, length, value>>
  BY DEF WireInv, ReadContent
<1>1. /\ Block \in Nat \ {0} /\ Block + 1 \in Nat \ {0} /\ length \in Nat /\ limit \in Int
      /\ pos \in Nat /\ Block <= pos /\ Block + 1 <= pos + 1 /\ ContentEnd = Block + length
      /\ source.bytes \in Seq(Octet) /\ Len(source.bytes) \in Nat /\ pos <= Len(source.bytes)
  BY <1>0, InputFacts, SMTT(30) DEF WireTypes, ContentEnd
<1>2. CASE Reads(length, limit) /\ limit' = limit - (pos' - pos) /\ UNCHANGED <<pc, err>>
  <2>1. PICK m \in 1..length :
          /\ pos' = pos + m /\ pos' \in 0..Len(source.bytes) /\ Block + 1 <= pos' + 1
          /\ pos' - (Block + 1) + 1 <= length /\ m <= limit
          /\ buf' = SubSeq(source.bytes, Block + 1, pos') /\ buf' \in Seq(Octet)
    BY <1>0, <1>1, <1>2, ReadsMore
  <2>2. ContentEnd' = ContentEnd /\ Oversized' = Oversized
    BY <1>0, SameContent
  <2>3. pos' \in Block..ContentEnd /\ limit' \in Int /\ Limited'
    BY <1>0, <1>1, <1>2, <2>1, <2>2 DEF Limited
  <2>4. WireTypes'
    BY <1>0, <1>2, <2>1, <2>3 DEF WireTypes
  <2> QED BY <1>0, <1>2, <2>1, <2>2, <2>3, <2>4, Unreturned DEF WireInv
<1>3. CASE /\ Ends(limit) /\ pc' = "skip" /\ err' = FullError(limit)
           /\ UNCHANGED <<buf, pos, limit>>
  <2>1. Len(buf) = pos - Block
    BY <1>0, <1>1, Stretch
  <2>2. ~Oversized => Remaining = 0 /\ pos = Len(source.bytes) /\ pos < ContentEnd
    BY <1>0, <1>1, <1>3, <2>1, EndsFacts DEF Limited
  <2>3. err' \notin {"none", "ok"} /\ (err' = "eof" => buf = << >>)
    BY <1>3 DEF FullError
  <2>4. buf = << >> => pos = Block
    BY <1>1, <2>1
  <2>5. ~Sound
    BY <1>0, <1>1, <2>2, SoundFacts DEF Sound
  <2>6. Remaining' = Remaining
    BY <1>0, <1>3 DEF Remaining
  <2>7. Verdict'
    BY <1>0, <1>3, <2>2, <2>3, <2>4, <2>5, <2>6, SameContent DEF Verdict
  <2>8. Limited' /\ WireTypes'
    BY <1>0, <1>3, SameContent DEF Limited, WireTypes
  <2> QED BY <1>0, <1>3, <2>7, <2>8, Unreturned DEF WireInv, Handed
<1> QED BY <1>2, <1>3 DEF ReadContent

\* The content is complete.
LEMMA TakeContentInv == WireInv /\ TakeContent => WireInv'
<1> SUFFICES ASSUME WireInv, TakeContent PROVE WireInv'
  OBVIOUS
<1>0. /\ WireTypes /\ pc = "string" /\ Len(buf) = length
      /\ call = "string" /\ Limited
      /\ pos \in Block..ContentEnd /\ buf = SubSeq(source.bytes, Block + 1, pos)
      /\ value' = buf /\ pc' = "skip" /\ err' = "ok"
      /\ UNCHANGED <<source, pos, call, buf, length, limit>>
  BY DEF WireInv, TakeContent
<1>1. /\ Block \in Nat \ {0} /\ Block + 1 \in Nat \ {0} /\ length \in Nat
      /\ pos \in Nat /\ Block + 1 <= pos + 1
      /\ source.bytes \in Seq(Octet) /\ pos <= Len(source.bytes)
  BY <1>0, InputFacts, SMTT(30) DEF WireTypes, ContentEnd
<1>2. Len(buf) = pos - Block
  BY <1>0, <1>1, Stretch
<1>3. pos = Block + length
  BY <1>0, <1>1, <1>2
<1>4. value' = Content'
  BY <1>0, <1>3 DEF Content
<1>5. Verdict'
  BY <1>0, <1>4 DEF Verdict
<1>6. Limited' /\ WireTypes'
  BY <1>0, SameContent DEF Limited, WireTypes
<1> QED BY <1>0, <1>5, <1>6, Unreturned DEF WireInv, Handed

\* The caller reads some of the content.
LEMMA ReadInv == WireInv /\ Read => WireInv'
<1> SUFFICES ASSUME WireInv, Read PROVE WireInv'
  OBVIOUS
<1>0. /\ WireTypes /\ pc = "bytes" /\ call = "bytes" /\ Limited /\ Begun
      /\ ~Oversized => pos = Block + Len(value)
      /\ UNCHANGED <<source, call, pc, buf, length, err>>
  BY DEF WireInv, Read
<1>1. PICK m \in 1..Block : /\ m <= limit /\ m <= Remaining
                            /\ value' = value \o Slice(m) /\ pos' = pos + m /\ limit' = limit - m
  BY DEF Read
<1>2. /\ Block \in Nat \ {0} /\ Block + 1 \in Nat \ {0} /\ length \in Nat /\ limit \in Int
      /\ pos \in Nat /\ ContentEnd = Block + length
      /\ source.bytes \in Seq(Octet) /\ Len(source.bytes) \in Nat /\ pos <= Len(source.bytes)
      /\ Remaining = Len(source.bytes) - pos
  BY <1>0, InputFacts DEF WireTypes, ContentEnd
<1> DEFINE end == pos + m
<1>3. end \in Nat /\ pos <= end /\ end <= Len(source.bytes) /\ pos' = end /\ limit - m \in Int
  BY <1>1, <1>2
<1>4. WireTypes'
  BY <1>0, <1>1, <1>2, <1>3 DEF WireTypes
<1>5. Limited'
  BY <1>0, <1>1, <1>2, SameContent DEF Limited
<1>6. value' = value \o SubSeq(source.bytes, pos + 1, end)
  BY <1>1 DEF Slice
<1>7. ~Oversized => /\ value' = SubSeq(source.bytes, Block + 1, end)
                    /\ Len(value') = end - Block /\ end - Block \in 0..length
  <2> SUFFICES ASSUME ~Oversized PROVE /\ value' = SubSeq(source.bytes, Block + 1, end)
                                       /\ Len(value') = end - Block /\ end - Block \in 0..length
    OBVIOUS
  <2>1. /\ value = SubSeq(source.bytes, Block + 1, pos) /\ Len(value) \in 0..length
        /\ pos = Block + Len(value) /\ limit = ContentEnd - pos
    BY <1>0 DEF Begun, Limited
  <2>2. Block + 1 <= pos + 1 /\ Block + 1 <= end + 1 /\ end - Block \in 0..length
        /\ end - (Block + 1) + 1 = end - Block
    BY <1>1, <1>2, <2>1
  <2> HIDE DEF end
  <2>3. value' = SubSeq(source.bytes, Block + 1, end)
    BY <1>2, <1>3, <1>6, <2>1, <2>2, Adjacent, ZenonT(30)
  <2> QED BY <1>2, <1>3, <2>2, <2>3, Stretch
<1> HIDE DEF end
<1>8. Begun' /\ (~Oversized' => pos' = Block + Len(value'))
  <2>1. Oversized' = Oversized
    BY <1>0, SameContent
  <2>2. ~Oversized => pos' = Block + Len(value') /\ Block + Len(value') = end
    BY <1>2, <1>3, <1>7
  <2>3. err' = "none"
    BY <1>0 DEF Begun
  <2> QED BY <1>0, <1>7, <2>1, <2>2, <2>3 DEF Begun
<1> QED BY <1>0, <1>4, <1>5, <1>8, Unreturned DEF WireInv

\* What is left is going to be skipped.
LEMMA CloseInv == WireInv /\ Close => WireInv'
<1> SUFFICES ASSUME WireInv, Close PROVE WireInv'
  OBVIOUS
<1>0. /\ WireTypes /\ call = "bytes" /\ Limited /\ Begun /\ pc' = "skip"
      /\ UNCHANGED <<source, pos, call, buf, length, limit, value, err>>
  BY DEF WireInv, Close
<1>1. Begun' /\ Limited' /\ WireTypes'
  BY <1>0, SameContent DEF Begun, Limited, WireTypes
<1> QED BY <1>0, <1>1, Unreturned DEF WireInv, Handed

\* What ReadString returns is what it has read.
LEMMA StringAnswers ==
  ASSUME WireTypes, call = "string", Verdict, pc' = "returned", err' = err,
         UNCHANGED <<source, pos, call, length, value>>, Sound => pos = PacketEnd
  PROVE  HonestOutcome' /\ ReadsPacket'
<1>1. /\ Content' = Content /\ Oversized' = Oversized /\ Sound' = Sound
      /\ PacketEnd' = PacketEnd /\ Remaining' = Remaining
  BY SameContent DEF Remaining
<1>2. HonestOutcome'
  BY <1>1 DEF HonestOutcome, Verdict
<1>3. Sound => /\ err = "ok" /\ pos = Len(Packet(Content)) /\ value = Content
               /\ IsPrefix(value, Content)
  <2> SUFFICES ASSUME Sound PROVE /\ err = "ok" /\ pos = Len(Packet(Content))
                                  /\ value = Content /\ IsPrefix(value, Content)
    OBVIOUS
  <2>1. err = "ok" /\ value = Content /\ Len(Content) = length
    BY DEF Verdict
  <2>2. IsPrefix(Content, Content)
    BY <2>1 DEF IsPrefix, WireTypes
  <2> QED BY <2>1, <2>2, SoundFacts
<1>4. ReadsPacket'
  <2>1. (Packet(Content))' = Packet(Content)
    BY <1>1 DEF Packet, LengthBytes, Zeros
  <2> QED BY <1>1, <1>3, <2>1 DEF ReadsPacket, Sound, ContentEnd
<1> QED BY <1>2, <1>4

\* What Close of ReadBytes returns is what is behind the content.
LEMMA BytesAnswer ==
  ASSUME WireTypes, call = "bytes", Begun, pc' = "returned",
         UNCHANGED <<source, pos, call, length, value>>,
         err' = "ok" => \/ pos = PacketEnd /\ buf' = Zeros(Padding(length))
                        \/ Oversized \/ (Remaining = 0 /\ length % Block = 0),
         err' = "eof" => Oversized \/ (Remaining = 0 /\ pos < PacketEnd),
         Sound => err' = "ok" /\ pos = PacketEnd
  PROVE  HonestOutcome' /\ ReadsPacket'
<1>1. /\ Content' = Content /\ Oversized' = Oversized /\ Sound' = Sound
      /\ PacketEnd' = PacketEnd /\ Remaining' = Remaining
      /\ Zeros(Padding(length))' = Zeros(Padding(length))
  BY SameContent DEF Remaining, Zeros
<1>2. HonestOutcome'
  BY <1>1 DEF HonestOutcome
<1>3. Sound => pos = Len(Packet(Content)) /\ IsPrefix(value, Content)
  <2> SUFFICES ASSUME Sound PROVE pos = Len(Packet(Content)) /\ IsPrefix(value, Content)
    OBVIOUS
  <2>1. ~Oversized /\ pos = Len(Packet(Content))
    BY SoundFacts
  <2> DEFINE s == source.bytes
             n == Len(value)
  <2>2. /\ s \in Seq(Octet) /\ Len(s) \in Nat /\ Block \in Nat \ {0} /\ length \in Nat
        /\ Block + length <= Len(s)
    BY InputFacts DEF Sound, ContentEnd, WireTypes
  <2>3. n \in 0..length /\ value = SubSeq(s, Block + 1, Block + n)
    BY <2>1 DEF Begun
  <2>4. /\ Block + 1 \in Nat \ {0} /\ Block + length \in Nat /\ Block + 1 <= Block + length + 1
        /\ Block + length - (Block + 1) + 1 = length
    BY <2>2
  <2>5. Content \in Seq(Octet) /\ Len(Content) = length
    BY <2>2, <2>4, Stretch DEF Content
  <2>6. CASE n = 0
    <3>1. SubSeq(value, 1, n) = << >> /\ SubSeq(Content, 1, n) = << >>
      BY <2>6, SubSeqEmpty
    <3>2. Len(value) <= Len(Content)
      BY <2>2, <2>3, <2>5
    <3>3. SubSeq(value, 1, Len(value)) = SubSeq(Content, 1, Len(value))
      BY <3>1
    <3> QED BY <2>1, <3>2, <3>3 DEF IsPrefix
  <2>7. CASE n # 0
    <3>1. /\ n \in Nat /\ n <= length /\ 1 \in 1..length /\ n \in 1..length
          /\ Block + 1 \in 1..Len(s) /\ Block + length \in 1..Len(s)
          /\ Block + 1 + 1 - 1 = Block + 1 /\ Block + 1 + n - 1 = Block + n
      BY <2>2, <2>3, <2>7
    <3>2. SubSeq(Content, 1, n) = SubSeq(s, Block + 1, Block + n)
      BY <2>2, <2>4, <3>1, SubSeqOfSubSeq DEF Content
    <3>3. value \in Seq(Octet)
      <4>1. Block + n \in Nat /\ Block + 1 <= Block + n + 1 /\ Block + n <= Len(s)
        BY <2>2, <3>1
      <4> HIDE DEF n, s
      <4> QED BY <2>2, <2>3, <2>4, <4>1, Stretch
    <3>4. SubSeq(value, 1, Len(value)) = value
      BY <3>3, SubSeqFull
    <3>5. SubSeq(value, 1, Len(value)) = SubSeq(Content, 1, Len(value))
      BY <2>3, <3>2, <3>4
    <3>6. Len(value) <= Len(Content)
      BY <2>2, <2>3, <2>5
    <3> QED BY <2>1, <3>5, <3>6 DEF IsPrefix
  <2> QED BY <2>1, <2>6, <2>7
<1>4. ReadsPacket'
  <2>1. (Packet(Content))' = Packet(Content)
    BY <1>1 DEF Packet, LengthBytes, Zeros
  <2> QED BY <1>1, <1>3, <2>1 DEF ReadsPacket, Sound, ContentEnd
<1> QED BY <1>2, <1>4

\* What was said of the content stays true while the rest is skipped.
LEMMA HandedStays ==
  ASSUME WireTypes, Handed, err' = err,
         UNCHANGED <<source, call, length, value>>, Remaining # 0 \/ pos' = pos
  PROVE  Handed'
<1>1. /\ Content' = Content /\ Oversized' = Oversized /\ Sound' = Sound
      /\ pos' = pos => Remaining' = Remaining
  BY SameContent DEF Remaining
<1> QED BY <1>1 DEF Handed, Verdict, Begun

\* It is skipped, as far as there is any.
LEMMA SkipInv == WireInv /\ Skip => WireInv'
<1> SUFFICES ASSUME WireInv, Skip PROVE WireInv'
  OBVIOUS
<1>0. /\ WireTypes /\ pc = "skip" /\ Limited /\ Handed
      /\ UNCHANGED <<source, call, length, value>>
  BY DEF WireInv, Skip
<1>1. /\ Block \in Nat \ {0} /\ length \in Nat /\ limit \in Int /\ pos \in Nat
      /\ ContentEnd = Block + length /\ Len(source.bytes) \in Nat /\ pos <= Len(source.bytes)
      /\ Remaining = Len(source.bytes) - pos /\ call \in {"string", "bytes"}
  BY <1>0, InputFacts DEF WireTypes, ContentEnd
<1>2. CASE /\ \E m \in 1..Remaining : m <= limit /\ pos' = pos + m /\ limit' = limit - m
           /\ UNCHANGED <<pc, buf, err>>
  <2>1. PICK m \in 1..Remaining : m <= limit /\ pos' = pos + m /\ limit' = limit - m
    BY <1>2
  <2>2. pos' \in 0..Len(source.bytes) /\ limit' \in Int /\ Remaining # 0
    BY <1>1, <2>1
  <2>3. WireTypes'
    BY <1>0, <1>2, <2>2 DEF WireTypes
  <2>4. Limited'
    BY <1>0, <1>1, <2>1, SameContent DEF Limited
  <2>5. Handed'
    BY <1>0, <1>2, <2>2, HandedStays
  <2> QED BY <1>0, <1>2, <2>3, <2>4, <2>5, Unreturned DEF WireInv
<1>3. ASSUME limit > 0, Ends(limit) PROVE ~Sound
  <2>1. pos = Len(source.bytes)
    BY <1>0, <1>1, <1>3, EndsFacts
  <2> QED BY <1>0, <1>1, <1>3, <2>1, SoundFacts DEF Limited, Sound
<1>4. CASE /\ Ends(limit) /\ UNCHANGED <<pos, limit, buf>> /\ limit > 0
           /\ ReturnWith(Outcome("err"))
  <2>1. pc' = "returned" /\ err' = IF err = "none" THEN "err" ELSE err
    BY <1>4 DEF ReturnWith, Outcome
  <2>2. WireTypes'
    BY <1>0, <1>4, <2>1 DEF WireTypes
  <2>3. CASE call = "string"
    <3>1. Verdict /\ err' = err
      BY <1>0, <2>1, <2>3 DEF Handed, Verdict
    <3>2. HonestOutcome' /\ ReadsPacket'
      BY <1>0, <1>3, <1>4, <2>1, <2>3, <3>1, StringAnswers
    <3> QED BY <2>1, <2>2, <3>2 DEF WireInv
  <2>4. CASE call = "bytes"
    <3>1. Begun /\ err' = "err"
      BY <1>0, <2>1, <2>4 DEF Handed, Begun
    <3>2. HonestOutcome' /\ ReadsPacket'
      BY <1>0, <1>3, <1>4, <2>1, <2>4, <3>1, BytesAnswer
    <3> QED BY <2>1, <2>2, <3>2 DEF WireInv
  <2> QED BY <1>1, <2>3, <2>4
<1>5. CASE /\ Ends(limit) /\ UNCHANGED <<pos, limit, err>>
           /\ pc' = "padding" /\ buf' = << >>
  <2>1. WireTypes'
    BY <1>0, <1>5 DEF WireTypes
  <2>2. Handed'
    BY <1>0, <1>5, HandedStays
  <2>3. /\ ContentEnd' = ContentEnd /\ Oversized' = Oversized /\ Remaining' = Remaining
        /\ Padding(length)' = Padding(length)
    BY <1>0, <1>5, SameContent DEF Remaining
  <2>4. ~Oversized => \/ pos = ContentEnd /\ SubSeq(source.bytes, ContentEnd + 1, pos) = << >>
                      \/ Remaining = 0 /\ pos < ContentEnd
    <3> SUFFICES ASSUME ~Oversized
                 PROVE  \/ pos = ContentEnd /\ SubSeq(source.bytes, ContentEnd + 1, pos) = << >>
                        \/ Remaining = 0 /\ pos < ContentEnd
      OBVIOUS
    <3>1. limit = ContentEnd - pos /\ pos <= ContentEnd
      BY <1>0 DEF Limited
    <3>2. CASE pos = ContentEnd
      BY <1>1, <3>2, SubSeqEmpty
    <3>3. CASE pos # ContentEnd
      <4>1. limit > 0 /\ pos < ContentEnd
        BY <1>1, <3>1, <3>3
      <4> QED BY <1>0, <1>1, <1>5, <4>1, EndsFacts
    <3> QED BY <3>2, <3>3
  <2>5. Len(buf') = 0 /\ 0 <= Padding(length) /\ ContentEnd + 0 = ContentEnd
    BY <1>1, <1>5, PaddingFacts
  <2> QED BY <1>0, <1>5, <2>1, <2>2, <2>3, <2>4, <2>5, Unreturned DEF WireInv
<1> QED BY <1>2, <1>4, <1>5 DEF Skip

\* Bytes of the padding come in.
LEMMA ReadPaddingInv == WireInv /\ ReadPadding => WireInv'
<1> SUFFICES ASSUME WireInv, ReadPadding PROVE WireInv'
  OBVIOUS
<1> DEFINE n == Padding(length)
<1>0. /\ WireTypes /\ pc = "padding" /\ Handed /\ Len(buf) < n
      /\ ~Oversized =>
           \/ /\ pos = ContentEnd + Len(buf) /\ Len(buf) <= n
              /\ buf = SubSeq(source.bytes, ContentEnd + 1, pos)
           \/ Remaining = 0 /\ buf = << >> /\ pos < ContentEnd
      /\ UNCHANGED <<source, call, length, limit, value>>
  BY DEF WireInv, ReadPadding
<1>1. /\ Block \in Nat \ {0} /\ length \in Nat /\ pos \in Nat
      /\ ContentEnd = Block + length /\ ContentEnd \in Nat /\ ContentEnd + 1 \in Nat \ {0}
      /\ source.bytes \in Seq(Octet) /\ Len(source.bytes) \in Nat /\ pos <= Len(source.bytes)
      /\ Remaining = Len(source.bytes) - pos /\ call \in {"string", "bytes"}
      /\ buf \in Seq(Octet) /\ Len(buf) \in Nat
  <2>1. buf \in Seq(Octet) /\ length \in Nat /\ call \in {"string", "bytes"}
    BY <1>0 DEF WireTypes
  <2>2. Len(buf) \in Nat
    BY <2>1
  <2>3. WireTypes
    BY <1>0
  <2>4. /\ Block \in Nat \ {0} /\ pos \in Nat /\ source.bytes \in Seq(Octet)
        /\ Len(source.bytes) \in Nat /\ pos <= Len(source.bytes)
        /\ Remaining = Len(source.bytes) - pos
    BY <2>3, InputFacts
  <2>5. /\ ContentEnd = Block + length /\ ContentEnd \in Nat /\ ContentEnd + 1 \in Nat \ {0}
    BY <2>1, <2>4 DEF ContentEnd
  <2> QED BY <2>1, <2>2, <2>4, <2>5
<1>2. n \in Nat /\ PacketEnd = ContentEnd + n
  BY <1>1, PaddingFacts DEF PacketEnd, ContentEnd
<1> HIDE DEF n
<1>3. CASE Reads(n, Block) /\ UNCHANGED <<pc, err>>
  <2>1. PICK m \in 1..n : /\ m <= n - Len(buf) /\ m <= Block /\ m <= Remaining
                          /\ buf' = buf \o Slice(m) /\ pos' = pos + m
    BY <1>3 DEF Reads
  <2>2. pos + m \in 0..Len(source.bytes) /\ Remaining # 0
    BY <1>1, <2>1
  <2>3. Slice(m) \in Seq(Octet)
    <3>1. pos + 1 \in Nat \ {0} /\ pos + m \in Nat /\ pos + 1 <= pos + m + 1
          /\ pos + m <= Len(source.bytes)
      BY <1>1, <2>1
    <3> QED BY <1>1, <3>1, Stretch DEF Slice
  <2>4. buf' \in Seq(Octet)
    BY <1>1, <2>1, <2>3, ConcatProperties
  <2>5. WireTypes'
    BY <1>0, <1>3, <2>1, <2>2, <2>4 DEF WireTypes
  <2>6. Handed'
    BY <1>0, <1>3, <2>2, HandedStays
  <2>7. ~Oversized => /\ pos' = ContentEnd + Len(buf') /\ Len(buf') <= n
                      /\ buf' = SubSeq(source.bytes, ContentEnd + 1, pos')
    <3> SUFFICES ASSUME ~Oversized
                 PROVE  /\ pos' = ContentEnd + Len(buf') /\ Len(buf') <= n
                        /\ buf' = SubSeq(source.bytes, ContentEnd + 1, pos')
      OBVIOUS
    <3>1. pos = ContentEnd + Len(buf)
      BY <1>0, <2>2
    <3>2. buf = SubSeq(source.bytes, ContentEnd + 1, pos)
      BY <1>0, <2>2
    <3>3. ContentEnd + 1 <= pos + 1
      BY <1>1, <3>1
    <3>4. WireTypes /\ Reads(n, Block) /\ Block \in Int /\ ContentEnd + 1 \in Nat \ {0}
      BY <1>0, <1>1, <1>3
    <3>5. PICK j \in 1..n :
            /\ pos' = pos + j /\ pos' \in 0..Len(source.bytes) /\ ContentEnd + 1 <= pos' + 1
            /\ pos' - (ContentEnd + 1) + 1 <= n /\ j <= Block
            /\ buf' = SubSeq(source.bytes, ContentEnd + 1, pos') /\ buf' \in Seq(Octet)
      BY <1>2, <3>2, <3>3, <3>4, ReadsMore
    <3>6. Len(buf') = pos' - (ContentEnd + 1) + 1
      BY <1>1, <3>5, Stretch
    <3> QED BY <1>1, <1>2, <3>5, <3>6
  <2>8. ContentEnd' = ContentEnd /\ Oversized' = Oversized /\ Padding(length)' = n
    BY <1>0, SameContent DEF n
  <2> QED BY <1>0, <1>3, <2>5, <2>6, <2>7, <2>8, Unreturned DEF WireInv
<1>4. CASE /\ Ends(Block) /\ ReturnWith(Outcome(FullError(Block)))
           /\ UNCHANGED <<buf, pos>>
  <2>1. Remaining = 0 /\ pos = Len(source.bytes)
    BY <1>0, <1>1, <1>4, EndsFacts
  <2>2. pc' = "returned" /\ err' = IF err = "none" THEN FullError(Block) ELSE err
    BY <1>4 DEF ReturnWith, Outcome
  <2>3. FullError(Block) # "ok"
    BY DEF FullError
  <2>4. ~Oversized => pos < PacketEnd
    BY <1>0, <1>1, <1>2
  <2>5. ~Sound
    BY <1>0, <1>1, <1>2, <2>1, <2>4, SoundFacts
  <2>6. WireTypes'
    BY <1>0, <1>4, <2>2 DEF WireTypes
  <2>7. CASE call = "string"
    <3>1. Verdict /\ err' = err
      BY <1>0, <2>2, <2>7 DEF Handed, Verdict
    <3>2. HonestOutcome' /\ ReadsPacket'
      BY <1>0, <1>4, <2>2, <2>5, <2>7, <3>1, StringAnswers
    <3> QED BY <2>2, <2>6, <3>2 DEF WireInv
  <2>8. CASE call = "bytes"
    <3>1. Begun /\ err' = FullError(Block)
      BY <1>0, <2>2, <2>8 DEF Handed, Begun
    <3>2. HonestOutcome' /\ ReadsPacket'
      BY <1>0, <1>4, <2>1, <2>2, <2>3, <2>4, <2>5, <2>8, <3>1, BytesAnswer
    <3> QED BY <2>2, <2>6, <3>2 DEF WireInv
  <2> QED BY <1>1, <2>7, <2>8
<1> QED BY <1>3, <1>4 DEF ReadPadding, n

\* The padding is looked at.
LEMMA TakePaddingInv == WireInv /\ TakePadding => WireInv'
<1> SUFFICES ASSUME WireInv, TakePadding PROVE WireInv'
  OBVIOUS
<1> DEFINE n == Padding(length)
           said == IF buf = Zeros(n) THEN "ok" ELSE "err"
<1>0. /\ WireTypes /\ Handed /\ Len(buf) = n
      /\ ~Oversized =>
           \/ /\ pos = ContentEnd + Len(buf)
              /\ buf = SubSeq(source.bytes, ContentEnd + 1, pos)
           \/ Remaining = 0 /\ buf = << >> /\ pos < ContentEnd
      /\ UNCHANGED <<source, pos, call, buf, length, limit, value>>
      /\ pc' = "returned" /\ err' = IF err = "none" THEN said ELSE err
  BY DEF WireInv, TakePadding, ReturnWith, Outcome
<1>1. /\ Block \in Nat \ {0} /\ length \in Nat /\ pos \in Nat
      /\ ContentEnd = Block + length /\ Len(source.bytes) \in Nat /\ pos <= Len(source.bytes)
      /\ Remaining = Len(source.bytes) - pos /\ call \in {"string", "bytes"}
  BY <1>0, InputFacts DEF WireTypes, ContentEnd
<1>2. /\ n \in Nat /\ PacketEnd = ContentEnd + n /\ (n = 0 => length % Block = 0)
  BY <1>1, PaddingFacts DEF PacketEnd, ContentEnd
<1>3. Sound => pos = PacketEnd /\ buf = Zeros(n)
  <2> SUFFICES ASSUME Sound PROVE pos = PacketEnd /\ buf = Zeros(n)
    OBVIOUS
  <2>1. /\ ~Oversized /\ PacketEnd <= Len(source.bytes)
        /\ SubSeq(source.bytes, ContentEnd + 1, PacketEnd) = Zeros(n)
    BY <1>0, SoundFacts
  <2> HIDE DEF n
  <2>2. ~(Remaining = 0 /\ pos < ContentEnd)
    BY <1>1, <1>2, <2>1
  <2> QED BY <1>0, <1>2, <2>1, <2>2
<1> HIDE DEF n
<1>4. WireTypes'
  BY <1>0 DEF WireTypes
<1>5. CASE call = "string"
  <2>1. Verdict /\ err' = err
    BY <1>0, <1>5 DEF Handed, Verdict
  <2>2. HonestOutcome' /\ ReadsPacket'
    BY <1>0, <1>3, <1>5, <2>1, StringAnswers
  <2> QED BY <1>0, <1>4, <2>2 DEF WireInv
<1>6. CASE call = "bytes"
  <2>1. Begun /\ err' = said
    BY <1>0, <1>6 DEF Handed, Begun
  <2>2. err' = "ok" => \/ pos = PacketEnd /\ buf' = Zeros(n)
                       \/ Oversized \/ (Remaining = 0 /\ length % Block = 0)
    <3> SUFFICES ASSUME err' = "ok", ~Oversized
                 PROVE  \/ pos = PacketEnd /\ buf' = Zeros(n)
                        \/ Remaining = 0 /\ length % Block = 0
      OBVIOUS
    <3>1. buf' = Zeros(n)
      BY <1>0, <2>1
    <3>2. CASE pos = ContentEnd + Len(buf)
      BY <1>0, <1>2, <3>1, <3>2
    <3>3. CASE Remaining = 0 /\ buf = << >>
      <4>1. n = 0
        BY <1>0, <3>3
      <4> QED BY <1>2, <3>3, <4>1
    <3> QED BY <1>0, <3>2, <3>3
  <2>3. HonestOutcome' /\ ReadsPacket'
    BY <1>0, <1>3, <1>6, <2>1, <2>2, BytesAnswer DEF n
  <2> QED BY <1>0, <1>4, <2>3 DEF WireInv
<1> QED BY <1>1, <1>5, <1>6

\* Every step keeps the invariant.
LEMMA NextWire == WireInv /\ [WireNext]_wireVars => WireInv'
<1> SUFFICES ASSUME WireInv, [WireNext]_wireVars PROVE WireInv'
  OBVIOUS
<1>1. CASE WireNext
  BY <1>1, ReadLengthInv, TakeLengthInv, ReadContentInv, TakeContentInv, ReadInv, CloseInv,
     SkipInv, ReadPaddingInv, TakePaddingInv DEF WireNext
<1>2. CASE UNCHANGED wireVars
  <2>1. /\ UNCHANGED <<source, pos, call, pc, buf, length, limit, value, err>>
    BY <1>2 DEF wireVars
  <2>2. WireTypes' = WireTypes /\ Limited' = Limited /\ Begun' = Begun /\ Verdict' = Verdict
        /\ Remaining' = Remaining
    BY <2>1, SameContent DEF WireTypes, Limited, Begun, Verdict, Remaining
  <2>3. HonestOutcome' = HonestOutcome /\ ReadsPacket' = ReadsPacket
    BY <2>1 DEF HonestOutcome, ReadsPacket, Content, Oversized, PacketEnd, Remaining, Packet,
       LengthBytes, Zeros
  <2> QED BY <2>1, <2>2, <2>3, SameContent DEF WireInv, Handed
<1> QED BY <1>1, <1>2

(***************************************************************************)
(* The inductive invariant of reading a packet, for bytes, blocks and      *)
(* contents of any size.                                                   *)
(***************************************************************************)
THEOREM WireInvariance == WireSpec => []WireInv
BY InitWire, NextWire, PTL DEF WireSpec

(***************************************************************************)
(* What was written is read.                                               *)
(***************************************************************************)
THEOREM PacketsRead == WireSpec => []ReadsPacket
<1>1. WireInv => ReadsPacket
  BY DEF WireInv
<1> QED BY <1>1, WireInvariance, PTL

(***************************************************************************)
(* Every outcome means what it says, but for what is said of it.           *)
(***************************************************************************)
THEOREM HonestReading == WireSpec => []HonestOutcome
<1>1. WireInv => HonestOutcome
  BY DEF WireInv
<1> QED BY <1>1, WireInvariance, PTL

----------------------------------------------------------------------------
\* What a pass reads: a signature of sixty-four bytes, the result of ParseAny,
\* the fields of a narinfo.
Accepted == {s \in SigTexts : s.bytes = SigSize}

IsHash(H) ==
  H = {} \/ \E d : \E a \in Algorithms, e \in Spellings \cup {"SRI"} :
              /\ d # NoDigest
              /\ H = {[algo |-> a, digest |-> d, includeAlgo |-> TRUE, encoding |-> e]}

Fields(r) ==
  /\ r = [StorePath |-> r.StorePath, URL |-> r.URL, Compression |-> r.Compression,
          Deriver |-> r.Deriver, System |-> r.System, CA |-> r.CA,
          FileHash |-> r.FileHash, NarHash |-> r.NarHash,
          FileSize |-> r.FileSize, NarSize |-> r.NarSize,
          References |-> r.References, Signatures |-> r.Signatures]
  /\ IsHash(r.FileHash) /\ IsHash(r.NarHash)
  /\ r.FileSize # NotANumber /\ r.NarSize # NotANumber
  /\ r.References \in Seq(Texts) /\ r.Signatures \in Seq(Accepted)

\* What String writes a line of, and that line read again.
Renderable(r) ==
  /\ Fields(r) /\ r.Compression # Blank /\ r.NarHash # {}
  /\ r.FileHash = {} <=> r.FileSize = 0

HashText(H) == Format(CHOOSE h \in H : TRUE)

\* What is left of the file behind each of its fields.
BehindSigs(r) == Optional("CA", r.CA)
SigsFrom(r, m) == [k \in 1..(Len(r.Signatures) - m) |-> Line("Sig", r.Signatures[m + k])]
BehindSystem(r) == SigsFrom(r, 0) \o BehindSigs(r)
BehindDeriver(r) == Optional("System", r.System) \o BehindSystem(r)
BehindReferences(r) == Optional("Deriver", r.Deriver) \o BehindDeriver(r)
BehindNarSize(r) == <<Line("References", r.References)>> \o BehindReferences(r)
BehindNarHash(r) == <<Line("NarSize", r.NarSize)>> \o BehindNarSize(r)
BehindFileSize(r) == <<Line("NarHash", HashText(r.NarHash))>> \o BehindNarHash(r)
BehindFileHash(r) == <<Line("FileSize", r.FileSize)>> \o BehindFileSize(r)
BehindCompression(r) ==
  IF r.FileHash = {} THEN BehindFileSize(r)
  ELSE <<Line("FileHash", HashText(r.FileHash))>> \o BehindFileHash(r)
BehindURL(r) == <<Line("Compression", r.Compression)>> \o BehindCompression(r)
BehindStorePath(r) == <<Line("URL", r.URL)>> \o BehindURL(r)
Whole(r) == <<Line("StorePath", r.StorePath)>> \o BehindStorePath(r)

\* The fields of r when n of them, and m of its signatures, have been read.
Known(r, n, m) ==
  [StorePath |-> IF n >= 1 THEN r.StorePath ELSE Blank,
   URL |-> IF n >= 2 THEN r.URL ELSE Blank,
   Compression |-> IF n >= 3 THEN r.Compression ELSE Blank,
   Deriver |-> IF n >= 9 THEN r.Deriver ELSE Blank,
   System |-> IF n >= 10 THEN r.System ELSE Blank,
   CA |-> IF n >= 11 THEN r.CA ELSE Blank,
   FileHash |-> IF n >= 4 THEN r.FileHash ELSE {},
   NarHash |-> IF n >= 6 THEN r.NarHash ELSE {},
   FileSize |-> IF n >= 5 THEN r.FileSize ELSE 0,
   NarSize |-> IF n >= 7 THEN r.NarSize ELSE 0,
   References |-> IF n >= 8 THEN r.References ELSE << >>,
   Signatures |-> SubSeq(r.Signatures, 1, m)]

\* c is what the scanner leaves of r.
ReadsAs(r, c) ==
  /\ Fields(r) /\ Fields(c)
  /\ \A k \in TextKeys : c[k] = Chomp[r[k]]
  /\ \A k \in HashKeys \cup SizeKeys \cup {"Signatures"} : c[k] = r[k]
  /\ c.References = LastChomped(r.References)

\* A parse of what String has written for r, between two of its lines.
Halfway(r, c, got, t) ==
  \/ got = Known(c, 0, 0) /\ t = Whole(r)
  \/ got = Known(c, 1, 0) /\ t = BehindStorePath(r)
  \/ got = Known(c, 2, 0) /\ t = BehindURL(r)
  \/ got = Known(c, 3, 0) /\ t = BehindCompression(r)
  \/ got = Known(c, 4, 0) /\ t = BehindFileHash(r) /\ r.FileHash # {}
  \/ got = Known(c, 5, 0) /\ t = BehindFileSize(r)
  \/ got = Known(c, 6, 0) /\ t = BehindNarHash(r)
  \/ got = Known(c, 7, 0) /\ t = BehindNarSize(r)
  \/ got = Known(c, 8, 0) /\ t = BehindReferences(r)
  \/ got = Known(c, 9, 0) /\ t = BehindDeriver(r)
  \/ \E m \in 0..Len(r.Signatures) :
       got = Known(c, 10, m) /\ t = SigsFrom(r, m) \o BehindSigs(r)
  \/ got = c /\ t = << >>

Refused(r) ==
  \/ Len(r.References) > MaxRefs
  \/ \E k \in HashKeys : \E h \in r[k] : Shortened(h)

Reread ==
  LET r == BothFileFields(first)
      c == Chomped(r)
  IN
  /\ status = "parsing" => Halfway(r, c, info, text)
  /\ status = "parsed" => info = Defaulted(c)
  /\ status = "failed" => Refused(r)
  /\ status # "panicked"

(***************************************************************************)
(* The inductive invariant: a narinfo that is being read has the fields of *)
(* one, nothing is read behind a verdict, and a parse of what String has   *)
(* written has read the fields whose lines are no longer to come.          *)
(***************************************************************************)
InfoInv ==
  /\ pass \in {1, 2}
  /\ pass = 1 => /\ Fields(info) /\ text \in Seq(FileLine)
                 /\ status = "parsed" => info.Compression # Blank
                 /\ verdict # "none" => status \in {"parsed", "panicked"}
  /\ pass = 2 => Fields(first) /\ first.Compression # Blank /\ first.NarHash # {} /\ Reread

----------------------------------------------------------------------------
\* A line, and what is behind it.
LEMMA Reading ==
  ASSUME NEW S, NEW x \in S, NEW s \in Seq(S)
  PROVE  <<x>> \o s \in Seq(S) /\ <<x>> \o s # << >> /\ Head(<<x>> \o s) = x /\ Tail(<<x>> \o s) = s
<1>1. <<x>> \in Seq(S) /\ Len(<<x>>) = 1 /\ <<x>>[1] = x
  OBVIOUS
<1> DEFINE c == <<x>> \o s
<1>2. c \in Seq(S) /\ Len(c) = 1 + Len(s) /\ \A j \in 1..(1 + Len(s)) : c[j] = IF j <= 1 THEN x ELSE s[j - 1]
  BY <1>1, ConcatProperties
<1>3. Len(s) \in Nat
  BY LenProperties
<1> HIDE DEF c
<1>4. c # << >>
  BY <1>2, <1>3
<1>5. Head(c) = x
  BY <1>2, <1>3
<1>6. Tail(c) \in Seq(S) /\ Len(Tail(c)) = Len(s) /\ \A j \in 1..Len(Tail(c)) : Tail(c)[j] = s[j]
  BY <1>2, <1>3, <1>4, HeadTailProperties
<1>7. Tail(c) = s
  BY <1>6, SeqEqual
<1> QED BY <1>2, <1>4, <1>5, <1>7 DEF c

\* The texts that a narinfo has of its own are not blank.
LEMMA NotBlank ==
  Blank \notin Algorithms \cup TextKeys \cup HashKeys \cup SizeKeys \cup {"References", "Sig", "bzip2"}
BY Zenon DEF Blank, Algorithms, TextKeys, HashKeys, SizeKeys

\* ParseAny finds at most one hash in a text, and its algorithm was named.
LEMMA ParsedHash ==
  ASSUME NEW t
  PROVE  IsHash(ParseAny(t, {}))
<1> SUFFICES ASSUME ParseAny(t, {}) # {} PROVE IsHash(ParseAny(t, {}))
  BY DEF IsHash
<1> DEFINE Result(a, e) == [algo |-> a, digest |-> t.body.reads[e], includeAlgo |-> t.algo # Blank,
                            encoding |-> IF t.sep = "-" THEN "SRI" ELSE e]
<1>1. ParseAny(t, {}) = UNION {{Result(a, e) : e \in BodyEncoding(t, a)} : a \in NamedAlgorithm(t, {})}
  BY DEF ParseAny
<1> HIDE DEF Result
<1>2. PICK a \in NamedAlgorithm(t, {}) : \E e \in BodyEncoding(t, a) : TRUE
  BY <1>1
<1> PICK e \in BodyEncoding(t, a) : TRUE
  BY <1>2
<1>3. a \in Algorithms /\ t.algo = a /\ a # Blank
  BY <1>2, NotBlank DEF NamedAlgorithm
<1>4. NamedAlgorithm(t, {}) = {a}
  BY <1>3 DEF NamedAlgorithm
<1>5. BodyEncoding(t, a) = {e}
  BY <1>3, DistinctLengths DEF BodyEncoding
<1>6. ParseAny(t, {}) = {Result(a, e)}
  BY <1>1, <1>4, <1>5
<1>7. t.body.reads[e] # NoDigest /\ e \in Spellings
  BY DEF BodyEncoding
<1>8. (t.algo # Blank) = TRUE
  BY <1>3
<1>9. (IF t.sep = "-" THEN "SRI" ELSE e) \in Spellings \cup {"SRI"}
  BY <1>7
<1> DEFINE d == t.body.reads[e]
           f == IF t.sep = "-" THEN "SRI" ELSE e
<1>10. Result(a, e) = [algo |-> a, digest |-> d, includeAlgo |-> TRUE, encoding |-> f]
  BY <1>8 DEF Result
<1> HIDE DEF d, f
<1>11. d # NoDigest /\ f \in Spellings \cup {"SRI"}
  BY <1>7, <1>9 DEF d, f
<1>12. /\ d # NoDigest
       /\ ParseAny(t, {}) = {[algo |-> a, digest |-> d, includeAlgo |-> TRUE, encoding |-> f]}
  BY <1>6, <1>10, <1>11
<1>13. \E c : \E b \in Algorithms, g \in Spellings \cup {"SRI"} :
         /\ c # NoDigest
         /\ ParseAny(t, {}) = {[algo |-> b, digest |-> c, includeAlgo |-> TRUE, encoding |-> g]}
  BY <1>3, <1>11, <1>12
<1> QED BY <1>13 DEF IsHash

(***************************************************************************)
(* What Format writes of a hash that has been read, ParseAny reads again,  *)
(* unless it has become shorter.                                           *)
(***************************************************************************)
LEMMA FormattedHash ==
  ASSUME NEW H, IsHash(H), H # {}
  PROVE  \E h \in H : H = {h} /\ ParseAny(HashText(H), {}) = IF Shortened(h) THEN {} ELSE H
<1>1. PICK d : \E a \in Algorithms, e \in Spellings \cup {"SRI"} :
        /\ d # NoDigest
        /\ H = {[algo |-> a, digest |-> d, includeAlgo |-> TRUE, encoding |-> e]}
  BY DEF IsHash
<1>2a. PICK a \in Algorithms, e \in Spellings \cup {"SRI"} :
        /\ d # NoDigest
        /\ H = {[algo |-> a, digest |-> d, includeAlgo |-> TRUE, encoding |-> e]}
  BY <1>1
<1> DEFINE h == [algo |-> a, digest |-> d, includeAlgo |-> TRUE, encoding |-> e]
           s == Spelling(h)
           t == Format(h)
           Result(b, f) == [algo |-> b, digest |-> t.body.reads[f], includeAlgo |-> t.algo # Blank,
                            encoding |-> IF t.sep = "-" THEN "SRI" ELSE f]
<1>2. HashText(H) = t
  BY <1>2a DEF HashText
<1>3. s \in Spellings /\ s = IF e = "SRI" THEN "Base64" ELSE e
  BY DEF Spelling, Spellings
<1>4. /\ t.algo = a /\ a # Blank
      /\ t.sep = IF e = "SRI" THEN "-" ELSE ":"
      /\ t.body.len = LengthIn(s, d.bytes)
      /\ t.body.reads = [f \in Spellings |-> IF f = s THEN d ELSE NoDigest]
  BY NotBlank DEF Format, Body
<1> HIDE DEF t
<1>5. NamedAlgorithm(t, {}) = {a}
  BY <1>4 DEF NamedAlgorithm
<1>6. BodyEncoding(t, a) = IF LengthIn(s, d.bytes) = LengthIn(s, Size[a]) THEN {s} ELSE {}
  <2> HIDE DEF s
  <2>1. t.sep = "-" => s = "Base64"
    BY <1>3, <1>4
  <2>2. \A f \in Spellings : t.body.reads[f] # NoDigest <=> f = s
    BY <1>2a, <1>4
  <2> QED BY <1>3, <1>4, <2>1, <2>2 DEF BodyEncoding
<1>7. Shortened(h) <=> LengthIn(s, d.bytes) # LengthIn(s, Size[a])
  BY DEF Shortened
<1>8. Result(a, s) = h
  <2> HIDE DEF s
  <2>1. t.body.reads[s] = d /\ (t.algo # Blank) = TRUE
    BY <1>3, <1>4
  <2>2. (IF t.sep = "-" THEN "SRI" ELSE s) = e
    BY <1>3, <1>4 DEF Spellings
  <2> QED BY <2>1, <2>2
<1>9. ParseAny(t, {}) = IF Shortened(h) THEN {} ELSE {Result(a, s)}
  <2>1. ParseAny(t, {}) = UNION {{Result(b, f) : f \in BodyEncoding(t, b)} : b \in NamedAlgorithm(t, {})}
    BY DEF ParseAny
  <2>2. ParseAny(t, {}) = {Result(a, f) : f \in BodyEncoding(t, a)}
    <3> HIDE DEF Result
    <3> QED BY <2>1, <1>5
  <2> HIDE DEF Result, s, h
  <2>3. CASE Shortened(h)
    <3>1. BodyEncoding(t, a) = {}
      BY <2>3, <1>6, <1>7
    <3>2. {Result(a, f) : f \in {}} = {}
      OBVIOUS
    <3> QED BY <2>2, <2>3, <3>1, <3>2
  <2>4. CASE ~Shortened(h)
    <3>1. BodyEncoding(t, a) = {s}
      BY <2>4, <1>6, <1>7
    <3>2. {Result(a, f) : f \in {s}} = {Result(a, s)}
      OBVIOUS
    <3> QED BY <2>2, <2>4, <3>1, <3>2
  <2> QED BY <2>3, <2>4
<1> QED BY <1>2a, <1>2, <1>8, <1>9

----------------------------------------------------------------------------
\* What a line of each kind does.
LEMMA TextRead ==
  ASSUME NEW k \in TextKeys, NEW v, ReadLine(Scanned(Line(k, v)))
  PROVE  info' = [info EXCEPT ![k] = Chomp[v]] /\ status' = status
<1>1. Scanned(Line(k, v)) = Line(k, Chomp[v])
  BY DEF Scanned, Line
<1>2. ReadLine(Line(k, Chomp[v]))
  BY <1>1
<1> QED
  BY <1>2, NotBlank
  DEF ReadLine, BlankLine, OddLine, TextLine, HashLine, SizeLine, ReferencesLine, SigLine, Line, Set,
      TextKeys, HashKeys, SizeKeys

\* A number.
LEMMA SizeRead ==
  ASSUME NEW k \in SizeKeys, NEW v, v # NotANumber, ReadLine(Scanned(Line(k, v)))
  PROVE  info' = [info EXCEPT ![k] = v] /\ status' = status
<1>1. Scanned(Line(k, v)) = Line(k, v)
  BY DEF Scanned, Line, TextKeys, HashKeys, SizeKeys
<1>2. ReadLine(Line(k, v))
  BY <1>1
<1> QED
  BY <1>2, NotBlank
  DEF ReadLine, BlankLine, OddLine, TextLine, HashLine, SizeLine, ReferencesLine, SigLine, Line, Set,
      TextKeys, HashKeys, SizeKeys

\* A hash.
LEMMA HashRead ==
  ASSUME NEW k \in HashKeys, NEW v, ReadLine(Scanned(Line(k, v)))
  PROVE  IF ParseAny(v, {}) = {} THEN Fail
         ELSE info' = [info EXCEPT ![k] = ParseAny(v, {})] /\ status' = status
<1>1. Scanned(Line(k, v)) = Line(k, v)
  BY DEF Scanned, Line, TextKeys, HashKeys, SizeKeys
<1>2. ReadLine(Line(k, v))
  BY <1>1
<1> QED
  BY <1>2, NotBlank
  DEF ReadLine, BlankLine, OddLine, TextLine, HashLine, SizeLine, ReferencesLine, SigLine, Line, Set,
      TextKeys, HashKeys, SizeKeys

\* References.
LEMMA ReferencesRead ==
  ASSUME NEW v, ReadLine(Scanned(Line("References", v)))
  PROVE  LET w == LastChomped(v) IN
         IF Len(w) > MaxRefs THEN Fail
         ELSE info' = [info EXCEPT !["References"] = info.References \o w] /\ status' = status
<1>1. Scanned(Line("References", v)) = Line("References", LastChomped(v))
  BY DEF Scanned, Line, TextKeys
<1>2. ReadLine(Line("References", LastChomped(v)))
  BY <1>1
<1> QED
  BY <1>2, NotBlank
  DEF ReadLine, BlankLine, OddLine, TextLine, HashLine, SizeLine, ReferencesLine, SigLine, Line, Set,
      TextKeys, HashKeys, SizeKeys

\* A signature.
LEMMA SigRead ==
  ASSUME NEW v, v.bytes = SigSize, ReadLine(Scanned(Line("Sig", v)))
  PROVE  info' = [info EXCEPT !["Signatures"] = Append(info.Signatures, v)] /\ status' = status
<1>1. Scanned(Line("Sig", v)) = Line("Sig", v)
  BY DEF Scanned, Line, TextKeys, HashKeys, SizeKeys
<1>2. ReadLine(Line("Sig", v))
  BY <1>1
<1> QED
  BY <1>2, NotBlank
  DEF ReadLine, BlankLine, OddLine, TextLine, HashLine, SizeLine, ReferencesLine, SigLine, Line, Set,
      TextKeys, HashKeys, SizeKeys

\* A parse that starts has the fields of a narinfo.
LEMMA EmptyFields == Fields(Empty)
<1>1. << >> \in Seq(Texts) /\ << >> \in Seq(Accepted)
  OBVIOUS
<1> QED BY <1>1 DEF Fields, Empty, IsHash, NotANumber

\* The references and the signatures of a line of a file.
LEMMA ListLine ==
  ASSUME NEW l \in FileLine
  PROVE  /\ l.key = "References" => l.says \in RefLists
         /\ l.key = "Sig" => l.says \in SigTexts
<1>1. CASE l \in {Line(k, Blank) : k \in {Blank, "?"}}
  <2>1. l = Line(Blank, Blank) \/ l = Line("?", Blank)
    BY <1>1
  <2> QED BY <2>1, NotBlank DEF Line
<1>2. CASE l \in {Line(k, w) : k \in TextKeys, w \in Words}
  BY <1>2 DEF Line, TextKeys
<1>3. CASE l \in {Line(k, t) : k \in HashKeys, t \in HashTexts}
  BY <1>3 DEF Line, HashKeys
<1>4. CASE l \in {Line(k, n) : k \in SizeKeys, n \in Sizes}
  BY <1>4 DEF Line, SizeKeys
<1>5. CASE l \in {Line("References", r) : r \in RefLists}
  BY <1>5 DEF Line
<1>6. CASE l \in {Line("Sig", s) : s \in SigTexts}
  BY <1>6 DEF Line
<1> QED BY <1>1, <1>2, <1>3, <1>4, <1>5, <1>6 DEF FileLine

\* References without the return at their end are references, and no more of them.
LEMMA ChompedList ==
  ASSUME NEW s \in Seq(Texts)
  PROVE  LastChomped(s) \in Seq(Texts) /\ Len(LastChomped(s)) <= Len(s)
<1> DEFINE n == Len(s)
           u == [s EXCEPT ![n] = Chomp[@]]
<1>1. n \in Nat
  BY LenProperties
<1>2. CASE s = << >>
  BY <1>1, <1>2 DEF LastChomped
<1>3. CASE s # << >>
  <2>1. n \in 1..n
    BY <1>1, <1>3, EmptySeq
  <2>2. s[n] \in Texts /\ Chomp[s[n]] \in Texts
    BY <2>1, ElementOfSeq, ChompAssumption
  <2>3. u \in Seq(Texts) /\ Len(u) = n
    BY <2>1, <2>2, ExceptSeq
  <2>4. << >> \in Seq(Texts) /\ Len(<< >>) = 0
    OBVIOUS
  <2>5. LastChomped(s) = IF u = <<Blank>> THEN << >> ELSE u
    BY <1>3 DEF LastChomped
  <2> HIDE DEF u, n
  <2> QED BY <1>1, <2>3, <2>4, <2>5 DEF n
<1> QED BY <1>2, <1>3

\* What the scanner hands on of the references and the signatures of a line.
LEMMA ScannedLine ==
  ASSUME NEW l \in FileLine
  PROVE  LET x == Scanned(l) IN
         /\ x.key = "References" => x.says \in Seq(Texts)
         /\ x.key = "Sig" => x.says \in SigTexts
<1> DEFINE x == Scanned(l)
<1>1. \E k, v : l = Line(k, v)
  BY DEF FileLine
<1>2. PICK k, v : l = Line(k, v)
  BY <1>1
<1>3. l.key = k /\ l.says = v
  BY <1>2 DEF Line
<1>4. /\ x.key = k
      /\ x.says = IF k \in TextKeys THEN Chomp[v] ELSE IF k = "References" THEN LastChomped(v) ELSE v
  BY <1>2 DEF Scanned, Line
<1>5. CASE k = "References"
  <2>1. v \in Seq(Texts)
    BY <1>3, <1>5, ListLine, LineAssumption
  <2> QED BY <1>4, <1>5, <2>1, ChompedList DEF TextKeys
<1>6. CASE k = "Sig"
  BY <1>3, <1>4, <1>6, ListLine DEF TextKeys
<1>7. CASE k \notin {"References", "Sig"}
  BY <1>4, <1>7
<1> QED BY <1>5, <1>6, <1>7

\* What the scanner hands on of any line leaves the fields of a narinfo.
LEMMA FieldsRead ==
  ASSUME Fields(info), NEW f \in FileLine, ReadLine(Scanned(f))
  PROVE  Fields(info')
<1> DEFINE l == Scanned(f)
<1>0. /\ l.key = "References" => l.says \in Seq(Texts)
      /\ l.key = "Sig" => l.says \in SigTexts
  BY ScannedLine
<1> HIDE DEF l
<1>1. CASE BlankLine(l) \/ OddLine(l)
  BY <1>1 DEF BlankLine, OddLine, Fail
<1>2. CASE TextLine(l)
  BY <1>2 DEF TextLine, Set, Fields, TextKeys
<1>3. CASE HashLine(l)
  <2> DEFINE h == ParseAny(l.says, {})
  <2>1. IsHash(h)
    BY ParsedHash
  <2> HIDE DEF h
  <2>2. CASE h = {}
    BY <1>3, <2>2 DEF HashLine, Fail, h
  <2>3. CASE h # {}
    <3>1. l.key \in HashKeys /\ info' = [info EXCEPT ![l.key] = h]
      BY <1>3, <2>3 DEF HashLine, Set, h
    <3> QED BY <2>1, <3>1 DEF Fields, HashKeys
  <2> QED BY <2>2, <2>3
<1>4. CASE SizeLine(l)
  BY <1>4 DEF SizeLine, Set, Fail, Fields, SizeKeys
<1>5. CASE ReferencesLine(l)
  <2>1. l.says \in Seq(Texts)
    BY <1>0, <1>5 DEF ReferencesLine
  <2>2. info.References \o l.says \in Seq(Texts)
    BY <2>1 DEF Fields
  <2> QED BY <1>5, <2>2 DEF ReferencesLine, Set, Fail, Fields
<1>6. CASE SigLine(l)
  <2>1. l.says \in SigTexts
    BY <1>0, <1>6 DEF SigLine
  <2>2. CASE l.says.bytes = SigSize
    <3>1. Append(info.Signatures, l.says) \in Seq(Accepted)
      BY <2>1, <2>2 DEF Fields, Accepted
    <3> QED BY <1>6, <2>2, <3>1 DEF SigLine, Set, Fields
  <2>3. CASE l.says.bytes # SigSize
    BY <1>6, <2>3 DEF SigLine, Fail
  <2> QED BY <2>2, <2>3
<1> QED BY <1>1, <1>2, <1>3, <1>4, <1>5, <1>6 DEF ReadLine, l

----------------------------------------------------------------------------
\* The lines that String may write.
Written(r) ==
  {Line(k, r[k]) : k \in TextKeys \cup SizeKeys \cup {"References"}}
    \cup {Line(k, HashText(r[k])) : k \in HashKeys}
    \cup {Line("Sig", s) : s \in Accepted}

\* The lines of the fields of a narinfo.
LEMMA WrittenLines ==
  ASSUME NEW r
  PROVE  LET W == Written(r) IN
         /\ Line("StorePath", r.StorePath) \in W /\ Line("URL", r.URL) \in W
         /\ Line("Compression", r.Compression) \in W /\ Line("Deriver", r.Deriver) \in W
         /\ Line("System", r.System) \in W /\ Line("CA", r.CA) \in W
         /\ Line("FileSize", r.FileSize) \in W /\ Line("NarSize", r.NarSize) \in W
         /\ Line("References", r.References) \in W
         /\ Line("FileHash", HashText(r.FileHash)) \in W /\ Line("NarHash", HashText(r.NarHash)) \in W
         /\ \A s \in Accepted : Line("Sig", s) \in W
         /\ Optional("CA", r.CA) \in Seq(W) /\ Optional("System", r.System) \in Seq(W)
         /\ Optional("Deriver", r.Deriver) \in Seq(W)
<1> DEFINE W == Written(r)
<1>1. \A k \in TextKeys \cup SizeKeys \cup {"References"} : Line(k, r[k]) \in W
  BY DEF Written
<1>2. \A k \in HashKeys : Line(k, HashText(r[k])) \in W
  BY DEF Written
<1>3. \A s \in Accepted : Line("Sig", s) \in W
  BY DEF Written
<1>4. Line("StorePath", r.StorePath) \in W /\ Line("URL", r.URL) \in W
      /\ Line("Compression", r.Compression) \in W /\ Line("Deriver", r.Deriver) \in W
      /\ Line("System", r.System) \in W /\ Line("CA", r.CA) \in W
      /\ Line("FileSize", r.FileSize) \in W /\ Line("NarSize", r.NarSize) \in W
      /\ Line("References", r.References) \in W
  BY <1>1 DEF TextKeys, SizeKeys
<1>5. Line("FileHash", HashText(r.FileHash)) \in W /\ Line("NarHash", HashText(r.NarHash)) \in W
  BY <1>2 DEF HashKeys
<1> HIDE DEF W
<1>6. /\ Optional("CA", r.CA) \in Seq(W) /\ Optional("System", r.System) \in Seq(W)
      /\ Optional("Deriver", r.Deriver) \in Seq(W)
  BY <1>4 DEF Optional
<1> QED BY <1>3, <1>4, <1>5, <1>6 DEF W

\* What is behind each field is a sequence of lines.
LEMMA BehindLines ==
  ASSUME NEW r, Fields(r)
  PROVE  LET S == Seq(Written(r)) IN
         /\ BehindSigs(r) \in S /\ BehindSystem(r) \in S /\ BehindDeriver(r) \in S
         /\ BehindReferences(r) \in S /\ BehindNarSize(r) \in S /\ BehindNarHash(r) \in S
         /\ BehindFileSize(r) \in S /\ BehindFileHash(r) \in S /\ BehindCompression(r) \in S
         /\ BehindURL(r) \in S /\ BehindStorePath(r) \in S /\ Whole(r) \in S
         /\ \A m \in 0..Len(r.Signatures) : SigsFrom(r, m) \in S
<1> DEFINE W == Written(r)
<1>4. Line("StorePath", r.StorePath) \in W /\ Line("URL", r.URL) \in W
      /\ Line("Compression", r.Compression) \in W
      /\ Line("FileSize", r.FileSize) \in W /\ Line("NarSize", r.NarSize) \in W
      /\ Line("References", r.References) \in W
  BY WrittenLines
<1>5. Line("FileHash", HashText(r.FileHash)) \in W /\ Line("NarHash", HashText(r.NarHash)) \in W
  BY WrittenLines
<1>3. \A s \in Accepted : Line("Sig", s) \in W
  BY WrittenLines
<1>9. /\ Optional("CA", r.CA) \in Seq(W) /\ Optional("System", r.System) \in Seq(W)
      /\ Optional("Deriver", r.Deriver) \in Seq(W)
  BY WrittenLines
<1> HIDE DEF W
<1>6. \A m \in 0..Len(r.Signatures) : SigsFrom(r, m) \in Seq(W)
  <2> SUFFICES ASSUME NEW m \in 0..Len(r.Signatures) PROVE SigsFrom(r, m) \in Seq(W)
    OBVIOUS
  <2> DEFINE n == Len(r.Signatures)
  <2>1. n \in Nat /\ \A k \in 1..n : r.Signatures[k] \in Accepted
    BY LenProperties, ElementOfSeq DEF Fields
  <2>2. \A k \in 1..(n - m) : r.Signatures[m + k] \in Accepted
    BY <2>1
  <2>3. SigsFrom(r, m) \in [1..(n - m) -> W]
    BY <1>3, <2>2 DEF SigsFrom
  <2>4. n - m \in Nat
    BY <2>1
  <2> QED BY <2>3, <2>4, SeqDef
<1>7. \A x \in W, s \in Seq(W) : <<x>> \o s \in Seq(W)
  BY Reading
<1>8. \A s \in Seq(W), t \in Seq(W) : s \o t \in Seq(W)
  BY ConcatProperties
<1>10. BehindSigs(r) \in Seq(W)
  BY <1>9 DEF BehindSigs
<1>11. BehindSystem(r) \in Seq(W)
  <2>1. 0 \in 0..Len(r.Signatures)
    BY LenProperties DEF Fields
  <2>2. SigsFrom(r, 0) \in Seq(W)
    BY <1>6, <2>1
  <2> QED BY <1>8, <1>10, <2>2 DEF BehindSystem
<1>12. BehindDeriver(r) \in Seq(W)
  BY <1>8, <1>9, <1>11 DEF BehindDeriver
<1>13. BehindReferences(r) \in Seq(W)
  BY <1>8, <1>9, <1>12 DEF BehindReferences
<1>14. BehindNarSize(r) \in Seq(W)
  BY <1>4, <1>7, <1>13 DEF BehindNarSize
<1>15. BehindNarHash(r) \in Seq(W)
  BY <1>4, <1>7, <1>14 DEF BehindNarHash
<1>16. BehindFileSize(r) \in Seq(W)
  BY <1>5, <1>7, <1>15 DEF BehindFileSize
<1>17. BehindFileHash(r) \in Seq(W)
  BY <1>4, <1>7, <1>16 DEF BehindFileHash
<1>18. BehindCompression(r) \in Seq(W)
  BY <1>5, <1>7, <1>16, <1>17 DEF BehindCompression
<1>19. BehindURL(r) \in Seq(W)
  BY <1>4, <1>7, <1>18 DEF BehindURL
<1>20. BehindStorePath(r) \in Seq(W)
  BY <1>4, <1>7, <1>19 DEF BehindStorePath
<1>21. Whole(r) \in Seq(W)
  BY <1>4, <1>7, <1>20 DEF Whole
<1> QED BY <1>6, <1>10, <1>11, <1>12, <1>13, <1>14, <1>15, <1>16, <1>17, <1>18, <1>19, <1>20, <1>21
        DEF W

\* Two lines, and what is behind them, are read one by one.
Two(S, x, y, s) == <<x, y>> \in Seq(S) /\ <<x, y>> \o s = <<x>> \o (<<y>> \o s)

\* So they are.
LEMMA TwoLines ==
  ASSUME NEW S, NEW x \in S, NEW y \in S, NEW s \in Seq(S)
  PROVE  Two(S, x, y, s)
<1> DEFINE c == <<x>> \o <<y>>
           t == <<x, y>>
<1>1. /\ <<x>> \in Seq(S) /\ Len(<<x>>) = 1 /\ <<x>>[1] = x
      /\ <<y>> \in Seq(S) /\ Len(<<y>>) = 1 /\ <<y>>[1] = y
  OBVIOUS
<1>2. t \in Seq(S) /\ Len(t) = 2 /\ t[1] = x /\ t[2] = y
  OBVIOUS
<1>3. c \in Seq(S) /\ Len(c) = 2 /\ c[1] = x /\ c[2] = y
  <2>1. /\ c \in Seq(S) /\ Len(c) = Len(<<x>>) + Len(<<y>>)
        /\ \A j \in 1..(Len(<<x>>) + Len(<<y>>)) :
             c[j] = IF j <= Len(<<x>>) THEN <<x>>[j] ELSE <<y>>[j - Len(<<x>>)]
    BY <1>1, ConcatProperties
  <2> HIDE DEF c
  <2> QED BY <1>1, <2>1
<1>4. t = c
  <2> HIDE DEF c, t
  <2>1. \A j \in 1..Len(t) : t[j] = c[j]
    BY <1>2, <1>3
  <2> QED BY <1>2, <1>3, <2>1, SeqEqual
<1>5. c \o s = <<x>> \o (<<y>> \o s)
  BY <1>1, ConcatAssociative
<1> QED BY <1>2, <1>4, <1>5 DEF Two

\* And so are three.
Three(S, x, y, z, s) ==
  <<x, y, z>> \in Seq(S) /\ <<x, y, z>> \o s = <<x>> \o (<<y>> \o (<<z>> \o s))

\* So they are.
LEMMA ThreeLines ==
  ASSUME NEW S, NEW x \in S, NEW y \in S, NEW z \in S, NEW s \in Seq(S)
  PROVE  Three(S, x, y, z, s)
<1> DEFINE u == <<y, z>>
           c == <<x>> \o u
           t == <<x, y, z>>
<1>1. /\ <<x>> \in Seq(S) /\ Len(<<x>>) = 1 /\ <<x>>[1] = x
      /\ u \in Seq(S) /\ Len(u) = 2 /\ u[1] = y /\ u[2] = z
  OBVIOUS
<1>2. t \in Seq(S) /\ Len(t) = 3 /\ t[1] = x /\ t[2] = y /\ t[3] = z
  OBVIOUS
<1>3. c \in Seq(S) /\ Len(c) = 3 /\ c[1] = x /\ c[2] = y /\ c[3] = z
  <2>1. /\ c \in Seq(S) /\ Len(c) = Len(<<x>>) + Len(u)
        /\ \A j \in 1..(Len(<<x>>) + Len(u)) : c[j] = IF j <= Len(<<x>>) THEN <<x>>[j] ELSE u[j - Len(<<x>>)]
    BY <1>1, ConcatProperties
  <2> HIDE DEF c, u
  <2> QED BY <1>1, <2>1
<1>4. t = c
  <2> HIDE DEF c, t
  <2>1. \A j \in 1..Len(t) : t[j] = c[j]
    BY <1>2, <1>3
  <2> QED BY <1>2, <1>3, <2>1, SeqEqual
<1>5. c \o s = <<x>> \o (u \o s)
  BY <1>1, ConcatAssociative
<1>6. u \o s = <<y>> \o (<<z>> \o s)
  BY TwoLines DEF Two
<1> QED BY <1>2, <1>4, <1>5, <1>6 DEF Three

\* It does not matter which of three parts are put together first.
Grouped(s, t, u) == (s \o t) \o u = s \o (t \o u)

\* So it is, for all sequences.
LEMMA Associates ==
  ASSUME NEW S, NEW s \in Seq(S), NEW t \in Seq(S), NEW u \in Seq(S)
  PROVE  Grouped(s, t, u)
BY ConcatAssociative, SMTT(30) DEF Grouped

\* Seven parts, read from the last.
Seven(a, b, c, d, e, f, g) ==
  a \o b \o c \o d \o e \o f \o g = a \o (b \o (c \o (d \o (e \o (f \o g)))))

\* So they may be.
LEMMA SevenParts ==
  ASSUME NEW S, NEW a \in Seq(S), NEW b \in Seq(S), NEW c \in Seq(S), NEW d \in Seq(S),
         NEW e \in Seq(S), NEW f \in Seq(S), NEW g \in Seq(S)
  PROVE  Seven(a, b, c, d, e, f, g)
<1> DEFINE l2 == a \o b
           l3 == l2 \o c
           l4 == l3 \o d
           l5 == l4 \o e
           r5 == f \o g
           r4 == e \o r5
           r3 == d \o r4
           r2 == c \o r3
<1> HIDE DEF l2, l3, l4, l5, r5, r4, r3, r2
<1>1. l2 \in Seq(S) /\ r5 \in Seq(S)
  BY ConcatProperties DEF l2, r5
<1>2. l3 \in Seq(S) /\ r4 \in Seq(S)
  BY <1>1, ConcatProperties DEF l3, r4
<1>3. l4 \in Seq(S) /\ r3 \in Seq(S)
  BY <1>2, ConcatProperties DEF l4, r3
<1>4. l5 \in Seq(S) /\ r2 \in Seq(S)
  BY <1>3, ConcatProperties DEF l5, r2
<1>5. /\ Grouped(l5, f, g) /\ Grouped(l4, e, r5) /\ Grouped(l3, d, r4)
      /\ Grouped(l2, c, r3) /\ Grouped(a, b, r2)
  BY <1>1, <1>2, <1>3, <1>4, Associates
<1> QED BY <1>5 DEF Seven, Grouped, l2, l3, l4, l5, r5, r4, r3, r2

\* String writes the fields one behind the other.
LEMMA RenderedWhole ==
  ASSUME NEW r, Fields(r)
  PROVE  Rendered(r) = Whole(BothFileFields(r)) /\ Fields(BothFileFields(r))
<1> DEFINE b == BothFileFields(r)
           W == Written(b)
           x1 == Line("StorePath", b.StorePath)
           x2 == Line("URL", b.URL)
           x3 == Line("Compression", b.Compression)
           y1 == Line("NarHash", HashText(b.NarHash))
           y2 == Line("NarSize", b.NarSize)
           y3 == Line("References", b.References)
           z1 == Line("FileHash", HashText(b.FileHash))
           z2 == Line("FileSize", b.FileSize)
           f == FileLines(b)
           d == Optional("Deriver", b.Deriver)
           s == Optional("System", b.System)
           g == SigLines(b)
           c == Optional("CA", b.CA)
<1>1. /\ Fields(b)
      /\ b.StorePath = r.StorePath /\ b.URL = r.URL /\ b.Compression = r.Compression
      /\ b.NarHash = r.NarHash /\ b.NarSize = r.NarSize /\ b.References = r.References
      /\ b.Deriver = r.Deriver /\ b.System = r.System /\ b.CA = r.CA /\ b.Signatures = r.Signatures
      /\ f = FileLines(r) /\ (f = << >> <=> b.FileHash = {}) /\ (f = << >> \/ f = <<z1, z2>>)
  <2>1. CASE r.FileHash # {} /\ r.FileSize # 0
    <3>1. b = r
      BY <2>1 DEF BothFileFields
    <3>2. f = <<z1, z2>>
      BY <2>1, <3>1 DEF FileLines, HashText
    <3>3. <<z1, z2>> # << >>
      OBVIOUS
    <3> HIDE DEF b, f, z1, z2
    <3> QED BY <2>1, <3>1, <3>2, <3>3 DEF f
  <2>2. CASE r.FileHash = {} \/ r.FileSize = 0
    <3>1. b = [r EXCEPT !.FileHash = {}, !.FileSize = 0]
      BY <2>2 DEF BothFileFields
    <3>2. b = [StorePath |-> r.StorePath, URL |-> r.URL, Compression |-> r.Compression,
               Deriver |-> r.Deriver, System |-> r.System, CA |-> r.CA,
               FileHash |-> {}, NarHash |-> r.NarHash, FileSize |-> 0, NarSize |-> r.NarSize,
               References |-> r.References, Signatures |-> r.Signatures]
      <4> HIDE DEF b
      <4> QED BY <3>1 DEF Fields
    <3> HIDE DEF b
    <3>3. /\ b.StorePath = r.StorePath /\ b.URL = r.URL /\ b.Compression = r.Compression
          /\ b.NarHash = r.NarHash /\ b.NarSize = r.NarSize /\ b.References = r.References
          /\ b.Deriver = r.Deriver /\ b.System = r.System /\ b.CA = r.CA /\ b.Signatures = r.Signatures
          /\ b.FileHash = {} /\ b.FileSize = 0
      BY <3>2
    <3>4. b = [StorePath |-> b.StorePath, URL |-> b.URL, Compression |-> b.Compression,
               Deriver |-> b.Deriver, System |-> b.System, CA |-> b.CA,
               FileHash |-> b.FileHash, NarHash |-> b.NarHash, FileSize |-> b.FileSize,
               NarSize |-> b.NarSize, References |-> b.References, Signatures |-> b.Signatures]
      BY <3>2, <3>3
    <3>5. b.FileSize # NotANumber /\ IsHash(b.FileHash)
      BY <3>3 DEF NotANumber, IsHash
    <3>6. Fields(b)
      BY <3>3, <3>4, <3>5 DEF Fields
    <3>7. f = << >> /\ FileLines(r) = << >>
      BY <2>2, <3>3 DEF FileLines
    <3> QED BY <3>3, <3>6, <3>7
  <2> QED BY <2>1, <2>2
<1>2. g = SigsFrom(b, 0)
  <2>1. DOMAIN b.Signatures = 1..Len(b.Signatures) /\ Len(b.Signatures) \in Nat
    BY <1>1, LenProperties DEF Fields
  <2> HIDE DEF b
  <2> QED BY <2>1 DEF SigLines, SigsFrom
<1>3. Rendered(r) = <<x1, x2, x3>> \o f \o <<y1, y2, y3>> \o d \o s \o g \o c
  <2> HIDE DEF b, f
  <2> QED BY <1>1 DEF Rendered, HashText, SigLines, f
<1> HIDE DEF b
<1>4. c = BehindSigs(b) /\ g \o c = BehindSystem(b) /\ s \o (g \o c) = BehindDeriver(b)
      /\ d \o (s \o (g \o c)) = BehindReferences(b)
  BY <1>2 DEF BehindSigs, BehindSystem, BehindDeriver, BehindReferences
<1>5. /\ BehindReferences(b) \in Seq(W) /\ BehindDeriver(b) \in Seq(W) /\ BehindSystem(b) \in Seq(W)
      /\ BehindSigs(b) \in Seq(W) /\ BehindFileSize(b) \in Seq(W) /\ BehindCompression(b) \in Seq(W)
      /\ g \in Seq(W)
  <2>1. 0 \in 0..Len(b.Signatures)
    BY <1>1, LenProperties DEF Fields
  <2> HIDE DEF W, g
  <2> QED BY <1>1, <1>2, <2>1, BehindLines DEF W
<1>6. /\ x1 \in W /\ x2 \in W /\ x3 \in W /\ y1 \in W /\ y2 \in W /\ y3 \in W /\ z1 \in W /\ z2 \in W
      /\ d \in Seq(W) /\ s \in Seq(W) /\ c \in Seq(W)
  BY WrittenLines
<1> HIDE DEF W, x1, x2, x3, y1, y2, y3, z1, z2, d, s, g, c, f
<1> DEFINE x == <<x1, x2, x3>>
           y == <<y1, y2, y3>>
           R == BehindReferences(b)
           C == BehindCompression(b)
           F == BehindFileSize(b)
<1>7. /\ x \in Seq(W) /\ x \o C = <<x1>> \o (<<x2>> \o (<<x3>> \o C))
      /\ y \in Seq(W) /\ y \o R = <<y1>> \o (<<y2>> \o (<<y3>> \o R))
      /\ <<z1, z2>> \in Seq(W) /\ <<z1, z2>> \o F = <<z1>> \o (<<z2>> \o F)
  <2>1. C \in Seq(W) /\ R \in Seq(W) /\ F \in Seq(W)
    BY <1>5
  <2> HIDE DEF C, R, F
  <2>2. x1 \in W /\ x2 \in W /\ x3 \in W
    BY <1>6
  <2>3. y1 \in W /\ y2 \in W /\ y3 \in W
    BY <1>6
  <2>4. z1 \in W /\ z2 \in W
    BY <1>6
  <2>5. Three(W, x1, x2, x3, C) /\ Three(W, y1, y2, y3, R)
    BY <2>1, <2>2, <2>3, ThreeLines
  <2>6. Two(W, z1, z2, F)
    BY <2>1, <2>4, TwoLines
  <2> QED BY <2>5, <2>6 DEF Two, Three
<1>8. << >> \in Seq(W)
  OBVIOUS
<1>9. f \in Seq(W)
  BY <1>1, <1>7, <1>8, Zenon
<1>10. x \o f \o y \o d \o s \o g \o c = x \o (f \o (y \o R))
  <2>1. x \in Seq(W) /\ y \in Seq(W) /\ f \in Seq(W) /\ d \in Seq(W) /\ s \in Seq(W) /\ g \in Seq(W)
        /\ c \in Seq(W)
    BY <1>5, <1>6, <1>7, <1>9
  <2> HIDE DEF x, y
  <2>2. Seven(x, f, y, d, s, g, c)
    BY <2>1, SevenParts
  <2> QED BY <1>4, <2>2 DEF Seven
<1>11. y \o R = F
  <2> HIDE DEF y
  <2> QED BY <1>7 DEF BehindFileSize, BehindNarHash, BehindNarSize, y1, y2, y3
<1>12. f \o F = C
  <2>1. CASE f = << >>
    <3>1. f \o F = F
      BY <1>5, <2>1, ConcatEmptySeq
    <3> QED BY <1>1, <2>1, <3>1 DEF BehindCompression
  <2>2. CASE f # << >>
    <3>1. f \o F = <<z1>> \o (<<z2>> \o F) /\ b.FileHash # {}
      BY <1>1, <1>7, <2>2
    <3> QED BY <3>1 DEF BehindCompression, BehindFileHash, z1, z2
  <2> QED BY <2>1, <2>2
<1>13. x \o C = Whole(b)
  <2> HIDE DEF x
  <2> QED BY <1>7 DEF Whole, BehindStorePath, BehindURL, x1, x2, x3
<1>14. Rendered(r) = Whole(b)
  <2> HIDE DEF x, y, R, C, F
  <2> QED BY <1>3, <1>10, <1>11, <1>12, <1>13 DEF x, y
<1> QED BY <1>1, <1>14 DEF b

----------------------------------------------------------------------------
\* A signature is the head of those that are left.
LEMMA NextSignature ==
  ASSUME NEW r, Fields(r), NEW m \in 0..Len(r.Signatures), m < Len(r.Signatures)
  PROVE  /\ SigsFrom(r, m) = <<Line("Sig", r.Signatures[m + 1])>> \o SigsFrom(r, m + 1)
         /\ Append(SubSeq(r.Signatures, 1, m), r.Signatures[m + 1]) = SubSeq(r.Signatures, 1, m + 1)
         /\ r.Signatures[m + 1] \in Accepted /\ m + 1 \in 0..Len(r.Signatures)
<1> DEFINE g == r.Signatures
           n == Len(g)
           W == Written(r)
           x == Line("Sig", g[m + 1])
           s == SigsFrom(r, m)
           t == SigsFrom(r, m + 1)
           c == <<x>> \o t
<1>1. n \in Nat /\ g \in Seq(Accepted) /\ m \in Nat /\ m + 1 \in 0..n /\ m + 1 \in 1..n
  BY LenProperties DEF Fields
<1>2. g[m + 1] \in Accepted
  BY <1>1, ElementOfSeq
<1>3. x \in W
  BY <1>2, WrittenLines
<1>4. s \in Seq(W) /\ t \in Seq(W)
  BY <1>1, BehindLines
<1>5. Len(s) = n - m /\ Len(t) = n - (m + 1)
  <2>1. n - m \in Nat /\ n - (m + 1) \in Nat
    BY <1>1
  <2> HIDE DEF g, n
  <2>2. DOMAIN SigsFrom(r, m) = 1..(n - m) /\ DOMAIN SigsFrom(r, m + 1) = 1..(n - (m + 1))
    BY DEF SigsFrom, n, g
  <2>3. DOMAIN s = 1..Len(s) /\ DOMAIN t = 1..Len(t) /\ Len(s) \in Nat /\ Len(t) \in Nat
    <3> HIDE DEF s, t
    <3> QED BY <1>4, LenProperties
  <2> HIDE DEF s, t
  <2> QED BY <2>1, <2>2, <2>3 DEF s, t
<1>6. \A k \in 1..(n - m) : s[k] = Line("Sig", g[m + k])
  BY DEF SigsFrom
<1>7. \A k \in 1..(n - (m + 1)) : t[k] = Line("Sig", g[(m + 1) + k])
  BY DEF SigsFrom
<1> HIDE DEF s, t
<1>8. c \in Seq(W) /\ Len(c) = 1 + Len(t)
      /\ \A k \in 1..(1 + Len(t)) : c[k] = IF k <= 1 THEN x ELSE t[k - 1]
  <2>1. <<x>> \in Seq(W) /\ Len(<<x>>) = 1 /\ <<x>>[1] = x
    BY <1>3
  <2> HIDE DEF x
  <2>2. c \in Seq(W) /\ Len(c) = Len(<<x>>) + Len(t)
        /\ \A k \in 1..(Len(<<x>>) + Len(t)) : c[k] = IF k <= Len(<<x>>) THEN <<x>>[k] ELSE t[k - Len(<<x>>)]
    BY <1>4, <2>1, ConcatProperties
  <2> HIDE DEF c
  <2>3. Len(t) \in Nat
    BY <1>1, <1>5
  <2> QED BY <2>1, <2>2, <2>3
<1>9. s = c
  <2> HIDE DEF c, n
  <2>1. Len(c) = Len(s)
    BY <1>1, <1>5, <1>8
  <2>2. \A k \in 1..Len(s) : s[k] = c[k]
    <3> TAKE k \in 1..Len(s)
    <3> HIDE DEF g, W
    <3>1. CASE k = 1
      BY <1>1, <1>5, <1>6, <1>8, <3>1
    <3>2. CASE k # 1
      <4>1. k - 1 \in 1..(n - (m + 1)) /\ k \in 1..(n - m) /\ k \in 1..(1 + Len(t)) /\ ~(k <= 1)
            /\ (m + 1) + (k - 1) = m + k
        BY <1>1, <1>5, <3>2
      <4> QED BY <1>6, <1>7, <1>8, <4>1
    <3> QED BY <3>1, <3>2
  <2> QED BY <1>4, <1>8, <2>1, <2>2, SeqEqual
<1>10. Append(SubSeq(g, 1, m), g[m + 1]) = SubSeq(g, 1, m + 1)
  BY <1>1
<1> QED BY <1>1, <1>2, <1>9, <1>10 DEF s, t, c, x

\* An optional line is there, or nothing of it.
LEMMA OptionalLine ==
  ASSUME NEW S, NEW k, NEW v, NEW s \in Seq(S)
  PROVE  Optional(k, v) \o s = IF v = Blank THEN s ELSE <<Line(k, v)>> \o s
<1>1. CASE v = Blank
  BY <1>1, ConcatEmptySeq DEF Optional
<1>2. CASE v # Blank
  BY <1>2 DEF Optional
<1> QED BY <1>1, <1>2

(***************************************************************************)
(* Behind the lines that are always there: the line that comes next, or    *)
(* none of them is left.                                                    *)
(***************************************************************************)
Settled(r, c, got, t) ==
  \/ got = Known(c, 8, 0) /\ r.Deriver # Blank /\ t = <<Line("Deriver", r.Deriver)>> \o BehindDeriver(r)
  \/ got = Known(c, 9, 0) /\ r.System # Blank /\ t = <<Line("System", r.System)>> \o BehindSystem(r)
  \/ \E m \in 0..Len(r.Signatures) :
       /\ m < Len(r.Signatures) /\ got = Known(c, 10, m)
       /\ t = <<Line("Sig", r.Signatures[m + 1])>> \o (SigsFrom(r, m + 1) \o BehindSigs(r))
  \/ got = Known(c, 10, Len(r.Signatures)) /\ r.CA # Blank /\ t = <<Line("CA", r.CA)>>
  \/ got = c /\ t = << >>

\* All of the fields, when all have been read.
LEMMA AllKnown ==
  ASSUME NEW r, Fields(r)
  PROVE  /\ Known(r, 11, Len(r.Signatures)) = r
         /\ r.CA = Blank => Known(r, 10, Len(r.Signatures)) = r
         /\ [Known(r, 10, Len(r.Signatures)) EXCEPT !["CA"] = r.CA] = r
<1>1. SubSeq(r.Signatures, 1, Len(r.Signatures)) = r.Signatures
  BY SubSeqFull DEF Fields
<1> QED BY <1>1, SMTT(30) DEF Known, Fields

\* What is read of each field.
LEMMA ReadParts ==
  ASSUME NEW r, NEW c, ReadsAs(r, c)
  PROVE  /\ Fields(r) /\ Fields(c)
         /\ c.StorePath = Chomp[r.StorePath] /\ c.URL = Chomp[r.URL]
         /\ c.Compression = Chomp[r.Compression] /\ c.Deriver = Chomp[r.Deriver]
         /\ c.System = Chomp[r.System] /\ c.CA = Chomp[r.CA]
         /\ c.FileHash = r.FileHash /\ c.NarHash = r.NarHash
         /\ c.FileSize = r.FileSize /\ c.NarSize = r.NarSize
         /\ c.References = LastChomped(r.References) /\ c.Signatures = r.Signatures
         /\ r.Deriver = Blank => c.Deriver = Blank
         /\ r.System = Blank => c.System = Blank
         /\ r.CA = Blank => c.CA = Blank
<1>1. /\ c.FileHash = r.FileHash /\ c.NarHash = r.NarHash
      /\ c.FileSize = r.FileSize /\ c.NarSize = r.NarSize /\ c.Signatures = r.Signatures
  BY DEF ReadsAs, HashKeys, SizeKeys
<1>2. /\ c.StorePath = Chomp[r.StorePath] /\ c.URL = Chomp[r.URL]
      /\ c.Compression = Chomp[r.Compression] /\ c.Deriver = Chomp[r.Deriver]
      /\ c.System = Chomp[r.System] /\ c.CA = Chomp[r.CA]
  BY DEF ReadsAs, TextKeys
<1> QED BY <1>1, <1>2, ChompAssumption DEF ReadsAs

\* Behind the last optional field before them are the signatures.
LEMMA SettledSigs ==
  ASSUME NEW r, NEW c, ReadsAs(r, c), NEW m \in 0..Len(r.Signatures), NEW got, NEW t,
         got = Known(c, 10, m), t = SigsFrom(r, m) \o BehindSigs(r)
  PROVE  Settled(r, c, got, t)
<1> DEFINE n == Len(r.Signatures)
           W == Written(r)
<1>1. n \in Nat
  BY LenProperties, ReadParts DEF Fields
<1>2. BehindSigs(r) \in Seq(W)
  BY BehindLines, ReadParts
<1>3. CASE m < n
  <2>1. /\ SigsFrom(r, m) = <<Line("Sig", r.Signatures[m + 1])>> \o SigsFrom(r, m + 1)
        /\ r.Signatures[m + 1] \in Accepted /\ m + 1 \in 0..n
    BY <1>3, NextSignature, ReadParts
  <2> DEFINE x == Line("Sig", r.Signatures[m + 1])
             s == SigsFrom(r, m + 1)
             b == BehindSigs(r)
  <2>2. x \in W
    BY <2>1, WrittenLines
  <2>3. s \in Seq(W)
    BY <2>1, BehindLines, ReadParts
  <2>4. Grouped(<<x>>, s, b)
    <3>1. <<x>> \in Seq(W)
      BY <2>2
    <3> HIDE DEF W, x, s, b
    <3> QED BY <1>2, <2>3, <3>1, Associates DEF b
  <2>5. t = <<x>> \o (s \o b)
    <3> HIDE DEF W, x, s, b
    <3> QED BY <2>1, <2>4 DEF Grouped, x, s, b
  <2> HIDE DEF W, x, s, b
  <2> QED BY <1>3, <2>5 DEF Settled, x, s, b
<1>4. CASE ~(m < n)
  <2>1. m = n
    BY <1>1, <1>4
  <2>2. SigsFrom(r, m) = << >>
    <3>1. 1..(n - m) = {}
      BY <1>1, <2>1
    <3>2. DOMAIN SigsFrom(r, m) = {}
      BY <3>1 DEF SigsFrom
    <3>3. SigsFrom(r, m) \in Seq(W)
      BY BehindLines, ReadParts
    <3> HIDE DEF W
    <3>4. Len(SigsFrom(r, m)) \in Nat /\ 1..Len(SigsFrom(r, m)) = {}
      BY <3>2, <3>3, LenProperties
    <3> QED BY <3>3, <3>4, EmptySeq, SMTT(30)
  <2>3. t = BehindSigs(r)
    <3> HIDE DEF W
    <3> QED BY <1>2, <2>2, ConcatEmptySeq
  <2>4. CASE r.CA = Blank
    <3>1. Known(c, 10, Len(c.Signatures)) = c /\ Len(c.Signatures) = n /\ t = << >>
      BY <2>3, <2>4, AllKnown, ReadParts DEF BehindSigs, Optional
    <3> QED BY <2>1, <3>1 DEF Settled
  <2>5. CASE r.CA # Blank
    BY <2>1, <2>3, <2>5, ReadParts DEF Settled, BehindSigs, Optional
  <2> QED BY <2>4, <2>5
<1> QED BY <1>3, <1>4

\* A narinfo of its fields.
Narinfo(storePath, url, compression, deriver, system, ca, fileHash, narHash, fileSize, narSize, refs, sigs) ==
  [StorePath |-> storePath, URL |-> url, Compression |-> compression,
   Deriver |-> deriver, System |-> system, CA |-> ca,
   FileHash |-> fileHash, NarHash |-> narHash, FileSize |-> fileSize, NarSize |-> narSize,
   References |-> refs, Signatures |-> sigs]

\* Reading a field makes it known.
LEMMA KnownNext ==
  ASSUME NEW r
  PROVE  /\ [Known(r, 0, 0) EXCEPT !["StorePath"] = r.StorePath] = Known(r, 1, 0)
         /\ [Known(r, 1, 0) EXCEPT !["URL"] = r.URL] = Known(r, 2, 0)
         /\ [Known(r, 2, 0) EXCEPT !["Compression"] = r.Compression] = Known(r, 3, 0)
         /\ [Known(r, 3, 0) EXCEPT !["FileHash"] = r.FileHash] = Known(r, 4, 0)
         /\ [Known(r, 4, 0) EXCEPT !["FileSize"] = r.FileSize] = Known(r, 5, 0)
         /\ [Known(r, 5, 0) EXCEPT !["NarHash"] = r.NarHash] = Known(r, 6, 0)
         /\ [Known(r, 6, 0) EXCEPT !["NarSize"] = r.NarSize] = Known(r, 7, 0)
         /\ [Known(r, 7, 0) EXCEPT !["References"] = r.References] = Known(r, 8, 0)
         /\ [Known(r, 8, 0) EXCEPT !["Deriver"] = r.Deriver] = Known(r, 9, 0)
         /\ [Known(r, 9, 0) EXCEPT !["System"] = r.System] = Known(r, 10, 0)
         /\ r.FileHash = {} /\ r.FileSize = 0 => Known(r, 3, 0) = Known(r, 5, 0)
         /\ r.Deriver = Blank => Known(r, 8, 0) = Known(r, 9, 0)
         /\ r.System = Blank => Known(r, 9, 0) = Known(r, 10, 0)
<1> DEFINE a == r.StorePath
           b == r.URL
           c == r.Compression
           d == r.Deriver
           e == r.System
           f == r.CA
           g == r.FileHash
           h == r.NarHash
           j == r.FileSize
           k == r.NarSize
           l == r.References
           m == SubSeq(r.Signatures, 1, 0)
           t == Blank
           u == {}
           v == 0
           w == << >>
<1>k0. Known(r, 0, 0) = Narinfo(t, t, t, t, t, t, u, u, v, v, w, m)
  BY DEF Known, Narinfo
<1>k1. Known(r, 1, 0) = Narinfo(a, t, t, t, t, t, u, u, v, v, w, m)
  BY DEF Known, Narinfo
<1>k2. Known(r, 2, 0) = Narinfo(a, b, t, t, t, t, u, u, v, v, w, m)
  BY DEF Known, Narinfo
<1>k3. Known(r, 3, 0) = Narinfo(a, b, c, t, t, t, u, u, v, v, w, m)
  BY DEF Known, Narinfo
<1>k4. Known(r, 4, 0) = Narinfo(a, b, c, t, t, t, g, u, v, v, w, m)
  BY DEF Known, Narinfo
<1>k5. Known(r, 5, 0) = Narinfo(a, b, c, t, t, t, g, u, j, v, w, m)
  BY DEF Known, Narinfo
<1>k6. Known(r, 6, 0) = Narinfo(a, b, c, t, t, t, g, h, j, v, w, m)
  BY DEF Known, Narinfo
<1>k7. Known(r, 7, 0) = Narinfo(a, b, c, t, t, t, g, h, j, k, w, m)
  BY DEF Known, Narinfo
<1>k8. Known(r, 8, 0) = Narinfo(a, b, c, t, t, t, g, h, j, k, l, m)
  BY DEF Known, Narinfo
<1>k9. Known(r, 9, 0) = Narinfo(a, b, c, d, t, t, g, h, j, k, l, m)
  BY DEF Known, Narinfo
<1>k10. Known(r, 10, 0) = Narinfo(a, b, c, d, e, t, g, h, j, k, l, m)
  BY DEF Known, Narinfo
<1> HIDE DEF a, b, c, d, e, f, g, h, j, k, l, m, t, u, v, w
<1>1. [Narinfo(t, t, t, t, t, t, u, u, v, v, w, m) EXCEPT !["StorePath"] = a]
      = Narinfo(a, t, t, t, t, t, u, u, v, v, w, m)
  BY DEF Narinfo
<1>2. [Narinfo(a, t, t, t, t, t, u, u, v, v, w, m) EXCEPT !["URL"] = b]
      = Narinfo(a, b, t, t, t, t, u, u, v, v, w, m)
  BY DEF Narinfo
<1>3. [Narinfo(a, b, t, t, t, t, u, u, v, v, w, m) EXCEPT !["Compression"] = c]
      = Narinfo(a, b, c, t, t, t, u, u, v, v, w, m)
  BY DEF Narinfo
<1>4. [Narinfo(a, b, c, t, t, t, u, u, v, v, w, m) EXCEPT !["FileHash"] = g]
      = Narinfo(a, b, c, t, t, t, g, u, v, v, w, m)
  BY DEF Narinfo
<1>5. [Narinfo(a, b, c, t, t, t, g, u, v, v, w, m) EXCEPT !["FileSize"] = j]
      = Narinfo(a, b, c, t, t, t, g, u, j, v, w, m)
  BY DEF Narinfo
<1>6. [Narinfo(a, b, c, t, t, t, g, u, j, v, w, m) EXCEPT !["NarHash"] = h]
      = Narinfo(a, b, c, t, t, t, g, h, j, v, w, m)
  BY DEF Narinfo
<1>7. [Narinfo(a, b, c, t, t, t, g, h, j, v, w, m) EXCEPT !["NarSize"] = k]
      = Narinfo(a, b, c, t, t, t, g, h, j, k, w, m)
  BY DEF Narinfo
<1>8. [Narinfo(a, b, c, t, t, t, g, h, j, k, w, m) EXCEPT !["References"] = l]
      = Narinfo(a, b, c, t, t, t, g, h, j, k, l, m)
  BY DEF Narinfo
<1>9. [Narinfo(a, b, c, t, t, t, g, h, j, k, l, m) EXCEPT !["Deriver"] = d]
      = Narinfo(a, b, c, d, t, t, g, h, j, k, l, m)
  BY DEF Narinfo
<1>10. [Narinfo(a, b, c, d, t, t, g, h, j, k, l, m) EXCEPT !["System"] = e]
      = Narinfo(a, b, c, d, e, t, g, h, j, k, l, m)
  BY DEF Narinfo
<1>11. r.FileHash = {} /\ r.FileSize = 0 => Known(r, 3, 0) = Known(r, 5, 0)
  BY <1>k3, <1>k5 DEF g, j, u, v
<1>12. r.Deriver = Blank => Known(r, 8, 0) = Known(r, 9, 0)
  BY <1>k8, <1>k9 DEF d, t
<1>13. r.System = Blank => Known(r, 9, 0) = Known(r, 10, 0)
  BY <1>k9, <1>k10 DEF e, t
<1>14. [Known(r, 0, 0) EXCEPT !["StorePath"] = r.StorePath] = Known(r, 1, 0)
  BY <1>k0, <1>k1, <1>1 DEF a
<1>15. [Known(r, 1, 0) EXCEPT !["URL"] = r.URL] = Known(r, 2, 0)
  BY <1>k1, <1>k2, <1>2 DEF b
<1>16. [Known(r, 2, 0) EXCEPT !["Compression"] = r.Compression] = Known(r, 3, 0)
  BY <1>k2, <1>k3, <1>3 DEF c
<1>17. [Known(r, 3, 0) EXCEPT !["FileHash"] = r.FileHash] = Known(r, 4, 0)
  BY <1>k3, <1>k4, <1>4 DEF g
<1>18. [Known(r, 4, 0) EXCEPT !["FileSize"] = r.FileSize] = Known(r, 5, 0)
  BY <1>k4, <1>k5, <1>5 DEF j
<1>19. [Known(r, 5, 0) EXCEPT !["NarHash"] = r.NarHash] = Known(r, 6, 0)
  BY <1>k5, <1>k6, <1>6 DEF h
<1>20. [Known(r, 6, 0) EXCEPT !["NarSize"] = r.NarSize] = Known(r, 7, 0)
  BY <1>k6, <1>k7, <1>7 DEF k
<1>21. [Known(r, 7, 0) EXCEPT !["References"] = r.References] = Known(r, 8, 0)
  BY <1>k7, <1>k8, <1>8 DEF l
<1>22. [Known(r, 8, 0) EXCEPT !["Deriver"] = r.Deriver] = Known(r, 9, 0)
  BY <1>k8, <1>k9, <1>9 DEF d
<1>23. [Known(r, 9, 0) EXCEPT !["System"] = r.System] = Known(r, 10, 0)
  BY <1>k9, <1>k10, <1>10 DEF e
<1> QED BY <1>11, <1>12, <1>13, <1>14, <1>15, <1>16, <1>17, <1>18, <1>19, <1>20, <1>21, <1>22, <1>23

\* Nothing is read of a field that was not written.
LEMMA SettledSystem ==
  ASSUME NEW r, NEW c, ReadsAs(r, c), NEW got, NEW t, got = Known(c, 9, 0), t = BehindDeriver(r)
  PROVE  Settled(r, c, got, t)
<1>1. BehindSystem(r) \in Seq(Written(r))
  BY BehindLines, ReadParts
<1>2. t = IF r.System = Blank THEN BehindSystem(r) ELSE <<Line("System", r.System)>> \o BehindSystem(r)
  BY <1>1, OptionalLine DEF BehindDeriver
<1>3. CASE r.System = Blank
  <2>1. got = Known(c, 10, 0)
    BY <1>3, ReadParts DEF Known
  <2>2. t = SigsFrom(r, 0) \o BehindSigs(r)
    BY <1>2, <1>3 DEF BehindSystem
  <2>3. 0 \in 0..Len(r.Signatures)
    BY LenProperties, ReadParts DEF Fields
  <2> QED BY <2>1, <2>2, <2>3, SettledSigs
<1>4. CASE r.System # Blank
  BY <1>2, <1>4 DEF Settled
<1> QED BY <1>3, <1>4

\* Nor here.
LEMMA SettledDeriver ==
  ASSUME NEW r, NEW c, ReadsAs(r, c), NEW got, NEW t, got = Known(c, 8, 0), t = BehindReferences(r)
  PROVE  Settled(r, c, got, t)
<1>1. BehindDeriver(r) \in Seq(Written(r))
  BY BehindLines, ReadParts
<1>2. t = IF r.Deriver = Blank THEN BehindDeriver(r) ELSE <<Line("Deriver", r.Deriver)>> \o BehindDeriver(r)
  BY <1>1, OptionalLine, SMTT(30) DEF BehindReferences
<1>3. CASE r.Deriver = Blank
  <2>1. got = Known(c, 9, 0)
    BY <1>3, ReadParts DEF Known
  <2> QED BY <1>2, <1>3, <2>1, SettledSystem
<1>4. CASE r.Deriver # Blank
  BY <1>2, <1>4 DEF Settled
<1> QED BY <1>3, <1>4

\* A parse that has halfway read a file is before a line that is always
\* there, or settled.
LEMMA Halfways ==
  ASSUME NEW r, NEW c, Renderable(r), ReadsAs(r, c), NEW got, NEW t, Halfway(r, c, got, t)
  PROVE  \/ got = Known(c, 0, 0) /\ t = Whole(r)
         \/ got = Known(c, 1, 0) /\ t = BehindStorePath(r)
         \/ got = Known(c, 2, 0) /\ t = BehindURL(r)
         \/ /\ got = Known(c, 3, 0) /\ r.FileHash # {}
            /\ t = <<Line("FileHash", HashText(r.FileHash))>> \o BehindFileHash(r)
         \/ got = Known(c, 4, 0) /\ t = BehindFileHash(r) /\ r.FileHash # {}
         \/ got = Known(c, 5, 0) /\ t = BehindFileSize(r)
         \/ got = Known(c, 6, 0) /\ t = BehindNarHash(r)
         \/ got = Known(c, 7, 0) /\ t = BehindNarSize(r)
         \/ Settled(r, c, got, t)
<1>1. CASE got = Known(c, 3, 0) /\ t = BehindCompression(r)
  <2>1. CASE r.FileHash = {}
    <3>1. got = Known(c, 5, 0)
      BY <1>1, <2>1, KnownNext, ReadParts DEF Renderable
    <3> QED BY <1>1, <2>1, <3>1 DEF BehindCompression
  <2>2. CASE r.FileHash # {}
    BY <1>1, <2>2 DEF BehindCompression
  <2> QED BY <2>1, <2>2
<1>2. CASE got = Known(c, 8, 0) /\ t = BehindReferences(r)
  BY <1>2, SettledDeriver
<1>3. CASE got = Known(c, 9, 0) /\ t = BehindDeriver(r)
  BY <1>3, SettledSystem
<1>4. CASE \E m \in 0..Len(r.Signatures) : got = Known(c, 10, m) /\ t = SigsFrom(r, m) \o BehindSigs(r)
  BY <1>4, SettledSigs
<1>5. CASE got = c /\ t = << >>
  BY <1>5 DEF Settled
<1> QED BY <1>1, <1>2, <1>3, <1>4, <1>5 DEF Halfway

\* The line that is read, and what is behind it.
LEMMA HeadRead ==
  ASSUME NEW S, NEW x \in S, NEW s \in Seq(S), text = <<x>> \o s,
         ReadLine(Scanned(Head(text))), text' = Tail(text)
  PROVE  ReadLine(Scanned(x)) /\ text' = s
BY Reading

\* A hash, where its line comes.
LEMMA HalfwayHash ==
  ASSUME NEW r, Fields(r), NEW k \in HashKeys, r[k] # {}, ReadLine(Scanned(Line(k, HashText(r[k]))))
  PROVE  \/ info' = [info EXCEPT ![k] = r[k]] /\ status' = status
         \/ status' = "failed" /\ Refused(r)
<1>1. IsHash(r[k])
  BY DEF Fields, HashKeys
<1> DEFINE v == HashText(r[k])
<1>2. PICK h \in r[k] : r[k] = {h} /\ ParseAny(v, {}) = IF Shortened(h) THEN {} ELSE r[k]
  BY <1>1, FormattedHash
<1> HIDE DEF v
<1>3. IF ParseAny(v, {}) = {} THEN Fail
      ELSE info' = [info EXCEPT ![k] = ParseAny(v, {})] /\ status' = status
  BY HashRead DEF v
<1>4. CASE Shortened(h)
  BY <1>2, <1>3, <1>4 DEF Fail, Refused
<1>5. CASE ~Shortened(h)
  BY <1>2, <1>3, <1>5
<1> QED BY <1>4, <1>5

(***************************************************************************)
(* Every line that String has written gives the field it was written from, *)
(* or is refused: a hash that has become shorter, or references that do    *)
(* not fit in a line.                                                      *)
(***************************************************************************)
LEMMA HalfwayRead ==
  ASSUME NEW r, NEW c, Renderable(r), ReadsAs(r, c), Halfway(r, c, info, text), text # << >>,
         ReadLine(Scanned(Head(text))), text' = Tail(text)
  PROVE  \/ Halfway(r, c, info', text') /\ status' = status
         \/ status' = "failed" /\ Refused(r)
<1> DEFINE W == Written(r)
<1>1. Fields(r) /\ r.Compression # Blank /\ r.NarHash # {} /\ (r.FileHash = {} <=> r.FileSize = 0)
  BY DEF Renderable
<1>0. /\ Fields(c)
      /\ c.StorePath = Chomp[r.StorePath] /\ c.URL = Chomp[r.URL]
      /\ c.Compression = Chomp[r.Compression] /\ c.Deriver = Chomp[r.Deriver]
      /\ c.System = Chomp[r.System] /\ c.CA = Chomp[r.CA]
      /\ c.FileHash = r.FileHash /\ c.NarHash = r.NarHash
      /\ c.FileSize = r.FileSize /\ c.NarSize = r.NarSize
      /\ c.References = LastChomped(r.References) /\ c.Signatures = r.Signatures
  BY ReadParts
<1>2. /\ Line("StorePath", r.StorePath) \in W /\ Line("URL", r.URL) \in W
      /\ Line("Compression", r.Compression) \in W /\ Line("Deriver", r.Deriver) \in W
      /\ Line("System", r.System) \in W /\ Line("CA", r.CA) \in W
      /\ Line("FileSize", r.FileSize) \in W /\ Line("NarSize", r.NarSize) \in W
      /\ Line("References", r.References) \in W
      /\ Line("FileHash", HashText(r.FileHash)) \in W /\ Line("NarHash", HashText(r.NarHash)) \in W
      /\ \A s \in Accepted : Line("Sig", s) \in W
  BY WrittenLines
<1>3. /\ BehindSigs(r) \in Seq(W) /\ BehindSystem(r) \in Seq(W) /\ BehindDeriver(r) \in Seq(W)
      /\ BehindReferences(r) \in Seq(W) /\ BehindNarSize(r) \in Seq(W) /\ BehindNarHash(r) \in Seq(W)
      /\ BehindFileSize(r) \in Seq(W) /\ BehindFileHash(r) \in Seq(W) /\ BehindCompression(r) \in Seq(W)
      /\ BehindURL(r) \in Seq(W) /\ BehindStorePath(r) \in Seq(W)
      /\ \A m \in 0..Len(r.Signatures) : SigsFrom(r, m) \in Seq(W)
  BY <1>1, BehindLines
<1> HIDE DEF W
<1>4. CASE info = Known(c, 0, 0) /\ text = Whole(r)
  <2>1. ReadLine(Scanned(Line("StorePath", r.StorePath))) /\ text' = BehindStorePath(r)
    BY <1>2, <1>3, <1>4, HeadRead DEF Whole
  <2>2. info' = [info EXCEPT !["StorePath"] = c.StorePath] /\ status' = status
    BY <1>0, <2>1, TextRead DEF TextKeys
  <2>3. info' = Known(c, 1, 0)
    BY <1>4, <2>2, KnownNext
  <2> QED BY <2>1, <2>2, <2>3 DEF Halfway
<1>5. CASE info = Known(c, 1, 0) /\ text = BehindStorePath(r)
  <2>1. ReadLine(Scanned(Line("URL", r.URL))) /\ text' = BehindURL(r)
    BY <1>2, <1>3, <1>5, HeadRead DEF BehindStorePath
  <2>2. info' = [info EXCEPT !["URL"] = c.URL] /\ status' = status
    BY <1>0, <2>1, TextRead DEF TextKeys
  <2>3. info' = Known(c, 2, 0)
    BY <1>5, <2>2, KnownNext
  <2> QED BY <2>1, <2>2, <2>3 DEF Halfway
<1>6. CASE info = Known(c, 2, 0) /\ text = BehindURL(r)
  <2>1. ReadLine(Scanned(Line("Compression", r.Compression))) /\ text' = BehindCompression(r)
    BY <1>2, <1>3, <1>6, HeadRead DEF BehindURL
  <2>2. info' = [info EXCEPT !["Compression"] = c.Compression] /\ status' = status
    BY <1>0, <2>1, TextRead DEF TextKeys
  <2>3. info' = Known(c, 3, 0)
    BY <1>6, <2>2, KnownNext, SMTT(30)
  <2> QED BY <2>1, <2>2, <2>3 DEF Halfway
<1>7. CASE /\ info = Known(c, 3, 0) /\ r.FileHash # {}
           /\ text = <<Line("FileHash", HashText(r.FileHash))>> \o BehindFileHash(r)
  <2>1. ReadLine(Scanned(Line("FileHash", HashText(r.FileHash)))) /\ text' = BehindFileHash(r)
    BY <1>2, <1>3, <1>7, HeadRead
  <2>2. \/ info' = [info EXCEPT !["FileHash"] = c.FileHash] /\ status' = status
        \/ status' = "failed" /\ Refused(r)
    BY <1>0, <1>1, <1>7, <2>1, HalfwayHash DEF HashKeys
  <2>3. info' = [info EXCEPT !["FileHash"] = c.FileHash] => info' = Known(c, 4, 0)
    BY <1>7, KnownNext
  <2> QED BY <1>7, <2>1, <2>2, <2>3, Zenon DEF Halfway
<1>8. CASE info = Known(c, 4, 0) /\ text = BehindFileHash(r) /\ r.FileHash # {}
  <2>1. ReadLine(Scanned(Line("FileSize", r.FileSize))) /\ text' = BehindFileSize(r)
    BY <1>2, <1>3, <1>8, HeadRead DEF BehindFileHash
  <2>2. info' = [info EXCEPT !["FileSize"] = c.FileSize] /\ status' = status
    BY <1>0, <1>1, <2>1, SizeRead DEF SizeKeys, Fields
  <2>3. info' = Known(c, 5, 0)
    BY <1>8, <2>2, KnownNext
  <2> QED BY <2>1, <2>2, <2>3 DEF Halfway
<1>9. CASE info = Known(c, 5, 0) /\ text = BehindFileSize(r)
  <2>1. ReadLine(Scanned(Line("NarHash", HashText(r.NarHash)))) /\ text' = BehindNarHash(r)
    BY <1>2, <1>3, <1>9, HeadRead DEF BehindFileSize
  <2>2. \/ info' = [info EXCEPT !["NarHash"] = c.NarHash] /\ status' = status
        \/ status' = "failed" /\ Refused(r)
    BY <1>0, <1>1, <2>1, HalfwayHash DEF HashKeys
  <2>3. info' = [info EXCEPT !["NarHash"] = c.NarHash] => info' = Known(c, 6, 0)
    BY <1>9, KnownNext
  <2> QED BY <2>1, <2>2, <2>3 DEF Halfway
<1>10. CASE info = Known(c, 6, 0) /\ text = BehindNarHash(r)
  <2>1. ReadLine(Scanned(Line("NarSize", r.NarSize))) /\ text' = BehindNarSize(r)
    BY <1>2, <1>3, <1>10, HeadRead DEF BehindNarHash
  <2>2. info' = [info EXCEPT !["NarSize"] = c.NarSize] /\ status' = status
    BY <1>0, <1>1, <2>1, SizeRead DEF SizeKeys, Fields
  <2>3. info' = Known(c, 7, 0)
    BY <1>10, <2>2, KnownNext
  <2> QED BY <2>1, <2>2, <2>3 DEF Halfway
<1>11. CASE info = Known(c, 7, 0) /\ text = BehindNarSize(r)
  <2>1. ReadLine(Scanned(Line("References", r.References))) /\ text' = BehindReferences(r)
    BY <1>2, <1>3, <1>11, HeadRead DEF BehindNarSize
  <2>2. IF Len(c.References) > MaxRefs THEN Fail
        ELSE info' = [info EXCEPT !["References"] = info.References \o c.References] /\ status' = status
    BY <1>0, <2>1, ReferencesRead
  <2>3. info.References \o c.References = c.References
    BY <1>0, <1>11, ConcatEmptySeq DEF Known, Fields
  <2>4. [info EXCEPT !["References"] = c.References] = Known(c, 8, 0)
    BY <1>11, KnownNext
  <2>5. Len(c.References) > MaxRefs => Len(r.References) > MaxRefs
    <3>1. /\ r.References \in Seq(Texts) /\ c.References = LastChomped(r.References)
          /\ Len(r.References) \in Nat
      BY <1>0, <1>1, LenProperties DEF Fields
    <3>2. Len(c.References) \in Nat /\ Len(c.References) <= Len(r.References)
      BY <3>1, ChompedList, LenProperties
    <3> QED BY <3>1, <3>2, BoundAssumption
  <2> QED BY <2>1, <2>2, <2>3, <2>4, <2>5 DEF Halfway, Fail, Refused
<1>12. CASE Settled(r, c, info, text)
  <2>1. CASE info = Known(c, 8, 0) /\ text = <<Line("Deriver", r.Deriver)>> \o BehindDeriver(r)
    <3>1. ReadLine(Scanned(Line("Deriver", r.Deriver))) /\ text' = BehindDeriver(r)
      BY <1>2, <1>3, <2>1, HeadRead
    <3>2. info' = [info EXCEPT !["Deriver"] = c.Deriver] /\ status' = status
      BY <1>0, <3>1, TextRead DEF TextKeys
    <3>3. info' = Known(c, 9, 0)
      BY <2>1, <3>2, KnownNext
    <3> QED BY <3>1, <3>2, <3>3 DEF Halfway
  <2>2. CASE info = Known(c, 9, 0) /\ text = <<Line("System", r.System)>> \o BehindSystem(r)
    <3>1. ReadLine(Scanned(Line("System", r.System))) /\ text' = BehindSystem(r)
      BY <1>2, <1>3, <2>2, HeadRead
    <3>2. info' = [info EXCEPT !["System"] = c.System] /\ status' = status
      BY <1>0, <3>1, TextRead DEF TextKeys
    <3>3. info' = Known(c, 10, 0)
      BY <2>2, <3>2, KnownNext
    <3>4. 0 \in 0..Len(r.Signatures)
      BY <1>1, LenProperties DEF Fields
    <3> QED BY <3>1, <3>2, <3>3, <3>4 DEF Halfway, BehindSystem
  <2>3. ASSUME NEW m \in 0..Len(r.Signatures), m < Len(r.Signatures), info = Known(c, 10, m),
               text = <<Line("Sig", r.Signatures[m + 1])>> \o (SigsFrom(r, m + 1) \o BehindSigs(r))
        PROVE  Halfway(r, c, info', text') /\ status' = status
    <3> DEFINE x == Line("Sig", r.Signatures[m + 1])
               s == SigsFrom(r, m + 1) \o BehindSigs(r)
    <3>1. /\ Append(SubSeq(r.Signatures, 1, m), r.Signatures[m + 1]) = SubSeq(r.Signatures, 1, m + 1)
          /\ r.Signatures[m + 1] \in Accepted /\ m + 1 \in 0..Len(r.Signatures)
      BY <1>1, <2>3, NextSignature
    <3>2. s \in Seq(W)
      BY <1>3, <3>1, ConcatProperties
    <3>3. x \in W
      BY <1>2, <3>1
    <3>4. ReadLine(Scanned(x)) /\ text' = s
      <4> HIDE DEF x, s
      <4>1. text = <<x>> \o s
        BY <2>3 DEF x, s
      <4> QED BY <3>2, <3>3, <4>1, HeadRead
    <3>5. info' = [info EXCEPT !["Signatures"] = Append(info.Signatures, r.Signatures[m + 1])]
          /\ status' = status
      BY <3>1, <3>4, SigRead DEF Accepted
    <3>6. info.Signatures = SubSeq(r.Signatures, 1, m)
      BY <1>0, <2>3 DEF Known
    <3>7. info' = [info EXCEPT !["Signatures"] = SubSeq(c.Signatures, 1, m + 1)]
      BY <1>0, <3>1, <3>5, <3>6
    <3>8. info' = Known(c, 10, m + 1)
      BY <2>3, <3>7 DEF Known
    <3> QED BY <3>1, <3>4, <3>5, <3>8 DEF Halfway
  <2>4. CASE info = Known(c, 10, Len(r.Signatures)) /\ text = <<Line("CA", r.CA)>>
    <3>1. ReadLine(Scanned(Line("CA", r.CA))) /\ text' = << >>
      BY <2>4
    <3>2. info' = [info EXCEPT !["CA"] = c.CA] /\ status' = status
      BY <1>0, <3>1, TextRead DEF TextKeys
    <3>3. info' = c
      BY <1>0, <2>4, <3>2, AllKnown
    <3> QED BY <3>1, <3>2, <3>3 DEF Halfway
  <2> QED BY <1>12, <2>1, <2>2, <2>3, <2>4 DEF Settled
<1> QED BY <1>4, <1>5, <1>6, <1>7, <1>8, <1>9, <1>10, <1>11, <1>12, Halfways

\* Nothing is left when all has been read.
LEMMA HalfwayEnd ==
  ASSUME NEW r, NEW c, Renderable(r), ReadsAs(r, c), Halfway(r, c, info, text), text = << >>
  PROVE  info = c
<1>1. Fields(r)
  BY DEF Renderable
<1>2. /\ Whole(r) # << >> /\ BehindStorePath(r) # << >> /\ BehindURL(r) # << >>
      /\ <<Line("FileHash", HashText(r.FileHash))>> \o BehindFileHash(r) # << >>
      /\ BehindFileHash(r) # << >> /\ BehindFileSize(r) # << >> /\ BehindNarHash(r) # << >>
      /\ BehindNarSize(r) # << >>
      /\ <<Line("Deriver", r.Deriver)>> \o BehindDeriver(r) # << >>
      /\ <<Line("System", r.System)>> \o BehindSystem(r) # << >>
      /\ <<Line("CA", r.CA)>> # << >>
  BY <1>1, WrittenLines, BehindLines, Reading
  DEF Whole, BehindStorePath, BehindURL, BehindFileHash, BehindFileSize, BehindNarHash, BehindNarSize
<1>3. ASSUME NEW m \in 0..Len(r.Signatures), m < Len(r.Signatures)
      PROVE  <<Line("Sig", r.Signatures[m + 1])>> \o (SigsFrom(r, m + 1) \o BehindSigs(r)) # << >>
  <2> DEFINE W == Written(r)
             x == Line("Sig", r.Signatures[m + 1])
             s == SigsFrom(r, m + 1) \o BehindSigs(r)
  <2>1. r.Signatures[m + 1] \in Accepted /\ m + 1 \in 0..Len(r.Signatures)
    BY <1>1, <1>3, NextSignature
  <2>2. x \in W
    BY <2>1, WrittenLines
  <2>3. s \in Seq(W)
    BY <1>1, <2>1, BehindLines, ConcatProperties
  <2> HIDE DEF x, s, W
  <2>4. <<x>> \o s # << >>
    BY <2>2, <2>3, Reading
  <2> QED BY <2>4 DEF x, s
<1> QED BY <1>2, <1>3, Halfways DEF Settled

----------------------------------------------------------------------------
\* What String leaves out, and what it does not.
LEMMA BothFields ==
  ASSUME NEW r, Fields(r)
  PROVE  LET b == BothFileFields(r) IN
         /\ r.Compression # Blank /\ r.NarHash # {} => Renderable(b)
         /\ Refused(b) => Refused(r)
         /\ ReadsAs(b, Chomped(b))
<1> DEFINE b == BothFileFields(r)
<1>1. Fields(b)
  BY RenderedWhole
<1>2. /\ b.Compression = r.Compression /\ b.NarHash = r.NarHash /\ b.References = r.References
      /\ b.FileHash = {} <=> b.FileSize = 0
      /\ b.FileHash \in {r.FileHash, {}}
  <2>1. CASE r.FileHash # {} /\ r.FileSize # 0
    BY <2>1 DEF BothFileFields
  <2>2. CASE r.FileHash = {} \/ r.FileSize = 0
    <3>1. b = [r EXCEPT !.FileHash = {}, !.FileSize = 0]
      BY <2>2 DEF BothFileFields
    <3> HIDE DEF b
    <3> QED BY <3>1 DEF Fields
  <2> QED BY <2>1, <2>2
<1> HIDE DEF b
<1>3. r.Compression # Blank /\ r.NarHash # {} => Renderable(b)
  BY <1>1, <1>2 DEF Renderable
<1>4. Refused(b) => Refused(r)
  BY <1>2 DEF Refused, HashKeys
<1>5. ReadsAs(b, Chomped(b))
  <2> DEFINE c == Chomped(b)
             w == LastChomped(b.References)
  <2>1. w \in Seq(Texts)
    BY <1>1, ChompedList DEF Fields
  <2> HIDE DEF w
  <2>2. c = [b EXCEPT !.StorePath = Chomp[@], !.URL = Chomp[@], !.Compression = Chomp[@],
                      !.Deriver = Chomp[@], !.System = Chomp[@], !.CA = Chomp[@],
                      !.References = w]
    BY DEF Chomped, w
  <2>3. c = Narinfo(Chomp[b.StorePath], Chomp[b.URL], Chomp[b.Compression], Chomp[b.Deriver],
                    Chomp[b.System], Chomp[b.CA], b.FileHash, b.NarHash, b.FileSize, b.NarSize,
                    w, b.Signatures)
    BY <1>1, <2>2 DEF Fields, Narinfo
  <2> HIDE DEF c
  <2>4. Fields(c)
    BY <1>1, <2>1, <2>3 DEF Fields, Narinfo
  <2>5. \A k \in TextKeys : c[k] = Chomp[b[k]]
    BY <2>3 DEF Narinfo, TextKeys
  <2>6. \A k \in HashKeys \cup SizeKeys \cup {"Signatures"} : c[k] = b[k]
    BY <2>3 DEF Narinfo, HashKeys, SizeKeys
  <2>7. c.References = w
    BY <2>3 DEF Narinfo
  <2> QED BY <1>1, <2>4, <2>5, <2>6, <2>7 DEF ReadsAs, c, w
<1> QED BY <1>3, <1>4, <1>5 DEF b

\* A line does not end a parse, but for an error.
LEMMA StatusRead ==
  ASSUME NEW l, ReadLine(l)
  PROVE  status' \in {status, "failed", "panicked"}
BY DEF ReadLine, BlankLine, OddLine, TextLine, HashLine, SizeLine, ReferencesLine, SigLine, Set, Fail

\* The invariant at first.
LEMMA InitInfo == InfoInit => InfoInv
<1> SUFFICES ASSUME InfoInit PROVE InfoInv
  OBVIOUS
<1>1. pass = 1 /\ info = Empty /\ status = "parsing" /\ verdict = "none" /\ text \in Seq(FileLine)
  BY LineAssumption DEF InfoInit
<1>2. Fields(info)
  BY <1>1, EmptyFields
<1> QED BY <1>1, <1>2 DEF InfoInv

\* The parse of a file of the cache.
LEMMA FirstPassInv ==
  ASSUME InfoInv, pass = 1, KnownLine \/ AnyLine
  PROVE  InfoInv'
<1>1. status = "parsing" /\ verdict = "none" /\ Fields(info) /\ text \in Seq(FileLine)
  BY DEF InfoInv, KnownLine, AnyLine
<1>2. pass' = 1 /\ verdict' = "none"
  BY <1>1 DEF KnownLine, AnyLine
<1>3. PICK l \in FileLine : ReadLine(Scanned(l)) /\ text' \in Seq(FileLine)
  <2>1. CASE KnownLine
    BY <1>1, <2>1, HeadTailProperties DEF KnownLine
  <2>2. CASE AnyLine
    BY <1>1, <2>2 DEF AnyLine
  <2> QED BY <2>1, <2>2
<1>4. Fields(info')
  BY <1>1, <1>3, FieldsRead
<1>5. status' # "parsed"
  BY <1>1, <1>3, StatusRead
<1> QED BY <1>2, <1>3, <1>4, <1>5 DEF InfoInv

\* The parse of what String has written.
LEMMA SecondPassInv ==
  ASSUME InfoInv, pass = 2, KnownLine
  PROVE  InfoInv'
<1> DEFINE r == BothFileFields(first)
           c == Chomped(r)
<1>1. Fields(first) /\ first.Compression # Blank /\ first.NarHash # {} /\ Halfway(r, c, info, text)
  BY DEF InfoInv, Reread, KnownLine
<1>2. Renderable(r) /\ ReadsAs(r, c)
  BY <1>1, BothFields
<1>3. /\ text # << >> /\ ReadLine(Scanned(Head(text))) /\ text' = Tail(text) /\ status = "parsing"
      /\ pass' = 2 /\ first' = first /\ verdict' = verdict
  BY DEF KnownLine
<1>4. \/ Halfway(r, c, info', text') /\ status' = status
      \/ status' = "failed" /\ Refused(r)
  <2> HIDE DEF r, c
  <2> QED BY <1>1, <1>2, <1>3, HalfwayRead
<1>5. Reread'
  BY <1>3, <1>4 DEF Reread
<1> QED BY <1>1, <1>3, <1>5 DEF InfoInv

\* The end of a file.
LEMMA EndInv ==
  ASSUME InfoInv, End
  PROVE  InfoInv'
<1>1. /\ status = "parsing" /\ text = << >>
      /\ pass' = pass /\ text' = text /\ first' = first /\ verdict' = verdict
      /\ \/ /\ status' = "parsed"
            /\ info' = Defaulted(info)
         \/ pass = 1 /\ status' = "failed" /\ info' = info
  BY DEF End, Fail
<1>2. CASE pass = 1
  <2>1. Fields(info) /\ verdict = "none" /\ text \in Seq(FileLine)
    BY <1>1, <1>2 DEF InfoInv
  <2>2. Fields(info') /\ (status' = "parsed" => info'.Compression # Blank)
    <3>1. CASE info' = info /\ status' = "failed"
      BY <2>1, <3>1
    <3>2. CASE info' = Defaulted(info)
      <4> DEFINE c == IF info.Compression = Blank THEN "bzip2" ELSE info.Compression
      <4>1. c # Blank
        BY NotBlank
      <4> HIDE DEF c
      <4>2. info' = [info EXCEPT !.Compression = c]
        BY <3>2 DEF c, Defaulted
      <4> QED BY <2>1, <4>1, <4>2 DEF Fields
    <3> QED BY <1>1, <3>1, <3>2
  <2> QED BY <1>1, <1>2, <2>1, <2>2 DEF InfoInv
<1>3. CASE pass # 1
  <2> DEFINE r == BothFileFields(first)
             c == Chomped(r)
  <2>1. /\ pass = 2 /\ Fields(first) /\ first.Compression # Blank /\ first.NarHash # {}
        /\ Halfway(r, c, info, text)
    BY <1>1, <1>3 DEF InfoInv, Reread
  <2>2. Renderable(r) /\ ReadsAs(r, c)
    BY <2>1, BothFields
  <2>3. info = c
    <3> HIDE DEF r, c
    <3> QED BY <1>1, <2>1, <2>2, HalfwayEnd
  <2>4. info' = Defaulted(c) /\ status' = "parsed"
    BY <1>1, <1>3, <2>3
  <2>5. Reread'
    BY <1>1, <2>4 DEF Reread
  <2> QED BY <1>1, <2>1, <2>5 DEF InfoInv
<1> QED BY <1>2, <1>3

\* A verdict leaves all else as it is.
LEMMA CheckInv ==
  ASSUME InfoInv, Check
  PROVE  InfoInv'
BY DEF InfoInv, Check

\* String writes the file that the second pass reads.
LEMMA StringInv ==
  ASSUME InfoInv, String
  PROVE  InfoInv'
<1>1. /\ status = "parsed" /\ pass = 1 /\ Fields(info) /\ info.Compression # Blank /\ verdict' = verdict
      /\ text \in Seq(FileLine)
  BY DEF InfoInv, String
<1>2. CASE info.NarHash = {}
  <2>1. status' = "panicked" /\ UNCHANGED <<pass, text, info, first>>
    BY <1>2 DEF String
  <2> QED BY <1>1, <2>1 DEF InfoInv
<1>3. CASE info.NarHash # {}
  <2> DEFINE r == BothFileFields(info)
             c == Chomped(r)
  <2>1. text' = Rendered(info) /\ pass' = 2 /\ status' = "parsing" /\ first' = info /\ info' = Empty
    BY <1>3 DEF String
  <2>2. text' = Whole(r)
    BY <1>1, <2>1, RenderedWhole
  <2>3. Empty = Known(c, 0, 0)
    <3> HIDE DEF c
    <3>1. SubSeq(c.Signatures, 1, 0) = << >>
      BY SubSeqEmpty
    <3> DEFINE v == SubSeq(c.Signatures, 1, 0)
               w == << >>
    <3>2. Known(c, 0, 0) = Narinfo(Blank, Blank, Blank, Blank, Blank, Blank, {}, {}, 0, 0, w, v)
      BY DEF Known, Narinfo
    <3>3. Empty = Narinfo(Blank, Blank, Blank, Blank, Blank, Blank, {}, {}, 0, 0, w, w)
      BY DEF Empty, Narinfo
    <3> QED BY <3>1, <3>2, <3>3
  <2>4. Halfway(r, c, info', text')
    <3> HIDE DEF r, c
    <3> QED BY <2>1, <2>2, <2>3 DEF Halfway
  <2>5. Reread'
    BY <2>1, <2>4 DEF Reread
  <2> QED BY <1>1, <1>3, <2>1, <2>5 DEF InfoInv
<1> QED BY <1>2, <1>3

\* Every step keeps the invariant.
LEMMA NextInfo == InfoInv /\ [InfoNext]_infoVars => InfoInv'
<1> SUFFICES ASSUME InfoInv, [InfoNext]_infoVars PROVE InfoInv'
  OBVIOUS
<1>1. CASE KnownLine
  <2>1. pass \in {1, 2}
    BY DEF InfoInv
  <2> QED BY <1>1, <2>1, FirstPassInv, SecondPassInv
<1>2. CASE AnyLine
  BY <1>2, FirstPassInv DEF AnyLine
<1>3. CASE End
  BY <1>3, EndInv
<1>4. CASE Check
  BY <1>4, CheckInv
<1>5. CASE String
  BY <1>5, StringInv
<1>6. CASE UNCHANGED infoVars
  BY <1>6 DEF infoVars, InfoInv, Reread
<1> QED BY <1>1, <1>2, <1>3, <1>4, <1>5, <1>6 DEF InfoNext

(***************************************************************************)
(* The invariant holds of every narinfo and of every number of lines       *)
(* (parser.go:15-105, check.go:10-49, types.go:43-89).                      *)
(***************************************************************************)
THEOREM InfoInvariance == InfoSpec => []InfoInv
BY InitInfo, NextInfo, PTL DEF InfoSpec

(***************************************************************************)
(* What String writes of whatever narinfo Parse has read is read back, but *)
(* for what RendersBack names, returns at the end of a text among it, or   *)
(* refused for a reason that it names (types.go:43-89, parser.go:15-105).  *)
(***************************************************************************)
THEOREM RenderedReadsBack == InfoSpec => []RendersBack
<1>1. InfoInv => RendersBack
  <2> SUFFICES ASSUME InfoInv, pass = 2
               PROVE  /\ status = "parsed" => info = Defaulted(Chomped(BothFileFields(first)))
                      /\ status = "failed" => Refused(first)
                      /\ status # "panicked"
    BY DEF RendersBack, Refused
  <2>1. Fields(first) /\ Reread
    BY DEF InfoInv
  <2> QED BY <2>1, BothFields DEF Reread
<1> QED BY <1>1, InfoInvariance, PTL
=============================================================================
