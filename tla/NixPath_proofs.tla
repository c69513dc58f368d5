------------------------- MODULE NixPath_proofs -------------------------
(***************************************************************************)
(* The decoder stays within its dst for strings of every length that an    *)
(* encoding has, and what it puts there are the bits of the string; so a   *)
(* store path, whose hash is of such a length, never makes FromString      *)
(* panic, and String renders what FromString has parsed.                   *)
(***************************************************************************)
EXTENDS NixPath, TLAPS

AnyString == Seq(Digit \cup {NoDigit})

PathText ==
  [dir : STRING, sep : STRING, hash : [1..HashLen -> Digit \cup {NoDigit}], dash : STRING,
   name : Seq(STRING)]

\* Digests whose characters have no bits to spare, as those of 20 bytes.
NothingToSpare == PathHashSize % 5 = 0

\* What the loop knows of its string and of its dst.
LoopInv ==
  /\ s \in AnyString /\ n \in Nat
  /\ status \in {"idle", "run", "ok", "character", "encoding", "panic"}
  /\ status = "run" => n < Len(s)
  /\ status = "run" => DOMAIN dst = 0..(DecodedLen(Len(s)) - 1)

Going == status \in {"run", "ok"}

\* The bits of the string, of which the first 5n are in dst, and how the loop
\* ends: what is over is zero, is not zero, or a character is none.
RowInv ==
  /\ Going => /\ n <= Len(s) /\ \A k \in 0..(n - 1) : s[Len(s) - k] \in Digit
              /\ DOMAIN dst = 0..(DecodedLen(Len(s)) - 1)
  /\ Going /\ filling =>
       \A k \in DOMAIN dst :
         /\ dst[k] \in Byte
         /\ \A b \in 0..7 : BitOf(dst[k], b) = IF 8 * k + b < 5 * n THEN StringBit(8 * k + b) ELSE 0
  /\ status = "ok" => n = Len(s)
  /\ status = "ok" /\ IsEncodedLen(Len(s)) => \A b \in Spare : StringBit(b) = 0
  /\ status = "encoding" /\ IsEncodedLen(Len(s)) => \E b \in Spare : StringBit(b) = 1
  /\ status = "character" => \E k \in 1..Len(s) : s[k] = NoDigit

\* FromString has the loop work on its hash only, and how it got where it is.
PathInv ==
  /\ pc # "decode" => Len(s) = HashLen /\ input \in PathText
  /\ pc \in {"hash", "digest", "done"} =>
       s = input.hash /\ input.dir = Store /\ input.name # << >> /\ status # "idle"
  /\ pc \in {"digest", "done"} => filling
  /\ pc = "done" => status = "ok" /\ parsed = [name |-> input.name, digest |-> dst]
  /\ pc = "failed" /\ NothingToSpare => ~MatchesPathRe(input)

IInv == LoopInv /\ RowInv /\ PathInv /\ PanicsOnOddLengths

----------------------------------------------------------------------------
(***************************************************************************)
(* A string as long as an encoding decodes to as many bytes as were        *)
(* encoded (nixbase32.go:63-80).                                           *)
(***************************************************************************)
THEOREM DecodedLenOfEncoded == \A bytes \in Nat : DecodedLen(EncodedLen(bytes)) = bytes
BY DEF DecodedLen, EncodedLen

(***************************************************************************)
(* No character of such a string belongs to a byte that is not there.      *)
(***************************************************************************)
LEMMA WithinBytes ==
  ASSUME NEW len \in Nat, NEW k \in Nat, k < len, IsEncodedLen(len)
  PROVE  (k * 5) \div 8 \in 0..(DecodedLen(len) - 1)
<1>1. PICK m \in Nat : m = DecodedLen(len) /\ EncodedLen(m) = len
  BY DEF DecodedLen, IsEncodedLen
<1>2. m # 0 /\ len = (m * 8 - 1) \div 5 + 1
  BY <1>1 DEF EncodedLen
<1>3. k * 5 <= m * 8 - 1
  BY <1>2
<1>4. (k * 5) \div 8 \in 0..(m - 1)
  BY <1>2, <1>3
<1> QED
  BY <1>1, <1>4

\* A hash is as long as an encoding (nixpath.go:24, 28-29).
LEMMA HashIsEncoded == HashLen \in Nat /\ IsEncodedLen(HashLen)
<1>1. PathHashSize \in Nat \ {0}
  BY HashAssumption
<1>2. HashLen \in Nat
  BY <1>1 DEF HashLen, EncodedLen
<1>3. DecodedLen(HashLen) = PathHashSize
  BY <1>1, DecodedLenOfEncoded DEF HashLen
<1> QED
  BY <1>2, <1>3 DEF IsEncodedLen, HashLen

----------------------------------------------------------------------------
Row == [0..7 -> 0..1]
Value(f) == f[0] + 2 * f[1] + 4 * f[2] + 8 * f[3] + 16 * f[4] + 32 * f[5] + 64 * f[6] + 128 * f[7]

\* The shifts of a byte (nixbase32.go:33, 37, 94-97) by powers of two.
LEMMA Powers ==
  /\ 2^0 = 1 /\ 2^1 = 2 /\ 2^2 = 4 /\ 2^3 = 8 /\ 2^4 = 16
  /\ 2^5 = 32 /\ 2^6 = 64 /\ 2^7 = 128 /\ 2^8 = 256
OBVIOUS

\* The bits of a number, each by its quotient.
LEMMA BitValues ==
  ASSUME NEW x \in Nat
  PROVE  /\ BitOf(x, 0) = x % 2 /\ BitOf(x, 1) = (x \div 2) % 2
         /\ BitOf(x, 2) = (x \div 4) % 2 /\ BitOf(x, 3) = (x \div 8) % 2
         /\ BitOf(x, 4) = (x \div 16) % 2 /\ BitOf(x, 5) = (x \div 32) % 2
         /\ BitOf(x, 6) = (x \div 64) % 2 /\ BitOf(x, 7) = (x \div 128) % 2
BY Powers DEF BitOf

\* A row of eight bits is a byte with these bits, ...
LEMMA ValueBits ==
  ASSUME NEW f \in Row
  PROVE  Value(f) \in Byte /\ \A b \in 0..7 : BitOf(Value(f), b) = f[b]
<1>1. PICK f0 \in 0..1, f1 \in 0..1, f2 \in 0..1, f3 \in 0..1,
           f4 \in 0..1, f5 \in 0..1, f6 \in 0..1, f7 \in 0..1 :
        /\ f[0] = f0 /\ f[1] = f1 /\ f[2] = f2 /\ f[3] = f3
        /\ f[4] = f4 /\ f[5] = f5 /\ f[6] = f6 /\ f[7] = f7
  BY DEF Row
<1>2. PICK x \in Int : /\ x = Value(f)
                      /\ x = f0 + 2 * f1 + 4 * f2 + 8 * f3 + 16 * f4 + 32 * f5 + 64 * f6 + 128 * f7
  BY <1>1 DEF Value
<1>3. /\ x \in Byte
      /\ x % 2 = f[0] /\ (x \div 2) % 2 = f[1] /\ (x \div 4) % 2 = f[2] /\ (x \div 8) % 2 = f[3]
      /\ (x \div 16) % 2 = f[4] /\ (x \div 32) % 2 = f[5] /\ (x \div 64) % 2 = f[6]
      /\ (x \div 128) % 2 = f[7]
  <2>1. x \in Byte /\ x % 2 = f0 /\ (x \div 2) % 2 = f1 /\ (x \div 4) % 2 = f2
    BY <1>2 DEF Byte
  <2>2. (x \div 8) % 2 = f3 /\ (x \div 16) % 2 = f4 /\ (x \div 32) % 2 = f5
    BY <1>2
  <2>3. (x \div 64) % 2 = f6 /\ (x \div 128) % 2 = f7
    BY <1>2
  <2> QED
    BY ONLY <1>1, <2>1, <2>2, <2>3
<1>4. x \in Nat
  BY <1>3 DEF Byte
<1>5. \A b \in 0..7 : BitOf(x, b) = f[b]
  <2>1. /\ BitOf(x, 0) = f[0] /\ BitOf(x, 1) = f[1] /\ BitOf(x, 2) = f[2] /\ BitOf(x, 3) = f[3]
        /\ BitOf(x, 4) = f[4] /\ BitOf(x, 5) = f[5] /\ BitOf(x, 6) = f[6] /\ BitOf(x, 7) = f[7]
    BY ONLY <1>3, <1>4, BitValues, ZenonT(30)
  <2> QED
    BY ONLY <2>1
<1> QED
  BY ONLY <1>2, <1>3, <1>5

\* ... and a byte is the sum of its bits, ...
LEMMA Binary ==
  ASSUME NEW x \in Byte
  PROVE  /\ x = (x % 2) + 2 * ((x \div 2) % 2) + 4 * ((x \div 4) % 2) + 8 * ((x \div 8) % 2)
              + 16 * ((x \div 16) % 2) + 32 * ((x \div 32) % 2) + 64 * ((x \div 64) % 2)
              + 128 * ((x \div 128) % 2)
         /\ x < 32 => (x \div 32) % 2 = 0 /\ (x \div 64) % 2 = 0 /\ (x \div 128) % 2 = 0
BY SMTT(30) DEF Byte

\* ... of which a character of the alphabet has five (nixbase32.go:9).
LEMMA BinaryBits ==
  ASSUME NEW x \in Byte
  PROVE  \E a, b, c, d, e, f, g, h \in 0..1 :
           /\ x = a + 2 * b + 4 * c + 8 * d + 16 * e + 32 * f + 64 * g + 128 * h
           /\ BitOf(x, 0) = a /\ BitOf(x, 1) = b /\ BitOf(x, 2) = c /\ BitOf(x, 3) = d
           /\ BitOf(x, 4) = e /\ BitOf(x, 5) = f /\ BitOf(x, 6) = g /\ BitOf(x, 7) = h
           /\ x \in Digit => f = 0 /\ g = 0 /\ h = 0
<1>1. x \in Nat
  BY DEF Byte
<1>2. /\ BitOf(x, 0) = x % 2 /\ BitOf(x, 1) = (x \div 2) % 2
      /\ BitOf(x, 2) = (x \div 4) % 2 /\ BitOf(x, 3) = (x \div 8) % 2
      /\ BitOf(x, 4) = (x \div 16) % 2 /\ BitOf(x, 5) = (x \div 32) % 2
      /\ BitOf(x, 6) = (x \div 64) % 2 /\ BitOf(x, 7) = (x \div 128) % 2
  BY ONLY <1>1, BitValues
<1>3. PICK a \in 0..1, b \in 0..1, c \in 0..1, d \in 0..1,
           e \in 0..1, f \in 0..1, g \in 0..1, h \in 0..1 :
        /\ x % 2 = a /\ (x \div 2) % 2 = b /\ (x \div 4) % 2 = c /\ (x \div 8) % 2 = d
        /\ (x \div 16) % 2 = e /\ (x \div 32) % 2 = f /\ (x \div 64) % 2 = g
        /\ (x \div 128) % 2 = h
  <2>1. \A y \in Nat : y % 2 \in 0..1
    OBVIOUS
  <2>2. /\ x \div 2 \in Nat /\ x \div 4 \in Nat /\ x \div 8 \in Nat /\ x \div 16 \in Nat
        /\ x \div 32 \in Nat /\ x \div 64 \in Nat /\ x \div 128 \in Nat
    BY <1>1
  <2> QED
    BY ONLY <1>1, <2>1, <2>2
<1>4. x = a + 2 * b + 4 * c + 8 * d + 16 * e + 32 * f + 64 * g + 128 * h
  <2>1. x = (x % 2) + 2 * ((x \div 2) % 2) + 4 * ((x \div 4) % 2) + 8 * ((x \div 8) % 2)
              + 16 * ((x \div 16) % 2) + 32 * ((x \div 32) % 2) + 64 * ((x \div 64) % 2)
              + 128 * ((x \div 128) % 2)
    BY ONLY x \in Byte, Binary
  <2> QED
    BY ONLY <1>3, <2>1
<1>5. x \in Digit => f = 0 /\ g = 0 /\ h = 0
  BY <1>4 DEF Digit
<1> QED
  BY ONLY <1>2, <1>3, <1>4, <1>5

\* dst[i] |= byte(digit) << j: the character's bits follow those that are
\* there, and those past the byte are lost (nixbase32.go:31-34).
LEMMA Placed ==
  ASSUME NEW x \in Byte, NEW c \in Digit, NEW k \in 0..7, \A b \in k..7 : BitOf(x, b) = 0
  PROVE  /\ x + Shl(c, k) \in Byte
         /\ \A b \in 0..7 : BitOf(x + Shl(c, k), b) =
              IF b < k THEN BitOf(x, b) ELSE IF b < k + 5 THEN BitOf(c, b - k) ELSE 0
<1> DEFINE both == [b \in 0..7 |-> IF b < k THEN BitOf(x, b)
                                   ELSE IF b < k + 5 THEN BitOf(c, b - k) ELSE 0]
<1>1. c \in Byte
  BY DEF Byte, Digit
<1>2. PICK x0 \in 0..1, x1 \in 0..1, x2 \in 0..1, x3 \in 0..1,
           x4 \in 0..1, x5 \in 0..1, x6 \in 0..1, x7 \in 0..1 :
        /\ x = x0 + 2 * x1 + 4 * x2 + 8 * x3 + 16 * x4 + 32 * x5 + 64 * x6 + 128 * x7
        /\ BitOf(x, 0) = x0 /\ BitOf(x, 1) = x1 /\ BitOf(x, 2) = x2 /\ BitOf(x, 3) = x3
        /\ BitOf(x, 4) = x4 /\ BitOf(x, 5) = x5 /\ BitOf(x, 6) = x6 /\ BitOf(x, 7) = x7
  BY ONLY x \in Byte, BinaryBits
<1>3. PICK c0 \in 0..1, c1 \in 0..1, c2 \in 0..1, c3 \in 0..1, c4 \in 0..1 :
        /\ c = c0 + 2 * c1 + 4 * c2 + 8 * c3 + 16 * c4
        /\ BitOf(c, 0) = c0 /\ BitOf(c, 1) = c1 /\ BitOf(c, 2) = c2 /\ BitOf(c, 3) = c3
        /\ BitOf(c, 4) = c4
  BY ONLY <1>1, c \in Digit, BinaryBits
<1>4. /\ k <= 0 => x0 = 0
      /\ k <= 1 => x1 = 0
      /\ k <= 2 => x2 = 0
      /\ k <= 3 => x3 = 0
      /\ k <= 4 => x4 = 0
      /\ k <= 5 => x5 = 0
      /\ k <= 6 => x6 = 0
      /\ x7 = 0
  BY <1>2
<1>5. both \in Row
  <2>1. \A b \in 0..7 : BitOf(x, b) \in 0..1
    BY ONLY <1>2
  <2>2. \A b \in 0..4 : BitOf(c, b) \in 0..1
    BY ONLY <1>3
  <2>3. \A b \in 0..7 : ~(b < k) /\ b < k + 5 => b - k \in 0..4
    OBVIOUS
  <2> QED
    BY ONLY <2>1, <2>2, <2>3 DEF Row
<1>10. ASSUME k = 0 PROVE x + Shl(c, k) = Value(both)
  <2>1. /\ both[0] = c0 /\ both[1] = c1 /\ both[2] = c2 /\ both[3] = c3
        /\ both[4] = c4 /\ both[5] = 0 /\ both[6] = 0 /\ both[7] = 0
    BY ONLY <1>10, <1>2, <1>3
  <2>2. Shl(c, k) = (c * 1) % 256
    BY ONLY <1>10, Powers DEF Shl
  <2> HIDE DEF both
  <2> QED
    BY <2>1, <2>2, <1>10, <1>2, <1>3, <1>4 DEF Value
<1>11. ASSUME k = 1 PROVE x + Shl(c, k) = Value(both)
  <2>1. /\ both[0] = x0 /\ both[1] = c0 /\ both[2] = c1 /\ both[3] = c2
        /\ both[4] = c3 /\ both[5] = c4 /\ both[6] = 0 /\ both[7] = 0
    BY ONLY <1>11, <1>2, <1>3
  <2>2. Shl(c, k) = (c * 2) % 256
    BY ONLY <1>11, Powers DEF Shl
  <2> HIDE DEF both
  <2> QED
    BY <2>1, <2>2, <1>11, <1>2, <1>3, <1>4 DEF Value
<1>12. ASSUME k = 2 PROVE x + Shl(c, k) = Value(both)
  <2>1. /\ both[0] = x0 /\ both[1] = x1 /\ both[2] = c0 /\ both[3] = c1
        /\ both[4] = c2 /\ both[5] = c3 /\ both[6] = c4 /\ both[7] = 0
    BY ONLY <1>12, <1>2, <1>3
  <2>2. Shl(c, k) = (c * 4) % 256
    BY ONLY <1>12, Powers DEF Shl
  <2> HIDE DEF both
  <2> QED
    BY <2>1, <2>2, <1>12, <1>2, <1>3, <1>4 DEF Value
<1>13. ASSUME k = 3 PROVE x + Shl(c, k) = Value(both)
  <2>1. /\ both[0] = x0 /\ both[1] = x1 /\ both[2] = x2 /\ both[3] = c0
        /\ both[4] = c1 /\ both[5] = c2 /\ both[6] = c3 /\ both[7] = c4
    BY ONLY <1>13, <1>2, <1>3
  <2>2. Shl(c, k) = (c * 8) % 256
    BY ONLY <1>13, Powers DEF Shl
  <2> HIDE DEF both
  <2> QED
    BY <2>1, <2>2, <1>13, <1>2, <1>3, <1>4 DEF Value
<1>14. ASSUME k = 4 PROVE x + Shl(c, k) = Value(both)
  <2>1. /\ both[0] = x0 /\ both[1] = x1 /\ both[2] = x2 /\ both[3] = x3
        /\ both[4] = c0 /\ both[5] = c1 /\ both[6] = c2 /\ both[7] = c3
    BY ONLY <1>14, <1>2, <1>3
  <2>2. Shl(c, k) = (c * 16) % 256
    BY ONLY <1>14, Powers DEF Shl
  <2> HIDE DEF both
  <2> QED
    BY <2>1, <2>2, <1>14, <1>2, <1>3, <1>4 DEF Value
<1>15. ASSUME k = 5 PROVE x + Shl(c, k) = Value(both)
  <2>1. /\ both[0] = x0 /\ both[1] = x1 /\ both[2] = x2 /\ both[3] = x3
        /\ both[4] = x4 /\ both[5] = c0 /\ both[6] = c1 /\ both[7] = c2
    BY ONLY <1>15, <1>2, <1>3
  <2>2. Shl(c, k) = (c * 32) % 256
    BY ONLY <1>15, Powers DEF Shl
  <2> HIDE DEF both
  <2> QED
    BY <2>1, <2>2, <1>15, <1>2, <1>3, <1>4 DEF Value
<1>16. ASSUME k = 6 PROVE x + Shl(c, k) = Value(both)
  <2>1. /\ both[0] = x0 /\ both[1] = x1 /\ both[2] = x2 /\ both[3] = x3
        /\ both[4] = x4 /\ both[5] = x5 /\ both[6] = c0 /\ both[7] = c1
    BY ONLY <1>16, <1>2, <1>3
  <2>2. Shl(c, k) = (c * 64) % 256
    BY ONLY <1>16, Powers DEF Shl
  <2> HIDE DEF both
  <2> QED
    BY <2>1, <2>2, <1>16, <1>2, <1>3, <1>4 DEF Value
<1>17. ASSUME k = 7 PROVE x + Shl(c, k) = Value(both)
  <2>1. /\ both[0] = x0 /\ both[1] = x1 /\ both[2] = x2 /\ both[3] = x3
        /\ both[4] = x4 /\ both[5] = x5 /\ both[6] = x6 /\ both[7] = c0
    BY ONLY <1>17, <1>2, <1>3
  <2>2. Shl(c, k) = (c * 128) % 256
    BY ONLY <1>17, Powers DEF Shl
  <2> HIDE DEF both
  <2> QED
    BY <2>1, <2>2, <1>17, <1>2, <1>3, <1>4 DEF Value
<1>18. x + Shl(c, k) = Value(both)
  BY ONLY <1>10, <1>11, <1>12, <1>13, <1>14, <1>15, <1>16, <1>17, k \in 0..7
<1> QED
  BY <1>5, <1>18, ValueBits

\* A byte without bits is zero.
LEMMA NoBits == ASSUME NEW x \in Byte, \A b \in 0..7 : BitOf(x, b) = 0 PROVE x = 0
<1>1. PICK x0 \in 0..1, x1 \in 0..1, x2 \in 0..1, x3 \in 0..1,
           x4 \in 0..1, x5 \in 0..1, x6 \in 0..1, x7 \in 0..1 :
        /\ x = x0 + 2 * x1 + 4 * x2 + 8 * x3 + 16 * x4 + 32 * x5 + 64 * x6 + 128 * x7
        /\ BitOf(x, 0) = x0 /\ BitOf(x, 1) = x1 /\ BitOf(x, 2) = x2 /\ BitOf(x, 3) = x3
        /\ BitOf(x, 4) = x4 /\ BitOf(x, 5) = x5 /\ BitOf(x, 6) = x6 /\ BitOf(x, 7) = x7
  BY ONLY x \in Byte, BinaryBits
<1> QED
  BY <1>1

\* byte(digit) >> (8 - j): the bits that were lost (nixbase32.go:36-37).
LEMMA Carried ==
  ASSUME NEW c \in Digit, NEW k \in 0..7
  PROVE  /\ Shr(c, 8 - k) \in Byte
         /\ \A b \in 0..7 : BitOf(Shr(c, 8 - k), b) =
              IF b + (8 - k) < 5 THEN BitOf(c, b + (8 - k)) ELSE 0
<1> DEFINE rest == [b \in 0..7 |-> IF b + (8 - k) < 5 THEN BitOf(c, b + (8 - k)) ELSE 0]
<1>1. c \in Byte
  BY DEF Byte, Digit
<1>2. PICK c0 \in 0..1, c1 \in 0..1, c2 \in 0..1, c3 \in 0..1, c4 \in 0..1 :
        /\ c = c0 + 2 * c1 + 4 * c2 + 8 * c3 + 16 * c4
        /\ BitOf(c, 0) = c0 /\ BitOf(c, 1) = c1 /\ BitOf(c, 2) = c2 /\ BitOf(c, 3) = c3
        /\ BitOf(c, 4) = c4
  BY ONLY <1>1, c \in Digit, BinaryBits
<1>3. rest \in Row
  <2>1. \A b \in 0..4 : BitOf(c, b) \in 0..1
    BY ONLY <1>2
  <2>2. \A b \in 0..7 : b + (8 - k) < 5 => b + (8 - k) \in 0..4
    OBVIOUS
  <2> QED
    BY ONLY <2>1, <2>2 DEF Row
<1>10. ASSUME k = 0 PROVE Shr(c, 8 - k) = Value(rest)
  <2>1. /\ rest[0] = 0 /\ rest[1] = 0 /\ rest[2] = 0 /\ rest[3] = 0
        /\ rest[4] = 0 /\ rest[5] = 0 /\ rest[6] = 0 /\ rest[7] = 0
    BY ONLY <1>10, <1>2
  <2>2. Shr(c, 8 - k) = c \div 256
    BY ONLY <1>10, Powers DEF Shr
  <2> HIDE DEF rest
  <2> QED
    BY <2>1, <2>2, <1>2 DEF Value
<1>11. ASSUME k = 1 PROVE Shr(c, 8 - k) = Value(rest)
  <2>1. /\ rest[0] = 0 /\ rest[1] = 0 /\ rest[2] = 0 /\ rest[3] = 0
        /\ rest[4] = 0 /\ rest[5] = 0 /\ rest[6] = 0 /\ rest[7] = 0
    BY ONLY <1>11, <1>2
  <2>2. Shr(c, 8 - k) = c \div 128
    BY ONLY <1>11, Powers DEF Shr
  <2> HIDE DEF rest
  <2> QED
    BY <2>1, <2>2, <1>2 DEF Value
<1>12. ASSUME k = 2 PROVE Shr(c, 8 - k) = Value(rest)
  <2>1. /\ rest[0] = 0 /\ rest[1] = 0 /\ rest[2] = 0 /\ rest[3] = 0
        /\ rest[4] = 0 /\ rest[5] = 0 /\ rest[6] = 0 /\ rest[7] = 0
    BY ONLY <1>12, <1>2
  <2>2. Shr(c, 8 - k) = c \div 64
    BY ONLY <1>12, Powers DEF Shr
  <2> HIDE DEF rest
  <2> QED
    BY <2>1, <2>2, <1>2 DEF Value
<1>13. ASSUME k = 3 PROVE Shr(c, 8 - k) = Value(rest)
  <2>1. /\ rest[0] = 0 /\ rest[1] = 0 /\ rest[2] = 0 /\ rest[3] = 0
        /\ rest[4] = 0 /\ rest[5] = 0 /\ rest[6] = 0 /\ rest[7] = 0
    BY ONLY <1>13, <1>2
  <2>2. Shr(c, 8 - k) = c \div 32
    BY ONLY <1>13, Powers DEF Shr
  <2> HIDE DEF rest
  <2> QED
    BY <2>1, <2>2, <1>2 DEF Value
<1>14. ASSUME k = 4 PROVE Shr(c, 8 - k) = Value(rest)
  <2>1. /\ rest[0] = c4 /\ rest[1] = 0 /\ rest[2] = 0 /\ rest[3] = 0
        /\ rest[4] = 0 /\ rest[5] = 0 /\ rest[6] = 0 /\ rest[7] = 0
    BY ONLY <1>14, <1>2
  <2>2. Shr(c, 8 - k) = c \div 16
    BY ONLY <1>14, Powers DEF Shr
  <2> HIDE DEF rest
  <2> QED
    BY <2>1, <2>2, <1>2 DEF Value
<1>15. ASSUME k = 5 PROVE Shr(c, 8 - k) = Value(rest)
  <2>1. /\ rest[0] = c3 /\ rest[1] = c4 /\ rest[2] = 0 /\ rest[3] = 0
        /\ rest[4] = 0 /\ rest[5] = 0 /\ rest[6] = 0 /\ rest[7] = 0
    BY ONLY <1>15, <1>2
  <2>2. Shr(c, 8 - k) = c \div 8
    BY ONLY <1>15, Powers DEF Shr
  <2> HIDE DEF rest
  <2> QED
    BY <2>1, <2>2, <1>2 DEF Value
<1>16. ASSUME k = 6 PROVE Shr(c, 8 - k) = Value(rest)
  <2>1. /\ rest[0] = c2 /\ rest[1] = c3 /\ rest[2] = c4 /\ rest[3] = 0
        /\ rest[4] = 0 /\ rest[5] = 0 /\ rest[6] = 0 /\ rest[7] = 0
    BY ONLY <1>16, <1>2
  <2>2. Shr(c, 8 - k) = c \div 4
    BY ONLY <1>16, Powers DEF Shr
  <2> HIDE DEF rest
  <2> QED
    BY <2>1, <2>2, <1>2 DEF Value
<1>17. ASSUME k = 7 PROVE Shr(c, 8 - k) = Value(rest)
  <2>1. /\ rest[0] = c1 /\ rest[1] = c2 /\ rest[2] = c3 /\ rest[3] = c4
        /\ rest[4] = 0 /\ rest[5] = 0 /\ rest[6] = 0 /\ rest[7] = 0
    BY ONLY <1>17, <1>2
  <2>2. Shr(c, 8 - k) = c \div 2
    BY ONLY <1>17, Powers DEF Shr
  <2> HIDE DEF rest
  <2> QED
    BY <2>1, <2>2, <1>2 DEF Value
<1>18. Shr(c, 8 - k) = Value(rest)
  BY ONLY <1>10, <1>11, <1>12, <1>13, <1>14, <1>15, <1>16, <1>17, k \in 0..7
<1> QED
  BY <1>3, <1>18, ValueBits

\* EncodeToString's c: five bits of one byte, or of it and the next
\* (nixbase32.go:94-100).
LEMMA Taken ==
  ASSUME NEW x \in Byte, NEW y \in Byte, NEW j \in 0..7
  PROVE  /\ (Shr(x, j) + Shl(y, 8 - j)) % 32 \in Byte
         /\ \A b \in 0..7 : BitOf((Shr(x, j) + Shl(y, 8 - j)) % 32, b) =
              IF b > 4 THEN 0 ELSE IF b + j < 8 THEN BitOf(x, b + j) ELSE BitOf(y, b + j - 8)
<1> DEFINE five == [b \in 0..7 |-> IF b > 4 THEN 0
                                   ELSE IF b + j < 8 THEN BitOf(x, b + j) ELSE BitOf(y, b + j - 8)]
<1>1. PICK x0 \in 0..1, x1 \in 0..1, x2 \in 0..1, x3 \in 0..1,
           x4 \in 0..1, x5 \in 0..1, x6 \in 0..1, x7 \in 0..1 :
        /\ x = x0 + 2 * x1 + 4 * x2 + 8 * x3 + 16 * x4 + 32 * x5 + 64 * x6 + 128 * x7
        /\ BitOf(x, 0) = x0 /\ BitOf(x, 1) = x1 /\ BitOf(x, 2) = x2 /\ BitOf(x, 3) = x3
        /\ BitOf(x, 4) = x4 /\ BitOf(x, 5) = x5 /\ BitOf(x, 6) = x6 /\ BitOf(x, 7) = x7
  BY ONLY x \in Byte, BinaryBits
<1>2. PICK y0 \in 0..1, y1 \in 0..1, y2 \in 0..1, y3 \in 0..1,
           y4 \in 0..1, y5 \in 0..1, y6 \in 0..1, y7 \in 0..1 :
        /\ y = y0 + 2 * y1 + 4 * y2 + 8 * y3 + 16 * y4 + 32 * y5 + 64 * y6 + 128 * y7
        /\ BitOf(y, 0) = y0 /\ BitOf(y, 1) = y1 /\ BitOf(y, 2) = y2 /\ BitOf(y, 3) = y3
        /\ BitOf(y, 4) = y4 /\ BitOf(y, 5) = y5 /\ BitOf(y, 6) = y6 /\ BitOf(y, 7) = y7
  BY ONLY y \in Byte, BinaryBits
<1>3. five \in Row
  <2>1. \A b \in 0..7 : BitOf(x, b) \in 0..1 /\ BitOf(y, b) \in 0..1
    BY ONLY <1>1, <1>2
  <2>2. \A b \in 0..7 : /\ b + j < 8 => b + j \in 0..7
                        /\ b <= 4 /\ ~(b + j < 8) => b + j - 8 \in 0..7
    OBVIOUS
  <2>3. \A b \in 0..7 : ~(b > 4) => b <= 4
    OBVIOUS
  <2> QED
    BY ONLY <2>1, <2>2, <2>3 DEF Row
<1>10. ASSUME j = 0 PROVE (Shr(x, j) + Shl(y, 8 - j)) % 32 = Value(five)
  <2>1. /\ five[0] = x0 /\ five[1] = x1 /\ five[2] = x2 /\ five[3] = x3
        /\ five[4] = x4 /\ five[5] = 0 /\ five[6] = 0 /\ five[7] = 0
    BY ONLY <1>10, <1>1, <1>2
  <2>2. Shr(x, j) = x \div 1 /\ Shl(y, 8 - j) = (y * 256) % 256
    BY ONLY <1>10, Powers DEF Shr, Shl
  <2>3. x \div 1 = x0 + 2 * x1 + 4 * x2 + 8 * x3 + 16 * x4 + 32 * x5 + 64 * x6 + 128 * x7
    BY <1>1
  <2>4. (y * 256) % 256 = 0
    BY <1>2
  <2>5. PICK high \in Nat : high = x5 + 2 * x6 + 4 * x7
    BY <1>1, <1>2
  <2>6. PICK low \in 0..31 : low = x0 + 2 * x1 + 4 * x2 + 8 * x3 + 16 * x4
    BY <1>1, <1>2
  <2>7. (low + 32 * high) % 32 = low
    OBVIOUS
  <2>8. Shr(x, j) + Shl(y, 8 - j) = low + 32 * high
    BY <2>2, <2>3, <2>4, <2>5, <2>6
  <2> HIDE DEF five
  <2>9. Value(five) = low
    BY <2>1, <2>6 DEF Value
  <2> QED
    BY ONLY <2>7, <2>8, <2>9
<1>11. ASSUME j = 1 PROVE (Shr(x, j) + Shl(y, 8 - j)) % 32 = Value(five)
  <2>1. /\ five[0] = x1 /\ five[1] = x2 /\ five[2] = x3 /\ five[3] = x4
        /\ five[4] = x5 /\ five[5] = 0 /\ five[6] = 0 /\ five[7] = 0
    BY ONLY <1>11, <1>1, <1>2
  <2>2. Shr(x, j) = x \div 2 /\ Shl(y, 8 - j) = (y * 128) % 256
    BY ONLY <1>11, Powers DEF Shr, Shl
  <2>3. x \div 2 = x1 + 2 * x2 + 4 * x3 + 8 * x4 + 16 * x5 + 32 * x6 + 64 * x7
    BY <1>1
  <2>4. (y * 128) % 256 = 128 * y0
    BY <1>2
  <2>5. PICK high \in Nat : high = x6 + 2 * x7 + 4 * y0
    BY <1>1, <1>2
  <2>6. PICK low \in 0..31 : low = x1 + 2 * x2 + 4 * x3 + 8 * x4 + 16 * x5
    BY <1>1, <1>2
  <2>7. (low + 32 * high) % 32 = low
    OBVIOUS
  <2>8. Shr(x, j) + Shl(y, 8 - j) = low + 32 * high
    BY <2>2, <2>3, <2>4, <2>5, <2>6
  <2> HIDE DEF five
  <2>9. Value(five) = low
    BY <2>1, <2>6 DEF Value
  <2> QED
    BY ONLY <2>7, <2>8, <2>9
<1>12. ASSUME j = 2 PROVE (Shr(x, j) + Shl(y, 8 - j)) % 32 = Value(five)
  <2>1. /\ five[0] = x2 /\ five[1] = x3 /\ five[2] = x4 /\ five[3] = x5
        /\ five[4] = x6 /\ five[5] = 0 /\ five[6] = 0 /\ five[7] = 0
    BY ONLY <1>12, <1>1, <1>2
  <2>2. Shr(x, j) = x \div 4 /\ Shl(y, 8 - j) = (y * 64) % 256
    BY ONLY <1>12, Powers DEF Shr, Shl
  <2>3. x \div 4 = x2 + 2 * x3 + 4 * x4 + 8 * x5 + 16 * x6 + 32 * x7
    BY <1>1
  <2>4. (y * 64) % 256 = 64 * y0 + 128 * y1
    BY <1>2
  <2>5. PICK high \in Nat : high = x7 + 2 * y0 + 4 * y1
    BY <1>1, <1>2
  <2>6. PICK low \in 0..31 : low = x2 + 2 * x3 + 4 * x4 + 8 * x5 + 16 * x6
    BY <1>1, <1>2
  <2>7. (low + 32 * high) % 32 = low
    OBVIOUS
  <2>8. Shr(x, j) + Shl(y, 8 - j) = low + 32 * high
    BY <2>2, <2>3, <2>4, <2>5, <2>6
  <2> HIDE DEF five
  <2>9. Value(five) = low
    BY <2>1, <2>6 DEF Value
  <2> QED
    BY ONLY <2>7, <2>8, <2>9
<1>13. ASSUME j = 3 PROVE (Shr(x, j) + Shl(y, 8 - j)) % 32 = Value(five)
  <2>1. /\ five[0] = x3 /\ five[1] = x4 /\ five[2] = x5 /\ five[3] = x6
        /\ five[4] = x7 /\ five[5] = 0 /\ five[6] = 0 /\ five[7] = 0
    BY ONLY <1>13, <1>1, <1>2
  <2>2. Shr(x, j) = x \div 8 /\ Shl(y, 8 - j) = (y * 32) % 256
    BY ONLY <1>13, Powers DEF Shr, Shl
  <2>3. x \div 8 = x3 + 2 * x4 + 4 * x5 + 8 * x6 + 16 * x7
    BY <1>1
  <2>4. (y * 32) % 256 = 32 * y0 + 64 * y1 + 128 * y2
    BY <1>2
  <2>5. PICK high \in Nat : high = y0 + 2 * y1 + 4 * y2
    BY <1>1, <1>2
  <2>6. PICK low \in 0..31 : low = x3 + 2 * x4 + 4 * x5 + 8 * x6 + 16 * x7
    BY <1>1, <1>2
  <2>7. (low + 32 * high) % 32 = low
    OBVIOUS
  <2>8. Shr(x, j) + Shl(y, 8 - j) = low + 32 * high
    BY <2>2, <2>3, <2>4, <2>5, <2>6
  <2> HIDE DEF five
  <2>9. Value(five) = low
    BY <2>1, <2>6 DEF Value
  <2> QED
    BY ONLY <2>7, <2>8, <2>9
<1>14. ASSUME j = 4 PROVE (Shr(x, j) + Shl(y, 8 - j)) % 32 = Value(five)
  <2>1. /\ five[0] = x4 /\ five[1] = x5 /\ five[2] = x6 /\ five[3] = x7
        /\ five[4] = y0 /\ five[5] = 0 /\ five[6] = 0 /\ five[7] = 0
    BY ONLY <1>14, <1>1, <1>2
  <2>2. Shr(x, j) = x \div 16 /\ Shl(y, 8 - j) = (y * 16) % 256
    BY ONLY <1>14, Powers DEF Shr, Shl
  <2>3. x \div 16 = x4 + 2 * x5 + 4 * x6 + 8 * x7
    BY <1>1
  <2>4. (y * 16) % 256 = 16 * y0 + 32 * y1 + 64 * y2 + 128 * y3
    BY <1>2
  <2>5. PICK high \in Nat : high = y1 + 2 * y2 + 4 * y3
    BY <1>1, <1>2
  <2>6. PICK low \in 0..31 : low = x4 + 2 * x5 + 4 * x6 + 8 * x7 + 16 * y0
    BY <1>1, <1>2
  <2>7. (low + 32 * high) % 32 = low
    OBVIOUS
  <2>8. Shr(x, j) + Shl(y, 8 - j) = low + 32 * high
    BY <2>2, <2>3, <2>4, <2>5, <2>6
  <2> HIDE DEF five
  <2>9. Value(five) = low
    BY <2>1, <2>6 DEF Value
  <2> QED
    BY ONLY <2>7, <2>8, <2>9
<1>15. ASSUME j = 5 PROVE (Shr(x, j) + Shl(y, 8 - j)) % 32 = Value(five)
  <2>1. /\ five[0] = x5 /\ five[1] = x6 /\ five[2] = x7 /\ five[3] = y0
        /\ five[4] = y1 /\ five[5] = 0 /\ five[6] = 0 /\ five[7] = 0
    BY ONLY <1>15, <1>1, <1>2
  <2>2. Shr(x, j) = x \div 32 /\ Shl(y, 8 - j) = (y * 8) % 256
    BY ONLY <1>15, Powers DEF Shr, Shl
  <2>3. x \div 32 = x5 + 2 * x6 + 4 * x7
    BY <1>1
  <2>4. (y * 8) % 256 = 8 * y0 + 16 * y1 + 32 * y2 + 64 * y3 + 128 * y4
    BY <1>2
  <2>5. PICK high \in Nat : high = y2 + 2 * y3 + 4 * y4
    BY <1>1, <1>2
  <2>6. PICK low \in 0..31 : low = x5 + 2 * x6 + 4 * x7 + 8 * y0 + 16 * y1
    BY <1>1, <1>2
  <2>7. (low + 32 * high) % 32 = low
    OBVIOUS
  <2>8. Shr(x, j) + Shl(y, 8 - j) = low + 32 * high
    BY <2>2, <2>3, <2>4, <2>5, <2>6
  <2> HIDE DEF five
  <2>9. Value(five) = low
    BY <2>1, <2>6 DEF Value
  <2> QED
    BY ONLY <2>7, <2>8, <2>9
<1>16. ASSUME j = 6 PROVE (Shr(x, j) + Shl(y, 8 - j)) % 32 = Value(five)
  <2>1. /\ five[0] = x6 /\ five[1] = x7 /\ five[2] = y0 /\ five[3] = y1
        /\ five[4] = y2 /\ five[5] = 0 /\ five[6] = 0 /\ five[7] = 0
    BY ONLY <1>16, <1>1, <1>2
  <2>2. Shr(x, j) = x \div 64 /\ Shl(y, 8 - j) = (y * 4) % 256
    BY ONLY <1>16, Powers DEF Shr, Shl
  <2>3. x \div 64 = x6 + 2 * x7
    BY <1>1
  <2>4. (y * 4) % 256 = 4 * y0 + 8 * y1 + 16 * y2 + 32 * y3 + 64 * y4 + 128 * y5
    BY <1>2
  <2>5. PICK high \in Nat : high = y3 + 2 * y4 + 4 * y5
    BY <1>1, <1>2
  <2>6. PICK low \in 0..31 : low = x6 + 2 * x7 + 4 * y0 + 8 * y1 + 16 * y2
    BY <1>1, <1>2
  <2>7. (low + 32 * high) % 32 = low
    OBVIOUS
  <2>8. Shr(x, j) + Shl(y, 8 - j) = low + 32 * high
    BY <2>2, <2>3, <2>4, <2>5, <2>6
  <2> HIDE DEF five
  <2>9. Value(five) = low
    BY <2>1, <2>6 DEF Value
  <2> QED
    BY ONLY <2>7, <2>8, <2>9
<1>17. ASSUME j = 7 PROVE (Shr(x, j) + Shl(y, 8 - j)) % 32 = Value(five)
  <2>1. /\ five[0] = x7 /\ five[1] = y0 /\ five[2] = y1 /\ five[3] = y2
        /\ five[4] = y3 /\ five[5] = 0 /\ five[6] = 0 /\ five[7] = 0
    BY ONLY <1>17, <1>1, <1>2
  <2>2. Shr(x, j) = x \div 128 /\ Shl(y, 8 - j) = (y * 2) % 256
    BY ONLY <1>17, Powers DEF Shr, Shl
  <2>3. x \div 128 = x7
    BY <1>1
  <2>4. (y * 2) % 256 = 2 * y0 + 4 * y1 + 8 * y2 + 16 * y3 + 32 * y4 + 64 * y5 + 128 * y6
    BY <1>2
  <2>5. PICK high \in Nat : high = y4 + 2 * y5 + 4 * y6
    BY <1>1, <1>2
  <2>6. PICK low \in 0..31 : low = x7 + 2 * y0 + 4 * y1 + 8 * y2 + 16 * y3
    BY <1>1, <1>2
  <2>7. (low + 32 * high) % 32 = low
    OBVIOUS
  <2>8. Shr(x, j) + Shl(y, 8 - j) = low + 32 * high
    BY <2>2, <2>3, <2>4, <2>5, <2>6
  <2> HIDE DEF five
  <2>9. Value(five) = low
    BY <2>1, <2>6 DEF Value
  <2> QED
    BY ONLY <2>7, <2>8, <2>9
<1>18. (Shr(x, j) + Shl(y, 8 - j)) % 32 = Value(five)
  BY ONLY <1>10, <1>11, <1>12, <1>13, <1>14, <1>15, <1>16, <1>17, j \in 0..7
<1> QED
  BY <1>3, <1>18, ValueBits

\* A character is known by its five bits.
LEMMA ByBits ==
  ASSUME NEW u \in Digit, NEW v \in Byte, \A t \in 0..4 : BitOf(u, t) = BitOf(v, t),
         \A t \in 5..7 : BitOf(v, t) = 0
  PROVE  u = v
<1>1. u \in Byte
  BY DEF Byte, Digit
<1>2. PICK u0 \in 0..1, u1 \in 0..1, u2 \in 0..1, u3 \in 0..1,
           u4 \in 0..1, u5 \in 0..1, u6 \in 0..1, u7 \in 0..1 :
        /\ u = u0 + 2 * u1 + 4 * u2 + 8 * u3 + 16 * u4 + 32 * u5 + 64 * u6 + 128 * u7
        /\ BitOf(u, 0) = u0 /\ BitOf(u, 1) = u1 /\ BitOf(u, 2) = u2 /\ BitOf(u, 3) = u3
        /\ BitOf(u, 4) = u4 /\ BitOf(u, 5) = u5 /\ BitOf(u, 6) = u6 /\ BitOf(u, 7) = u7
        /\ u \in Digit => u5 = 0 /\ u6 = 0 /\ u7 = 0
  BY ONLY u \in Byte, <1>1, BinaryBits
<1>3. PICK v0 \in 0..1, v1 \in 0..1, v2 \in 0..1, v3 \in 0..1,
           v4 \in 0..1, v5 \in 0..1, v6 \in 0..1, v7 \in 0..1 :
        /\ v = v0 + 2 * v1 + 4 * v2 + 8 * v3 + 16 * v4 + 32 * v5 + 64 * v6 + 128 * v7
        /\ BitOf(v, 0) = v0 /\ BitOf(v, 1) = v1 /\ BitOf(v, 2) = v2 /\ BitOf(v, 3) = v3
        /\ BitOf(v, 4) = v4 /\ BitOf(v, 5) = v5 /\ BitOf(v, 6) = v6 /\ BitOf(v, 7) = v7
        /\ v \in Digit => v5 = 0 /\ v6 = 0 /\ v7 = 0
  BY ONLY v \in Byte, <1>1, BinaryBits
<1>4. /\ u0 = v0 /\ u1 = v1 /\ u2 = v2 /\ u3 = v3 /\ u4 = v4 /\ u5 = 0 /\ u6 = 0 /\ u7 = 0
      /\ v5 = 0 /\ v6 = 0 /\ v7 = 0
  BY <1>2, <1>3
<1> QED
  BY <1>2, <1>3, <1>4

\* Zero has no bits.
LEMMA ZeroBits == \A b \in 0..7 : BitOf(0, b) = 0
<1>1. 0 \in Nat
  OBVIOUS
<1>2. /\ BitOf(0, 0) = 0 /\ BitOf(0, 1) = 0 /\ BitOf(0, 2) = 0 /\ BitOf(0, 3) = 0
      /\ BitOf(0, 4) = 0 /\ BitOf(0, 5) = 0 /\ BitOf(0, 6) = 0 /\ BitOf(0, 7) = 0
  BY Powers DEF BitOf
<1> QED
  BY ONLY <1>2

\* A character's bits are bits.
LEMMA DigitBits == ASSUME NEW c \in Digit, NEW i \in 0..4 PROVE BitOf(c, i) \in 0..1
<1>1. c \in Byte
  BY DEF Byte, Digit
<1>2. PICK c0 \in 0..1, c1 \in 0..1, c2 \in 0..1, c3 \in 0..1, c4 \in 0..1 :
        /\ BitOf(c, 0) = c0 /\ BitOf(c, 1) = c1 /\ BitOf(c, 2) = c2 /\ BitOf(c, 3) = c3
        /\ BitOf(c, 4) = c4
  BY ONLY <1>1, c \in Digit, BinaryBits
<1> QED
  BY <1>2

----------------------------------------------------------------------------
\* Five bits of the string are those of one character.
LEMMA CharacterBits ==
  ASSUME NEW k \in Nat, NEW t \in 0..4
  PROVE  StringBit(5 * k + t) = BitOf(s[Len(s) - k], t)
<1>1. (5 * k + t) \div 5 = k /\ (5 * k + t) % 5 = t
  OBVIOUS
<1> QED
  BY <1>1 DEF StringBit

\* Fewer bits are left over than a character has.
LEMMA FewSpare ==
  ASSUME NEW len \in Nat, IsEncodedLen(len), len # 0
  PROVE  5 * (len - 1) < 8 * DecodedLen(len) /\ 8 * DecodedLen(len) <= 5 * len
<1>1. PICK m \in Nat : m = DecodedLen(len) /\ EncodedLen(m) = len
  BY DEF DecodedLen, IsEncodedLen
<1>2. m # 0 /\ len = (m * 8 - 1) \div 5 + 1
  BY <1>1 DEF EncodedLen
<1>3. 5 * (len - 1) <= m * 8 - 1
  BY <1>2
<1>4. 8 * DecodedLen(len) <= 5 * len
  BY DEF DecodedLen
<1> QED
  BY <1>1, <1>2, <1>3, <1>4

\* Where the loop is in the row of bits.
LEMMA Position ==
  ASSUME n \in Nat
  PROVE  At \in Nat /\ Bit \in 0..7 /\ 5 * n = 8 * At + Bit
BY DEF At, Bit

\* A character that is accepted puts its bits where they belong.
LEMMA AcceptBits ==
  ASSUME LoopInv, RowInv, Accept, filling, NEW k \in DOMAIN dst
  PROVE  /\ dst'[k] \in Byte
         /\ \A b \in 0..7 : BitOf(dst'[k], b) = IF 8 * k + b < 5 * (n + 1) THEN StringBit(8 * k + b) ELSE 0
<1>1. /\ n \in Nat /\ Len(s) \in Nat /\ n < Len(s) /\ Char \in Digit /\ k \in Nat
      /\ \A i \in DOMAIN dst : dst'[i] = dst[i] + Bits[i]
  <2>1. n \in Nat /\ Len(s) \in Nat /\ n < Len(s) /\ DOMAIN dst = 0..(DecodedLen(Len(s)) - 1)
    BY DEF LoopInv, AnyString, Accept
  <2>2. Char \in Digit \cup {NoDigit}
    BY <2>1 DEF Char, LoopInv, AnyString
  <2> QED
    BY <2>1, <2>2 DEF Accept, Fill
<1>2. At \in Nat /\ Bit \in 0..7 /\ 5 * n = 8 * At + Bit
  BY <1>1, Position
<1>3. /\ dst[k] \in Byte
      /\ \A b \in 0..7 : BitOf(dst[k], b) = IF 8 * k + b < 5 * n THEN StringBit(8 * k + b) ELSE 0
  BY DEF RowInv, Going, Accept
<1>4. \A t \in 0..4 : StringBit(5 * n + t) = BitOf(Char, t)
  BY <1>1, CharacterBits DEF Char
<1>5. CASE k = At
  <2>1. dst'[k] = dst[k] + Shl(Char, Bit)
    BY <1>1, <1>5 DEF Bits
  <2>2. \A b \in Bit..7 : b \in 0..7 /\ ~(8 * k + b < 5 * n)
    BY <1>2, <1>5
  <2>3. \A b \in Bit..7 : BitOf(dst[k], b) = 0
    BY <1>3, <2>2
  <2>4. /\ dst[k] + Shl(Char, Bit) \in Byte
        /\ \A b \in 0..7 : BitOf(dst[k] + Shl(Char, Bit), b) =
             IF b < Bit THEN BitOf(dst[k], b) ELSE IF b < Bit + 5 THEN BitOf(Char, b - Bit) ELSE 0
    BY ONLY <1>1, <1>2, <1>3, <2>3, Placed
  <2>5. ASSUME NEW b \in 0..7
        PROVE  BitOf(dst'[k], b) = IF 8 * k + b < 5 * (n + 1) THEN StringBit(8 * k + b) ELSE 0
    <3>1. CASE b < Bit
      <4>1. 8 * k + b < 5 * n /\ 8 * k + b < 5 * (n + 1)
        BY <1>1, <1>2, <1>5, <3>1
      <4> QED
        BY <1>3, <2>1, <2>4, <3>1, <4>1
    <3>2. CASE b >= Bit /\ b < Bit + 5
      <4>1. 8 * k + b < 5 * (n + 1) /\ b - Bit \in 0..4 /\ 8 * k + b = 5 * n + (b - Bit) /\ ~(b < Bit)
        BY <1>1, <1>2, <1>5, <3>2
      <4> QED
        BY <1>4, <2>1, <2>4, <3>2, <4>1
    <3>3. CASE b >= Bit + 5
      <4>1. ~(8 * k + b < 5 * (n + 1)) /\ ~(b < Bit) /\ ~(b < Bit + 5)
        BY <1>1, <1>2, <1>5, <3>3
      <4> QED
        BY <2>1, <2>4, <4>1
    <3> QED
      BY <1>2, <3>1, <3>2, <3>3
  <2> QED
    BY <2>1, <2>4, <2>5
<1>6. CASE k = At + 1
  <2>1. dst'[k] = dst[k] + Carry
    BY <1>1, <1>2, <1>6 DEF Bits
  <2>2. \A b \in 0..7 : ~(8 * k + b < 5 * n)
    BY <1>1, <1>2, <1>6
  <2>3. dst[k] = 0
    <3>1. \A b \in 0..7 : BitOf(dst[k], b) = 0
      BY <1>3, <2>2
    <3> QED
      BY ONLY <1>3, <3>1, NoBits
  <2>4. /\ Carry \in Byte
        /\ \A b \in 0..7 : BitOf(Carry, b) = IF b + (8 - Bit) < 5 THEN BitOf(Char, b + (8 - Bit)) ELSE 0
    BY ONLY <1>1, <1>2, Carried DEF Carry
  <2>5. dst'[k] = Carry
    BY <2>1, <2>3, <2>4 DEF Byte
  <2>6. ASSUME NEW b \in 0..7
        PROVE  BitOf(Carry, b) = IF 8 * k + b < 5 * (n + 1) THEN StringBit(8 * k + b) ELSE 0
    <3>1. /\ 8 * k + b = 5 * n + (b + (8 - Bit)) /\ b + (8 - Bit) \in Nat
          /\ (8 * k + b < 5 * (n + 1)) <=> (b + (8 - Bit) < 5)
      BY <1>1, <1>2, <1>6
    <3>2. CASE b + (8 - Bit) < 5
      <4>1. b + (8 - Bit) \in 0..4
        BY <3>1, <3>2
      <4> QED
        BY <1>4, <2>4, <3>1, <3>2, <4>1
    <3>3. CASE ~(b + (8 - Bit) < 5)
      BY <2>4, <3>1, <3>3
    <3> QED
      BY <3>2, <3>3
  <2> QED
    BY <2>4, <2>5, <2>6
<1>7. CASE k # At /\ k # At + 1
  <2>1. dst'[k] = dst[k]
    <3>1. Bits[k] = 0
      BY <1>7 DEF Bits
    <3>2. dst[k] \in Int
      BY <1>3 DEF Byte
    <3>3. dst'[k] = dst[k] + Bits[k]
      BY <1>1
    <3> QED
      BY ONLY <3>1, <3>2, <3>3
  <2>2. \A b \in 0..7 : (8 * k + b < 5 * (n + 1)) <=> (8 * k + b < 5 * n)
    BY <1>1, <1>2, <1>7, SMTT(30)
  <2> QED
    BY <1>3, <2>1, <2>2
<1> QED
  BY <1>5, <1>6, <1>7

\* What the last character has too many is zero where it is accepted, ...
LEMMA AcceptSpare ==
  ASSUME LoopInv, Accept, n + 1 = Len(s), IsEncodedLen(Len(s)), NEW b \in Spare
  PROVE  StringBit(b) = 0
<1>1. /\ n \in Nat /\ Len(s) \in Nat /\ Len(s) # 0 /\ n = Len(s) - 1 /\ Char \in Digit
      /\ (Final => Carry = 0) /\ DecodedLen(Len(s)) \in Nat
  <2>1. n \in Nat /\ Len(s) \in Nat /\ n < Len(s)
    BY DEF LoopInv, AnyString, Accept
  <2>2. Char \in Digit \cup {NoDigit}
    BY <2>1 DEF Char, LoopInv, AnyString
  <2> QED
    BY <2>1, <2>2 DEF Accept, DecodedLen
<1>2. At \in Nat /\ Bit \in 0..7 /\ 5 * n = 8 * At + Bit
  BY <1>1, Position
<1>3. 5 * n < 8 * DecodedLen(Len(s)) /\ 8 * DecodedLen(Len(s)) <= 5 * Len(s)
  BY <1>1, FewSpare
<1>4. At = DecodedLen(Len(s)) - 1
  BY <1>1, <1>2, <1>3
<1>5. Carry = 0
  BY <1>1, <1>4 DEF Final
<1>6. PICK t \in 0..4 : /\ b = 5 * n + t /\ t - (8 - Bit) \in 0..7
                       /\ (t - (8 - Bit)) + (8 - Bit) = t /\ t < 5
  <2>1. b \in Int /\ 8 * DecodedLen(Len(s)) <= b /\ b <= 5 * Len(s) - 1
    BY <1>1 DEF Spare
  <2>2. PICK num \in Nat, at \in Nat, bit \in 0..7, x \in Int :
          num = n /\ at = At /\ bit = Bit /\ x = b
    BY <1>1, <1>2, <2>1, Zenon
  <2>3. 8 * (at + 1) <= x
    BY ONLY <1>1, <1>4, <2>1, <2>2, at \in Nat, SMTT(30)
  <2>4. x <= 5 * (num + 1) - 1
    BY ONLY <1>1, <2>1, <2>2
  <2>5. 5 * num = 8 * at + bit
    BY ONLY <1>2, <2>2
  <2>6. x - 5 * num \in 0..4
    BY <2>3, <2>4, <2>5
  <2>7. PICK t \in 0..4 : t = x - 5 * num
    BY ONLY <2>6
  <2>8. /\ x = 5 * num + t /\ t - (8 - bit) \in 0..7
        /\ (t - (8 - bit)) + (8 - bit) = t /\ t < 5
    BY <2>3, <2>4, <2>5, <2>7
  <2> QED
    BY ONLY <2>2, <2>8, t \in 0..4
<1>7. StringBit(b) = BitOf(Char, t)
  BY <1>1, <1>6, CharacterBits DEF Char
<1>8. \A m \in 0..7 : BitOf(Carry, m) = IF m + (8 - Bit) < 5 THEN BitOf(Char, m + (8 - Bit)) ELSE 0
  BY ONLY <1>1, <1>2, Carried DEF Carry
<1>9. BitOf(Char, t) = BitOf(0, t - (8 - Bit))
  BY <1>5, <1>6, <1>8
<1> QED
  BY <1>6, <1>7, <1>9, ZeroBits

\* ... and it is not where it is refused.
LEMMA RejectSpare ==
  ASSUME LoopInv, status = "run", Char # NoDigit, Final, Carry # 0
  PROVE  \E b \in Spare : StringBit(b) = 1
<1>1. n \in Nat /\ Len(s) \in Nat /\ n < Len(s) /\ Char \in Digit /\ DecodedLen(Len(s)) \in Nat
  <2>1. n \in Nat /\ Len(s) \in Nat /\ n < Len(s)
    BY DEF LoopInv, AnyString
  <2>2. Char \in Digit \cup {NoDigit}
    BY <2>1 DEF Char, LoopInv, AnyString
  <2> QED
    BY <2>1, <2>2 DEF DecodedLen
<1>2. At \in Nat /\ Bit \in 0..7 /\ 5 * n = 8 * At + Bit
  BY <1>1, Position
<1>3. /\ Carry \in Byte
      /\ \A m \in 0..7 : BitOf(Carry, m) = IF m + (8 - Bit) < 5 THEN BitOf(Char, m + (8 - Bit)) ELSE 0
  BY ONLY <1>1, <1>2, Carried DEF Carry
<1>4. PICK m \in 0..7 : BitOf(Carry, m) # 0
  <2>1. (\A m \in 0..7 : BitOf(Carry, m) = 0) => Carry = 0
    BY ONLY <1>3, NoBits
  <2> QED
    BY <2>1
<1>5. m + (8 - Bit) < 5 /\ BitOf(Char, m + (8 - Bit)) # 0
  BY <1>3, <1>4
<1> DEFINE t == m + (8 - Bit)
<1>6. t \in 0..4 /\ 5 * n + t \in Spare
  <2>1. t \in 0..4 /\ 5 * n + t = 8 * At + 8 + m
    BY <1>1, <1>2, <1>5
  <2>2. 8 * DecodedLen(Len(s)) = 8 * At + 8
    BY <1>1, <1>2, SMTT(30) DEF Final
  <2>3. 5 * n + t <= 5 * Len(s) - 1
    BY <1>1, <2>1
  <2> QED
    BY <1>1, <1>2, <2>1, <2>2, <2>3 DEF Spare
<1>7. StringBit(5 * n + t) = BitOf(Char, t)
  BY <1>1, <1>6, CharacterBits DEF Char
<1>8. BitOf(Char, t) = 1
  <2>1. BitOf(Char, t) # 0
    BY <1>5
  <2> HIDE DEF t
  <2>2. \A d \in Digit : \A i \in 0..4 : BitOf(d, i) \in 0..1
    BY DigitBits
  <2> QED
    BY <1>1, <1>6, <2>1, <2>2
<1> QED
  BY <1>6, <1>7, <1>8

\* Each step of the loop keeps what is known of the row (nixbase32.go:19-51).
LEMMA RowStep == ASSUME LoopInv, RowInv, DecodeStep PROVE RowInv'
<1>1. \A b : (s' = s => StringBit(b)' = StringBit(b))
  BY DEF StringBit
<1>2. CASE Reject
  <2>1. UNCHANGED <<s, filling, n, dst>> /\ status = "run"
    BY <1>2 DEF Reject, EndWith
  <2>2. CASE Char = NoDigit /\ status' = "character"
    <3>1. Len(s) - n \in 1..Len(s)
      BY <2>1 DEF LoopInv, AnyString
    <3> QED
      BY <2>1, <2>2, <3>1 DEF RowInv, Going, Char
  <2>3. CASE Char # NoDigit /\ Final /\ Carry # 0 /\ status' = "encoding"
    <3>1. PICK b \in Spare : StringBit(b) = 1
      BY <2>1, <2>3, RejectSpare
    <3>2. Spare' = Spare
      BY <2>1 DEF Spare
    <3>3. b \in Spare' /\ StringBit(b)' = 1
      BY <1>1, <2>1, <3>1, <3>2
    <3> QED
      BY <2>1, <2>3, <3>3 DEF RowInv, Going
  <2> QED
    BY <1>2, <2>2, <2>3 DEF Reject, EndWith
<1>3. CASE Panic
  BY <1>3 DEF Panic, EndWith, RowInv, Going
<1>4. CASE Accept
  <2>1. /\ s' = s /\ filling' = filling /\ n' = n + 1 /\ DOMAIN dst' = DOMAIN dst /\ status = "run"
        /\ status' = IF n' = Len(s) THEN "ok" ELSE "run"
    BY <1>4 DEF Accept, Fill
  <2>2. n \in Nat /\ Len(s) \in Nat /\ n < Len(s) /\ Char \in Digit
    <3>1. n \in Nat /\ Len(s) \in Nat /\ n < Len(s)
      BY <2>1 DEF LoopInv, AnyString
    <3>2. Char \in Digit \cup {NoDigit}
      BY <3>1 DEF Char, LoopInv, AnyString
    <3> QED
      BY <1>4, <3>1, <3>2 DEF Accept
  <2>3. /\ n' <= Len(s') /\ DOMAIN dst' = 0..(DecodedLen(Len(s')) - 1)
        /\ \A k \in 0..(n' - 1) : s'[Len(s') - k] \in Digit
    <3>1. /\ DOMAIN dst = 0..(DecodedLen(Len(s)) - 1)
          /\ \A k \in 0..(n - 1) : s[Len(s) - k] \in Digit
      BY <2>1 DEF RowInv, Going
    <3>2. \A k \in 0..((n + 1) - 1) : k \in 0..(n - 1) \/ k = n
      BY <2>2
    <3>3. s[Len(s) - n] \in Digit
      BY <2>2 DEF Char
    <3> QED
      BY <2>1, <2>2, <3>1, <3>2, <3>3
  <2>4. filling' => \A k \in DOMAIN dst' :
          /\ dst'[k] \in Byte
          /\ \A b \in 0..7 :
               BitOf(dst'[k], b) = IF 8 * k + b < 5 * n' THEN StringBit(8 * k + b)' ELSE 0
    BY <1>1, <1>4, <2>1, AcceptBits
  <2>5. status' = "ok" => n' = Len(s')
    BY <2>1
  <2>6. status' = "ok" /\ IsEncodedLen(Len(s')) => \A b \in Spare' : StringBit(b)' = 0
    <3>1. Spare' = Spare
      BY <2>1 DEF Spare
    <3> QED
      BY <1>1, <1>4, <2>1, <2>5, <3>1, AcceptSpare
  <2>7. status' # "encoding" /\ status' # "character"
    BY <2>1
  <2> QED
    BY <2>3, <2>4, <2>5, <2>6, <2>7 DEF RowInv
<1> QED
  BY <1>2, <1>3, <1>4 DEF DecodeStep


\* The bits of the bytes are bits of the characters.
LEMMA RowFits ==
  ASSUME NEW bytes \in Nat, NEW chars \in Nat, 8 * bytes <= 5 * chars
  PROVE  \A k \in 0..(bytes - 1), b \in 0..7 : 8 * k + b < 5 * chars
<1> TAKE k \in 0..(bytes - 1), b \in 0..7
<1>1. 8 * k + b < 8 * bytes
  OBVIOUS
<1> QED
  BY <1>1

\* Nothing is shifted out of nothing.
LEMMA NothingCarried == ASSUME NEW j \in 0..7 PROVE Shl(0, 8 - j) = 0
<1>1. \A k \in 1..8 : 0 * 2^k = 0
  BY Powers
<1>2. 8 - j \in 1..8
  OBVIOUS
<1> QED
  BY <1>1, <1>2 DEF Shl

(***************************************************************************)
(* EncodeToString takes from the bytes, for each character of the string,  *)
(* the five bits that are this character's (nixbase32.go:89-101).          *)
(***************************************************************************)
LEMMA EncodesCharacter ==
  ASSUME LoopInv, RowInv, status = "ok", filling, IsEncodedLen(Len(s)), NEW c \in 1..Len(s),
         NEW i \in Nat, NEW j \in 0..7, NEW b \in Nat,
         b = (Len(s) - c) * 5, i = b \div 8, j = b % 8
  PROVE  (Shr(dst[i], j) + (IF i + 1 < DecodedLen(Len(s)) THEN Shl(dst[i + 1], 8 - j) ELSE 0)) % 32
           = s[c]
<1> DEFINE D == DecodedLen(Len(s))
           y == IF i + 1 < D THEN dst[i + 1] ELSE 0
           v == (Shr(dst[i], j) + Shl(y, 8 - j)) % 32
<1>1. /\ Len(s) \in Nat /\ Len(s) # 0 /\ n = Len(s) /\ D \in Nat
      /\ DOMAIN dst = 0..(D - 1)
      /\ \A k \in 0..(n - 1) : s[Len(s) - k] \in Digit
      /\ \A k \in DOMAIN dst :
           /\ dst[k] \in Byte
           /\ \A a \in 0..7 : BitOf(dst[k], a) = IF 8 * k + a < 5 * n THEN StringBit(8 * k + a) ELSE 0
      /\ \A a \in Spare : StringBit(a) = 0
  <2>1. Len(s) \in Nat
    BY DEF LoopInv, AnyString
  <2> QED
    BY <2>1 DEF RowInv, Going, DecodedLen
<1>2. b = 8 * i + j /\ b + 4 <= 5 * Len(s) - 1 /\ 5 * (Len(s) - c) = b /\ Len(s) - c \in 0..(n - 1)
  <2>1. b = 8 * i + j
    <3>1. \A a \in Nat : a = 8 * (a \div 8) + (a % 8)
      OBVIOUS
    <3> QED
      BY ONLY <3>1, b \in Nat, i = b \div 8, j = b % 8
  <2>2. c \in Nat /\ 1 <= c /\ c <= Len(s)
    BY <1>1
  <2>3. b + 4 <= 5 * Len(s) - 1 /\ 5 * (Len(s) - c) = b
    BY <1>1, <2>2
  <2>4. Len(s) - c \in 0..(n - 1)
    BY <1>1, <2>2
  <2> QED
    BY <2>1, <2>3, <2>4
<1>3. i \in 0..(D - 1)
  <2>1. Len(s) - c \in Nat /\ Len(s) - c < Len(s)
    BY <1>1
  <2> QED
    BY <1>1, <2>1, WithinBytes
<1>4. 8 * D <= 5 * Len(s)
  BY <1>1, FewSpare
<1>5. dst[i] \in Byte /\ \A a \in 0..7 : BitOf(dst[i], a) = StringBit(8 * i + a)
  <2>1. \A a \in 0..7 : 8 * i + a < 5 * n
    BY ONLY <1>1, <1>3, <1>4, RowFits
  <2> QED
    BY <1>1, <1>3, <2>1
<1>6. /\ y \in Byte
      /\ \A a \in 0..7 : 8 * (i + 1) + a <= 5 * Len(s) - 1 => BitOf(y, a) = StringBit(8 * (i + 1) + a)
  <2>1. CASE i + 1 < D
    <3>1. i + 1 \in 0..(D - 1) /\ y = dst[i + 1]
      BY <1>1, <1>3, <2>1, SMTT(30)
    <3>2. \A a \in 0..7 : 8 * (i + 1) + a < 5 * n
      BY ONLY <1>1, <1>4, <3>1, RowFits
    <3> QED
      BY <1>1, <3>1, <3>2, ZenonT(30)
  <2>2. CASE ~(i + 1 < D)
    <3>1. y = 0 /\ y \in Byte
      BY <2>2 DEF Byte
    <3>2. \A a \in 0..7 : 8 * D <= 8 * (i + 1) + a /\ 8 * (i + 1) + a \in Int
      BY ONLY <1>1, <2>2, i \in Nat
    <3>3. \A a \in 0..7 : 8 * (i + 1) + a <= 5 * Len(s) - 1 => 8 * (i + 1) + a \in Spare
      <4>1. Spare = (8 * D)..(5 * Len(s) - 1) /\ D \in Int /\ Len(s) \in Int
        BY <1>1 DEF Spare
      <4> HIDE DEF D, y
      <4> TAKE a \in 0..7
      <4> HAVE 8 * (i + 1) + a <= 5 * Len(s) - 1
      <4>2. 8 * D <= 8 * (i + 1) + a /\ 8 * (i + 1) + a \in Int
        BY <3>2
      <4> QED
        BY ONLY <4>1, <4>2, 8 * (i + 1) + a <= 5 * Len(s) - 1
    <3> QED
      BY <1>1, <3>1, <3>3, ZeroBits
  <2> QED
    BY <2>1, <2>2
<1>7. v = (Shr(dst[i], j) + (IF i + 1 < D THEN Shl(dst[i + 1], 8 - j) ELSE 0)) % 32
  BY NothingCarried
<1> HIDE DEF y, D
<1>8. /\ v \in Byte
      /\ \A a \in 0..7 : BitOf(v, a) =
           IF a > 4 THEN 0 ELSE IF a + j < 8 THEN BitOf(dst[i], a + j) ELSE BitOf(y, a + j - 8)
  BY ONLY <1>5, <1>6, j \in 0..7, Taken
<1> HIDE DEF v
<1>9. \A a \in 5..7 : BitOf(v, a) = 0
  <2>1. \A a \in 5..7 : a \in 0..7 /\ a > 4
    OBVIOUS
  <2> QED
    BY <1>8, <2>1
<1>10. ASSUME NEW a \in 0..4 PROVE BitOf(s[c], a) = BitOf(v, a)
  <2>1. StringBit(b + a) = BitOf(s[c], a)
    <3>1. Len(s) - c \in Nat /\ Len(s) - (Len(s) - c) = c
      BY <1>1
    <3>2. StringBit(5 * (Len(s) - c) + a) = BitOf(s[Len(s) - (Len(s) - c)], a)
      BY <3>1, CharacterBits
    <3> QED
      BY <1>2, <3>1, <3>2
  <2>2. CASE a + j < 8
    <3>1. a + j \in 0..7 /\ 8 * i + (a + j) = b + a /\ ~(a > 4) /\ a \in 0..7
      BY ONLY <1>2, <2>2, i \in Nat, j \in 0..7, a \in 0..4, b \in Nat
    <3> QED
      BY <1>5, <1>8, <2>1, <2>2, <3>1
  <2>3. CASE ~(a + j < 8)
    <3>1. /\ a + j - 8 \in 0..7 /\ 8 * (i + 1) + (a + j - 8) = b + a /\ ~(a > 4) /\ a \in 0..7
          /\ b + a <= 5 * Len(s) - 1
      <4>1. /\ a + j - 8 \in 0..7 /\ 8 * (i + 1) + (a + j - 8) = b + a
            /\ ~(a > 4) /\ a \in 0..7
        BY ONLY <1>2, <2>3, i \in Nat, j \in 0..7, a \in 0..4, b \in Nat
      <4>2. b + a <= 5 * Len(s) - 1
        BY ONLY <1>1, <1>2, a \in 0..4, b \in Nat
      <4> QED
        BY <4>1, <4>2
    <3> QED
      BY <1>6, <1>8, <2>1, <2>3, <3>1
  <2> QED
    BY <2>2, <2>3
<1>11. s[c] \in Digit
  <2>1. Len(s) - (Len(s) - c) = c
    BY <1>1
  <2> QED
    BY <1>1, <1>2, <2>1
<1>12. s[c] = v
  BY ONLY <1>8, <1>9, <1>10, <1>11, ByBits
<1> QED
  BY <1>7, <1>12 DEF D

(***************************************************************************)
(* The row of bits, once the loop is over, is what DecodesBits says of it. *)
(***************************************************************************)
LEMMA RowDecodes == ASSUME LoopInv, RowInv PROVE DecodesBits
<1> SUFFICES ASSUME IsEncodedLen(Len(s)), status = "ok", filling
             PROVE  /\ \A k \in DOMAIN dst : dst[k] \in Byte
                    /\ \A k \in DOMAIN dst, b \in 0..7 : BitOf(dst[k], b) = StringBit(8 * k + b)
                    /\ EncodeToString(dst, DecodedLen(Len(s))) = s
  BY DEF RowInv, DecodesBits
<1>1. /\ Len(s) \in Nat /\ n = Len(s) /\ DecodedLen(Len(s)) \in Nat
      /\ DOMAIN dst = 0..(DecodedLen(Len(s)) - 1)
      /\ \A k \in DOMAIN dst :
           /\ dst[k] \in Byte
           /\ \A b \in 0..7 : BitOf(dst[k], b) = IF 8 * k + b < 5 * n THEN StringBit(8 * k + b) ELSE 0
  <2>1. Len(s) \in Nat
    BY DEF LoopInv, AnyString
  <2> QED
    BY <2>1 DEF RowInv, Going, DecodedLen
<1>2. \A k \in DOMAIN dst, b \in 0..7 : 8 * k + b < 5 * n
  <2>1. 8 * DecodedLen(Len(s)) <= 5 * Len(s)
    BY <1>1 DEF DecodedLen
  <2> QED
    BY ONLY <1>1, <2>1, RowFits
<1>3. EncodeToString(dst, DecodedLen(Len(s))) = s
  <2>1. EncodedLen(DecodedLen(Len(s))) = Len(s)
    BY DEF IsEncodedLen
  <2>2. ASSUME NEW c \in 1..Len(s)
        PROVE  EncodeToString(dst, DecodedLen(Len(s)))[c] = s[c]
    <3> DEFINE b == (Len(s) - c) * 5
               i == b \div 8
               j == b % 8
    <3>1. b \in Nat /\ i \in Nat /\ j \in 0..7
      BY <1>1, SMTT(30)
    <3>2. EncodeToString(dst, DecodedLen(Len(s)))[c] =
            (Shr(dst[i], j) + (IF i + 1 < DecodedLen(Len(s)) THEN Shl(dst[i + 1], 8 - j) ELSE 0)) % 32
      BY <2>1 DEF EncodeToString
    <3> QED
      BY <3>1, <3>2, EncodesCharacter, ZenonT(30)
  <2>3. EncodeToString(dst, DecodedLen(Len(s))) =
          [c \in 1..Len(s) |-> EncodeToString(dst, DecodedLen(Len(s)))[c]]
    BY <2>1 DEF EncodeToString
  <2>4. s = [c \in 1..Len(s) |-> s[c]]
    BY DEF LoopInv, AnyString
  <2> QED
    BY <2>2, <2>3, <2>4
<1> QED
  BY <1>1, <1>2, <1>3

(***************************************************************************)
(* The loop's own steps (nixbase32.go:21-50).                              *)
(***************************************************************************)
LEMMA LoopStep ==
  ASSUME LoopInv, PanicsOnOddLengths, DecodeStep
  PROVE  LoopInv' /\ PanicsOnOddLengths' /\ s' = s
<1>1. CASE Reject
  BY <1>1 DEF Reject, EndWith, LoopInv, PanicsOnOddLengths
<1>2. CASE Panic
  <2>1. s' = s /\ n' = n /\ status' = "panic" /\ LoopInv'
    BY <1>2 DEF Panic, EndWith, LoopInv
  <2>2. ~IsEncodedLen(Len(s))
    <3> SUFFICES ASSUME IsEncodedLen(Len(s)) PROVE FALSE
      OBVIOUS
    <3>1. Len(s) \in Nat /\ n \in Nat /\ n < Len(s)
      BY <1>2 DEF Panic, LoopInv, AnyString
    <3>2. At \in DOMAIN dst
      BY <3>1, <1>2, WithinBytes DEF Panic, LoopInv, At
    <3> QED
      BY <3>2, <1>2 DEF Panic
  <2> QED
    BY <2>1, <2>2 DEF PanicsOnOddLengths
<1>3. CASE Accept
  <2>1. /\ s' = s /\ n' = n + 1 /\ DOMAIN dst' = DOMAIN dst /\ status = "run"
        /\ status' = IF n' = Len(s) THEN "ok" ELSE "run"
    BY <1>3 DEF Accept, Fill
  <2>2. Len(s) \in Nat /\ n \in Nat /\ n < Len(s)
    BY <2>1 DEF LoopInv, AnyString
  <2> QED
    BY <2>1, <2>2 DEF LoopInv, PanicsOnOddLengths
<1> QED
  BY <1>1, <1>2, <1>3 DEF DecodeStep

----------------------------------------------------------------------------
(***************************************************************************)
(* FromString (nixpath.go:54-115).                                         *)
(***************************************************************************)
\* A call of the decoder begins, with an empty row.
LEMMA StartInv ==
  ASSUME NEW string \in AnyString, NEW fill, Becomes(Start(string, fill))
  PROVE  /\ LoopInv' /\ RowInv' /\ s' = string /\ filling' = fill
         /\ status' \in {"run", "ok"}
<1>1. /\ s' = string /\ n' = 0 /\ filling' = fill
      /\ dst' = [k \in 0..(DecodedLen(Len(string)) - 1) |-> 0]
      /\ status' = IF string = << >> THEN "ok" ELSE "run"
  BY DEF Becomes, Start
<1>2. Len(string) \in Nat /\ (string # << >> => 0 < Len(string)) /\ (string = << >> => Len(string) = 0)
  BY DEF AnyString
<1>3. LoopInv'
  BY <1>1, <1>2 DEF LoopInv
<1>4. /\ n' <= Len(s') /\ \A k \in 0..(n' - 1) : s'[Len(s') - k] \in Digit
      /\ DOMAIN dst' = 0..(DecodedLen(Len(s')) - 1)
  BY <1>1, <1>2
<1>5. ASSUME NEW k \in DOMAIN dst'
      PROVE  /\ dst'[k] \in Byte
             /\ \A b \in 0..7 :
                  BitOf(dst'[k], b) = IF 8 * k + b < 5 * n' THEN StringBit(8 * k + b)' ELSE 0
  <2>1. dst'[k] = 0 /\ k \in Nat
    BY <1>1, <1>2 DEF DecodedLen
  <2>2. \A b \in 0..7 : ~(8 * k + b < 5 * n')
    BY <1>1, <2>1
  <2> QED
    BY <2>1, <2>2, ZeroBits DEF Byte
<1>6. status' = "ok" => n' = Len(s')
  BY <1>1, <1>2
<1>7. status' = "ok" => Spare' = {}
  BY <1>1, <1>2 DEF Spare, DecodedLen
<1>8. status' \in {"run", "ok"}
  BY <1>1
<1>9. RowInv'
  BY <1>4, <1>5, <1>6, <1>7, <1>8 DEF RowInv
<1> QED
  BY <1>1, <1>3, <1>8, <1>9

\* Outside of such a call nothing happens to what it left.
LEMMA Between ==
  ASSUME LoopInv, RowInv, PanicsOnOddLengths, UNCHANGED decoder
  PROVE  LoopInv' /\ RowInv' /\ PanicsOnOddLengths'
<1>1. UNCHANGED <<s, filling, n, dst, status>>
  BY DEF decoder
<1>2. \A b : StringBit(b)' = StringBit(b)
  BY <1>1 DEF StringBit
<1>3. Spare' = Spare /\ Going' = Going
  BY <1>1 DEF Spare, Going
<1>4. RowInv'
  BY <1>1, <1>2, <1>3 DEF RowInv
<1> QED
  BY <1>1, <1>4 DEF LoopInv, PanicsOnOddLengths

\* A hash is a string for the decoder.
LEMMA HashIsString == ASSUME NEW h \in [1..HashLen -> Digit \cup {NoDigit}]
                      PROVE  h \in AnyString /\ Len(h) = HashLen
BY HashIsEncoded DEF AnyString

\* Its characters have no bits too many, as the 32 characters of 20 bytes.
LEMMA NoSpareInHash ==
  ASSUME NothingToSpare, Len(s) = HashLen
  PROVE  Spare = {}
<1>1. PICK q \in Nat : PathHashSize = 5 * q /\ q # 0
  <2>1. PathHashSize \in Nat \ {0} /\ PathHashSize = 5 * (PathHashSize \div 5) + (PathHashSize % 5)
    BY HashAssumption
  <2> QED
    BY <2>1 DEF NothingToSpare
<1>2. HashLen = 8 * q
  BY <1>1 DEF HashLen, EncodedLen
<1>3. DecodedLen(HashLen) = 5 * q
  BY <1>2 DEF DecodedLen
<1> QED
  BY <1>2, <1>3 DEF Spare

(***************************************************************************)
(* What the decoder refuses, PathRe does not match (nixpath.go:20, 59-62). *)
(***************************************************************************)
LEMMA Refused ==
  ASSUME IInv, pc \in {"hash", "digest"}, status # "run", status # "ok", NothingToSpare
  PROVE  ~MatchesPathRe(input)
<1>1. /\ s = input.hash /\ Len(s) = HashLen /\ status # "idle"
      /\ input.hash \in [1..HashLen -> Digit \cup {NoDigit}]
  BY DEF IInv, PathInv, PathText
<1>2. status # "panic"
  BY <1>1, HashIsEncoded DEF IInv, PanicsOnOddLengths
<1>3. status # "encoding"
  BY <1>1, HashIsEncoded, NoSpareInHash DEF IInv, RowInv
<1>4. status = "character"
  BY <1>1, <1>2, <1>3 DEF IInv, LoopInv
<1>5. PICK k \in 1..HashLen : input.hash[k] = NoDigit
  BY <1>1, <1>4 DEF IInv, RowInv
<1> QED
  BY <1>1, <1>5 DEF MatchesPathRe

\* FromString has been called, or the decoder on its own.
LEMMA InitInv == Init => IInv
<1> SUFFICES ASSUME Init PROVE IInv
  OBVIOUS
<1>1. CASE \E p \in Inputs : pc = "validate" /\ input = p
              /\ s = p.hash /\ filling = FALSE /\ n = 0 /\ dst = << >> /\ status = "idle"
  <2>1. /\ pc = "validate" /\ input \in Inputs /\ s = input.hash /\ n = 0 /\ status = "idle"
    BY <1>1
  <2>2. input \in PathText
    BY <2>1, InputAssumption DEF PathText
  <2>3. s \in AnyString /\ Len(s) = HashLen
    BY <2>1, <2>2, HashIsString DEF PathText
  <2> QED
    BY <2>1, <2>2, <2>3 DEF IInv, LoopInv, RowInv, Going, PathInv, PanicsOnOddLengths
<1>2. CASE \E string \in Strings, fill \in BOOLEAN : pc = "decode" /\ input = string
              /\ LET d == Start(string, fill) IN
                   s = d.s /\ filling = d.filling /\ n = d.n /\ dst = d.dst /\ status = d.status
  <2>1. PICK string \in Strings :
          /\ pc = "decode" /\ s = string /\ n = 0
          /\ dst = [k \in 0..(DecodedLen(Len(string)) - 1) |-> 0]
          /\ status = IF string = << >> THEN "ok" ELSE "run"
    BY <1>2 DEF Start
  <2>2. /\ string \in AnyString /\ Len(string) \in Nat
        /\ (string # << >> => 0 < Len(string)) /\ (string = << >> => Len(string) = 0)
    BY InputAssumption DEF AnyString
  <2>3. LoopInv /\ PathInv /\ PanicsOnOddLengths
    BY <2>1, <2>2 DEF LoopInv, PathInv, PanicsOnOddLengths
  <2>4. /\ n <= Len(s) /\ \A k \in 0..(n - 1) : s[Len(s) - k] \in Digit
        /\ DOMAIN dst = 0..(DecodedLen(Len(s)) - 1)
    BY <2>1, <2>2
  <2>5. ASSUME NEW k \in DOMAIN dst
        PROVE  /\ dst[k] \in Byte
               /\ \A b \in 0..7 :
                    BitOf(dst[k], b) = IF 8 * k + b < 5 * n THEN StringBit(8 * k + b) ELSE 0
    <3>1. dst[k] = 0 /\ k \in Nat
      BY <2>1, <2>2 DEF DecodedLen
    <3>2. \A b \in 0..7 : ~(8 * k + b < 5 * n)
      BY <2>1, <3>1
    <3> QED
      BY <3>1, <3>2, ZeroBits DEF Byte
  <2>6. status \in {"run", "ok"} /\ (status = "ok" => n = Len(s) /\ Spare = {})
    BY <2>1, <2>2 DEF Spare, DecodedLen
  <2>7. RowInv
    BY <2>4, <2>5, <2>6 DEF RowInv
  <2> QED
    BY <2>3, <2>7 DEF IInv
<1> QED
  BY <1>1, <1>2 DEF Init

\* Every step keeps the invariant.
LEMMA NextInv == IInv /\ [Next]_vars => IInv'
<1> SUFFICES ASSUME IInv, [Next]_vars PROVE IInv'
  OBVIOUS
<1>1. LoopInv /\ RowInv /\ PathInv /\ PanicsOnOddLengths
  BY DEF IInv
<1>2. CASE ValidateHead
  <2>1. CASE ~(LongEnough(input) /\ input.dir = Store)
    <3>1. pc = "validate" /\ pc' = "failed" /\ UNCHANGED <<decoder, input, parsed>>
      BY <1>2, <2>1 DEF ValidateHead, Fail
    <3>2. LoopInv' /\ RowInv' /\ PanicsOnOddLengths'
      BY <1>1, <3>1, Between
    <3>3. ~MatchesPathRe(input)
      BY <2>1, <3>1, <1>1 DEF MatchesPathRe, LongEnough, PathInv, PathText
    <3>4. PathInv'
      BY <1>1, <3>1, <3>3 DEF PathInv, decoder, MatchesPathRe
    <3> QED
      BY <3>2, <3>4 DEF IInv
  <2>2. CASE LongEnough(input) /\ input.dir = Store
    <3>1. /\ pc = "validate" /\ pc' = "hash" /\ Becomes(Start(input.hash, FALSE))
          /\ UNCHANGED <<input, parsed>>
      BY <1>2, <2>2 DEF ValidateHead
    <3>2. input \in PathText /\ input.hash \in AnyString /\ Len(input.hash) = HashLen
      BY <1>1, <3>1, HashIsString DEF PathInv, PathText
    <3>3. LoopInv' /\ RowInv' /\ s' = input.hash /\ status' \in {"run", "ok"}
      BY <3>1, <3>2, StartInv
    <3>4. input.name # << >>
      BY <2>2, <3>2 DEF LongEnough, PathText
    <3>5. PathInv'
      BY <2>2, <3>1, <3>2, <3>3, <3>4 DEF PathInv
    <3> QED
      BY <3>3, <3>5 DEF IInv, PanicsOnOddLengths
  <2> QED
    BY <2>1, <2>2
<1>3. CASE ValidateName
  <2>1. CASE ~(status = "ok" /\ (\A k \in DOMAIN input.name : input.name[k] \in NameChar))
    <3>1. pc = "hash" /\ status # "run" /\ pc' = "failed" /\ UNCHANGED <<decoder, input, parsed>>
      BY <1>3, <2>1 DEF ValidateName, Fail
    <3>2. LoopInv' /\ RowInv' /\ PanicsOnOddLengths'
      BY <1>1, <3>1, Between
    <3>3. NothingToSpare => ~MatchesPathRe(input)
      <4>1. CASE status # "ok"
        BY <3>1, <4>1, Refused
      <4>2. CASE ~(\A k \in DOMAIN input.name : input.name[k] \in NameChar)
        BY <4>2 DEF MatchesPathRe
      <4> QED
        BY <2>1, <4>1, <4>2
    <3>4. PathInv'
      BY <1>1, <3>1, <3>3 DEF PathInv, decoder, MatchesPathRe
    <3> QED
      BY <3>2, <3>4 DEF IInv
  <2>2. CASE status = "ok" /\ \A k \in DOMAIN input.name : input.name[k] \in NameChar
    <3>1. /\ pc = "hash" /\ pc' = "digest" /\ Becomes(Start(input.hash, TRUE))
          /\ UNCHANGED <<input, parsed>>
      BY <1>3, <2>2 DEF ValidateName
    <3>2. /\ input \in PathText /\ input.hash \in AnyString /\ Len(input.hash) = HashLen
          /\ input.dir = Store /\ input.name # << >>
      BY <1>1, <3>1, HashIsString DEF PathInv, PathText
    <3>3. /\ LoopInv' /\ RowInv' /\ s' = input.hash /\ filling' = TRUE
          /\ status' \in {"run", "ok"}
      BY <3>1, <3>2, StartInv, Zenon
    <3>4. filling'
      BY <3>3, Zenon
    <3>5. PathInv'
      BY <3>1, <3>2, <3>3, <3>4 DEF PathInv
    <3> QED
      BY <3>3, <3>5 DEF IInv, PanicsOnOddLengths
  <2> QED
    BY <2>1, <2>2
<1>4. CASE Decoded
  <2>1. pc = "digest" /\ status # "run" /\ UNCHANGED <<decoder, input>>
    BY <1>4 DEF Decoded, Fail
  <2>2. LoopInv' /\ RowInv' /\ PanicsOnOddLengths'
    BY <1>1, <2>1, Between
  <2>3. CASE status = "ok"
    <3>1. pc' = "done" /\ parsed' = [name |-> input.name, digest |-> dst]
      BY <1>4, <2>3 DEF Decoded
    <3>2. PathInv'
      BY <1>1, <2>1, <2>3, <3>1 DEF PathInv, decoder
    <3> QED
      BY <2>2, <3>2 DEF IInv
  <2>4. CASE status # "ok"
    <3>1. pc' = "failed"
      BY <1>4, <2>4 DEF Decoded, Fail
    <3>2. NothingToSpare => ~MatchesPathRe(input)
      BY <2>1, <2>4, Refused
    <3>3. PathInv'
      BY <1>1, <2>1, <3>1, <3>2 DEF PathInv, decoder, MatchesPathRe
    <3> QED
      BY <2>2, <3>3 DEF IInv
  <2> QED
    BY <2>3, <2>4
<1>5. CASE DecodeStep /\ UNCHANGED <<pc, input, parsed>>
  <2>1. LoopInv' /\ PanicsOnOddLengths' /\ s' = s
    BY <1>1, <1>5, LoopStep
  <2>2. RowInv'
    BY <1>1, <1>5, RowStep
  <2>3. status = "run" /\ status' # "idle" /\ filling' = filling
    BY <1>5 DEF DecodeStep, Reject, Panic, Accept, EndWith
  <2>4. PathInv'
    BY <1>1, <1>5, <2>1, <2>3 DEF PathInv, MatchesPathRe
  <2> QED
    BY <2>1, <2>2, <2>4 DEF IInv
<1>6. CASE UNCHANGED vars
  <2>1. UNCHANGED <<decoder, pc, input, parsed>>
    BY <1>6 DEF vars
  <2>2. LoopInv' /\ RowInv' /\ PanicsOnOddLengths'
    BY <1>1, <2>1, Between
  <2>3. PathInv'
    BY <1>1, <2>1 DEF PathInv, decoder, MatchesPathRe
  <2> QED
    BY <2>2, <2>3 DEF IInv
<1> QED
  BY <1>2, <1>3, <1>4, <1>5, <1>6 DEF Next

(***************************************************************************)
(* The inductive invariant holds throughout.                               *)
(***************************************************************************)
THEOREM Invariance == Spec => []IInv
BY InitInv, NextInv, PTL DEF Spec

(***************************************************************************)
(* DecodeString panics for lengths only that no encoding has, whatever the *)
(* characters are and however long the string is (nixbase32.go:31-47).     *)
(***************************************************************************)
THEOREM NoPanicOnEncodings == Spec => []PanicsOnOddLengths
<1>1. IInv => PanicsOnOddLengths
  BY DEF IInv
<1> QED
  BY <1>1, Invariance, PTL

(***************************************************************************)
(* FromString does not panic, for any size of digests (nixpath.go:54-68).  *)
(***************************************************************************)
THEOREM PathsDoNotPanic == Spec => [](pc # "decode" => status # "panic")
<1>1. IInv => (pc # "decode" => status # "panic")
  BY HashIsEncoded DEF IInv, PathInv, PanicsOnOddLengths
<1> QED
  BY <1>1, Invariance, PTL

(***************************************************************************)
(* The bytes that DecodeString yields are the bits of its string, what it  *)
(* and ValidateString refuse has bits to spare that are not zero, and what *)
(* was decoded encodes to the string again: for strings of every length    *)
(* that an encoding has (nixbase32.go:11-51, 82-104).                      *)
(***************************************************************************)
THEOREM DecodingIsExact == Spec => []DecodesBits
<1>1. IInv => DecodesBits
  BY RowDecodes DEF IInv
<1> QED
  BY <1>1, Invariance, PTL

\* A text is its parts.
LEMMA SameText ==
  ASSUME NEW text \in PathText, NEW sep, NEW dash
  PROVE  [text EXCEPT !.sep = sep, !.dash = dash] =
           [dir |-> text.dir, sep |-> sep, hash |-> text.hash, dash |-> dash, name |-> text.name]
<1> DEFINE given == [text EXCEPT !.sep = sep, !.dash = dash]
           built == [dir |-> text.dir, sep |-> sep, hash |-> text.hash,
                    dash |-> dash, name |-> text.name]
           parts == {"dir", "sep", "hash", "dash", "name"}
<1>1. DOMAIN text = parts
  BY DEF PathText
<1>2. given = [k \in parts |-> given[k]]
  BY <1>1
<1>3. built = [k \in parts |-> built[k]]
  OBVIOUS
<1>4. given.dir = built.dir /\ given.sep = built.sep /\ given.hash = built.hash
  BY <1>1
<1>5. given.dash = built.dash /\ given.name = built.name
  BY <1>1
<1>6. \A k \in parts : given[k] = built[k]
  <2> HIDE DEF given, built
  <2> QED
    BY <1>4, <1>5
<1> HIDE DEF given, built, parts
<1>7. given = built
  BY <1>2, <1>3, <1>6
<1> QED
  BY <1>7 DEF given, built

(***************************************************************************)
(* String renders the text that FromString has parsed, but for the two     *)
(* characters that FromString does not look at, and FromString parses      *)
(* whatever PathRe matches: for digests, as those of 20 bytes, whose       *)
(* encoding has no bits to spare (nixpath.go:18-68).                       *)
(***************************************************************************)
THEOREM ParsingIsExact == ASSUME NothingToSpare PROVE Spec => []ParsesPath
<1>1. ASSUME IInv PROVE ParsesPath
  <2>1. ASSUME pc = "done"
        PROVE  input.name # << >> /\ String(parsed) = [input EXCEPT !.sep = Slash, !.dash = Dash]
    <3>1. /\ input \in PathText /\ Len(s) = HashLen /\ s = input.hash /\ input.dir = Store
          /\ input.name # << >> /\ filling /\ status = "ok"
          /\ parsed.name = input.name /\ parsed.digest = dst
      BY <1>1, <2>1 DEF IInv, PathInv
    <3>2. DecodedLen(HashLen) = PathHashSize
      BY HashAssumption, DecodedLenOfEncoded DEF HashLen
    <3>3. EncodeToString(dst, PathHashSize) = s
      BY <1>1, <3>1, <3>2, RowDecodes, HashIsEncoded DEF IInv, DecodesBits
    <3>4. String(parsed) =
            [dir |-> input.dir, sep |-> Slash, hash |-> input.hash, dash |-> Dash, name |-> input.name]
      BY <3>1, <3>3 DEF String
    <3> QED
      BY <3>1, <3>4, SameText
  <2>2. pc = "failed" => ~MatchesPathRe(input)
    BY <1>1 DEF IInv, PathInv
  <2> QED
    BY <2>1, <2>2 DEF ParsesPath
<1> QED
  BY <1>1, Invariance, PTL
============================================================================
