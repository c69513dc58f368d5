----------------------------- MODULE NixBase32 -----------------------------
(***************************************************************************)
(* The base32 of store paths (src/pkg/nixbase32/nixbase32.go): encoding as *)
(* a function, and the loop of decodeString, one character a step.         *)
(*                                                                         *)
(* A character is its place in the alphabet, and NoDigit where it has      *)
(* none.  Bits are combined with "|" in the code and with "+" here: no two *)
(* characters of a string share a bit.                                     *)
(***************************************************************************)
EXTENDS Integers, Sequences

Digit   == 0..31
NoDigit == 32
Byte    == 0..255

VARIABLES
  s,         \* the string
  filling,   \* whether there is a dst: DecodeString, rather than ValidateString
  n, dst,    \* the loop
  status     \* how it ended, or "run"

decoder == <<s, filling, n, dst, status>>

Shl(x, k) == (x * 2^k) % 256
Shr(x, k) == x \div 2^k

EncodedLen(bytes) == IF bytes = 0 THEN 0 ELSE (bytes * 8 - 1) \div 5 + 1
DecodedLen(chars) == (chars * 5) \div 8

(***************************************************************************)
(* EncodeToString of src, whose bytes are numbered from 0, as in the code. *)
(***************************************************************************)
EncodeToString(src, len) ==
  [k \in 1..EncodedLen(len) |->
     LET b == (EncodedLen(len) - k) * 5
         i == b \div 8
         j == b % 8
     IN (Shr(src[i], j) + (IF i + 1 < len THEN Shl(src[i + 1], 8 - j) ELSE 0)) % 32]

----------------------------------------------------------------------------
\* decodeString(string, dst), where dst is nil or all zeros.
Start(string, fill) ==
  [s |-> string, filling |-> fill, n |-> 0,
   dst |-> [i \in 0..(DecodedLen(Len(string)) - 1) |-> 0],
   status |-> IF string = << >> THEN "ok" ELSE "run"]

Becomes(state) ==
  /\ s' = state.s /\ filling' = state.filling /\ n' = state.n
  /\ dst' = state.dst /\ status' = state.status

\* Mutant: characters are counted from one.
AtFromOne == ((n + 1) * 5) \div 8

\* The loop's i and j, and what it makes of the character.
At    == (n * 5) \div 8
Bit   == (n * 5) % 8
Char  == s[Len(s) - n]
Carry == Shr(Char, 8 - Bit)

\* uint(dstLen-1) is no index where dst is empty.
Final == At = DecodedLen(Len(s)) - 1

EndWith(outcome) == status' = outcome /\ UNCHANGED <<s, filling, n, dst>>

Reject ==
  /\ status = "run"
  /\ \/ Char = NoDigit /\ EndWith("character")
     \/ Char # NoDigit /\ Final /\ Carry # 0 /\ EndWith("encoding")

\* An index out of range.
Panic == status = "run" /\ Char # NoDigit /\ filling /\ At \notin DOMAIN dst /\ EndWith("panic")

Fill(add) == [k \in DOMAIN dst |-> dst[k] + IF filling THEN add[k] ELSE 0]

\* Mutant: what of a character belongs to the next byte is lost.
BitsWithoutCarry == [k \in DOMAIN dst |-> IF k = At THEN Shl(Char, Bit) ELSE 0]

Bits == [k \in DOMAIN dst |-> IF k = At THEN Shl(Char, Bit) ELSE IF k = At + 1 THEN Carry ELSE 0]

Accept ==
  /\ status = "run" /\ Char # NoDigit
  /\ Final => Carry = 0
  /\ filling => At \in DOMAIN dst
  /\ dst' = Fill(Bits)
  /\ n' = n + 1 /\ status' = IF n' = Len(s) THEN "ok" ELSE "run"
  /\ UNCHANGED <<s, filling>>

DecodeStep == Reject \/ Panic \/ Accept

----------------------------------------------------------------------------
(***************************************************************************)
(* Properties                                                              *)
(***************************************************************************)
IsEncodedLen(len) == EncodedLen(DecodedLen(len)) = len

BitOf(x, k)  == (x \div 2^k) % 2
StringBit(b) == BitOf(s[Len(s) - b \div 5], b % 5)

(***************************************************************************)
(* The characters from the last to the first, of five bits each, are one   *)
(* row of bits, and the bytes of dst, from the first on, are that row:     *)
(* DecodeString yields them, it and ValidateString refuse a string whose   *)
(* row is too long ("padding and must be 0", nixbase32.go:75-77), and what *)
(* was decoded encodes to the string again.                                *)
(***************************************************************************)
Spare == (8 * DecodedLen(Len(s)))..(5 * Len(s) - 1)

DecodesBits ==
  IsEncodedLen(Len(s)) =>
    /\ status = "encoding" => \E b \in Spare : StringBit(b) = 1
    /\ status = "ok" => \A b \in Spare : StringBit(b) = 0
    /\ status = "ok" /\ filling =>
         /\ \A k \in DOMAIN dst : dst[k] \in Byte
         /\ \A k \in DOMAIN dst, b \in 0..7 : BitOf(dst[k], b) = StringBit(8 * k + b)
         /\ EncodeToString(dst, DecodedLen(Len(s))) = s

(***************************************************************************)
(* The loop leaves dst for strings only whose length no encoding has; for  *)
(* these DecodeString panics (nixbase32.go:31-47), ValidateString does not *)
(* notice.                                                                 *)
(***************************************************************************)
PanicsOnOddLengths == status = "panic" => ~IsEncodedLen(Len(s))
============================================================================
