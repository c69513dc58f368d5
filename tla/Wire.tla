-------------------------------- MODULE Wire --------------------------------
(***************************************************************************)
(* Reading one byte packet (src/pkg/wire/read.go, bytes_reader.go) from a  *)
(* source that hands out what it likes at a time, and ends or fails        *)
(* anywhere: ReadString, and ReadBytes with Read and Close of its reader.  *)
(*                                                                         *)
(* A byte is below Radix.  A length, and the unit of padding, is Block     *)
(* bytes: 256 and 8 in the code.  A step is one Read of the source.        *)
(***************************************************************************)
EXTENDS Integers, Sequences, SequencesExt

CONSTANTS
  Radix, Block,
  Sources,   \* what there is to read: the bytes, and "eof" or "err" behind them
  MaxLength  \* the maximum that ReadString is given

ASSUME WidthAssumption == Radix \in Nat \ {0, 1} /\ Block \in Nat \ {0} /\ MaxLength \in Nat
ASSUME SourceAssumption ==
  \A src \in Sources : src.bytes \in Seq(0..(Radix - 1)) /\ src.end \in {"eof", "err"}

VARIABLES
  source, pos,     \* the source, and how many of its bytes were read
  call,            \* the caller's: "string" or "bytes"
  pc, buf,         \* label; what the io.ReadFull at hand has read
  length,          \* the content length
  limit,           \* what the limited reader has left, an int64
  value,           \* the content that was handed out
  err              \* what the call, or Close, has returned, "ok" for nil

wireVars == <<source, pos, call, pc, buf, length, limit, value, err>>

\* byteOrder.Uint64, little-endian, and the conversion to an int64.
Uint(bytes) ==
  LET partial[k \in 0..Len(bytes)] ==
        IF k = 0 THEN 0 ELSE partial[k - 1] * Radix + bytes[Len(bytes) - k + 1]
  IN  partial[Len(bytes)]
Modulus      == Uint([k \in 1..Block |-> Radix - 1]) + 1
Int64(n)     == IF n < Modulus \div 2 THEN n ELSE n - Modulus
Padding(n)   == (Block - (n % Block)) % Block
Zeros(n)     == [k \in 1..n |-> 0]
Remaining    == Len(source.bytes) - pos
Slice(k)     == SubSeq(source.bytes, pos + 1, pos + k)

WireInit ==
  /\ source \in Sources /\ pos = 0
  /\ call \in {"string", "bytes"}
  /\ pc = "length" /\ buf = << >> /\ length = 0 /\ limit = 0 /\ value = << >> /\ err = "none"

----------------------------------------------------------------------------
\* The call returns; what is deferred in ReadBytesFull is closed without a look at its error.
ReturnWith(outcome) == pc' = "returned" /\ err' = outcome

Outcome(outcome) == IF err = "none" THEN outcome ELSE err

(***************************************************************************)
(* io.ReadFull of k bytes, at most as many as may be read: io.EOF where    *)
(* none came, io.ErrUnexpectedEOF where some did.                          *)
(***************************************************************************)
Reads(k, most) ==
  \E m \in 1..k : /\ m <= k - Len(buf) /\ m <= most /\ m <= Remaining
                  /\ buf' = buf \o Slice(m) /\ pos' = pos + m

Ends(most) == most > 0 => Remaining = 0

\* Mutant: what ends inside of a field looks like what ends in front of it.
PlainError(most) == IF most > 0 /\ source.end = "err" THEN "err" ELSE "eof"

FullError(most) ==
  IF most > 0 /\ source.end = "err" THEN "err" ELSE IF buf = << >> THEN "eof" ELSE "unexpected"

ReadLength ==
  /\ pc = "length" /\ Len(buf) < Block
  /\ \/ Reads(Block, Block) /\ UNCHANGED <<pc, err>>
     \/ Ends(Block) /\ ReturnWith(FullError(Block)) /\ UNCHANGED <<buf, pos>>
  /\ UNCHANGED <<source, call, length, limit, value>>

\* Mutant: the maximum itself is too much.
Exceeds(n) == n >= MaxLength

TooLong(n) == n > MaxLength

TakeLength ==
  /\ pc = "length" /\ Len(buf) = Block
  /\ length' = Uint(buf) /\ limit' = Int64(Uint(buf)) /\ buf' = << >>
  /\ IF call = "string" /\ TooLong(Uint(buf)) THEN ReturnWith("err")
     ELSE pc' = call /\ UNCHANGED err
  /\ UNCHANGED <<source, pos, call, value>>

ReadContent ==
  /\ pc = "string" /\ Len(buf) < length
  /\ \/ Reads(length, limit) /\ limit' = limit - (pos' - pos) /\ UNCHANGED <<pc, err>>
     \/ /\ Ends(limit) /\ pc' = "skip" /\ err' = FullError(limit)
        /\ UNCHANGED <<buf, pos, limit>>
  /\ UNCHANGED <<source, call, length, value>>

TakeContent ==
  /\ pc = "string" /\ Len(buf) = length
  /\ value' = buf /\ pc' = "skip" /\ err' = "ok"
  /\ UNCHANGED <<source, pos, call, buf, length, limit>>

\* BytesReader.Read, by the caller.
Read ==
  /\ pc = "bytes"
  /\ \E m \in 1..Block : /\ m <= limit /\ m <= Remaining
                         /\ value' = value \o Slice(m) /\ pos' = pos + m /\ limit' = limit - m
  /\ UNCHANGED <<source, call, pc, buf, length, err>>

Close == pc = "bytes" /\ pc' = "skip" /\ UNCHANGED <<source, pos, call, buf, length, limit, value, err>>

(***************************************************************************)
(* BytesReader.Close: to the end of the limited reader, which is io.EOF    *)
(* also where the source ends before that, and then over the padding.      *)
(***************************************************************************)
Skip ==
  /\ pc = "skip"
  /\ \/ \E m \in 1..Remaining : m <= limit /\ pos' = pos + m /\ limit' = limit - m
        /\ UNCHANGED <<pc, buf, err>>
     \/ /\ Ends(limit) /\ UNCHANGED <<pos, limit>>
        /\ IF limit > 0 /\ source.end = "err" THEN ReturnWith(Outcome("err")) /\ UNCHANGED buf
           ELSE pc' = "padding" /\ buf' = << >> /\ UNCHANGED err
  /\ UNCHANGED <<source, call, length, value>>

ReadPadding ==
  /\ pc = "padding" /\ Len(buf) < Padding(length)
  /\ \/ Reads(Padding(length), Block) /\ UNCHANGED <<pc, err>>
     \/ Ends(Block) /\ ReturnWith(Outcome(FullError(Block))) /\ UNCHANGED <<buf, pos>>
  /\ UNCHANGED <<source, call, length, limit, value>>

TakePadding ==
  /\ pc = "padding" /\ Len(buf) = Padding(length)
  /\ ReturnWith(Outcome(IF buf = Zeros(Padding(length)) THEN "ok" ELSE "err"))
  /\ UNCHANGED <<source, pos, call, buf, length, limit, value>>

WireNext ==
  \/ ReadLength \/ TakeLength \/ ReadContent \/ TakeContent \/ Read \/ Close
  \/ Skip \/ ReadPadding \/ TakePadding

WireSpec == WireInit /\ [][WireNext]_wireVars

----------------------------------------------------------------------------
(***************************************************************************)
(* Properties                                                              *)
(***************************************************************************)
\* WriteBytes and WriteString.
LengthBytes(n) == [k \in 1..Block |-> (n \div Radix^(k - 1)) % Radix]
Packet(bytes)  == LengthBytes(Len(bytes)) \o bytes \o Zeros(Padding(Len(bytes)))

(***************************************************************************)
(* What was written is read, however the source cuts it up and whatever    *)
(* is behind it: the string, or so much of the content as was asked for,   *)
(* and the next packet comes next (read.go:60-103, bytes_reader.go:36-57,  *)
(* write.go:38-72).                                                        *)
(***************************************************************************)
Content == SubSeq(source.bytes, Block + 1, Block + length)

ReadsPacket ==
  /\ pc = "returned"
  /\ Block + length <= Len(source.bytes) /\ IsPrefix(Packet(Content), source.bytes)
  /\ length < Modulus \div 2 /\ (call = "string" => length <= MaxLength)
  =>
    /\ err = "ok" /\ pos = Len(Packet(Content))
    /\ IsPrefix(value, Content) /\ (call = "string" => value = Content)

(***************************************************************************)
(* What an outcome tells, of whatever is read.  Without an error the       *)
(* string is the content.  Close has got to the end of the packet, over    *)
(* null bytes, but for a source that ended inside of a content of whole    *)
(* blocks, and for a length that is no int64, of which it skips nothing.   *)
(* And io.EOF is a source that ended in front of the packet, or of its     *)
(* content, or of its padding (read.go:9-18, 50-57, bytes_reader.go:40).   *)
(***************************************************************************)
PacketEnd == Block + length + Padding(length)
Oversized == length >= Modulus \div 2

HonestOutcome ==
  pc = "returned" =>
    /\ err = "ok" /\ call = "string" => value = Content /\ Len(value) = length
    /\ err = "ok" /\ call = "bytes" =>
         \/ pos = PacketEnd /\ buf = Zeros(Padding(length))
         \/ Oversized \/ (Remaining = 0 /\ length % Block = 0)
    /\ err = "eof" => \/ Remaining = 0 /\ pos \in {0, Block}
                      \/ Remaining = 0 /\ call = "bytes" /\ pos < PacketEnd
                      \/ Oversized
============================================================================
