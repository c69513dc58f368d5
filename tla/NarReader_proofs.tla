-------------------------- MODULE NarReader_proofs --------------------------
(***************************************************************************)
(* Proofs about NarReader, for every set of inputs, whole or damaged, and  *)
(* every set of names.                                                     *)
(***************************************************************************)
EXTENDS NarReader, NarPath_proofs

(***************************************************************************)
(* Where the two goroutines can be together.  This is the part of the      *)
(* invariant that the properties of the channels rest on.                  *)
(***************************************************************************)
Handshake ==
  /\ cpc \in {"new", "failed"} <=> ppc = "new"
  /\ closed => cpc = "idle"
  /\ cpc = "idle" /\ ~closed => ppc \in {"start", "wait"} \cup LastLabels
  /\ cpc = "idle" /\ ~closed /\ err = "none" => ppc \in {"start", "wait"}
  /\ cpc = "resume" => ppc \in {"start", "wait"}
  /\ cpc = "select" => ppc \notin {"start", "wait"}
  /\ cpc = "select" /\ ppc \in LastLabels => errors # "none"
  /\ cpc = "verdict" => ppc \in LastLabels /\ errors # "none"
  /\ errors # "none" => ppc \in LastLabels
  /\ headersClosed => ppc \in {"closeErrors", "done"}
  /\ errorsClosed => ppc = "done"
  /\ err # "nil"

(***************************************************************************)
(* The parser has a call of parseNode to return from, and in it the name   *)
(* of the entry it is about to descend into.                               *)
(***************************************************************************)
Frames ==
  /\ ppc \in ReadingLabels \cup {"send", "wait"} => stack # << >>
  /\ ppc = "entryNode" => Top.token \in Name

Inv == stream \in Archives /\ TypeOK /\ Frames /\ Handshake

----------------------------------------------------------------------------
\* The word at pos is one, and the reader can tell what failing to read it means.
LEMMA WordType ==
  ASSUME stream \in Archives, TypeOK
  PROVE  /\ Len(stream.words) \in Nat
         /\ ReadFailure \in {"eof", "err"}
         /\ stream.end \in {"eof", "err"}
         /\ ~EndReached => Word.size \in Nat /\ Word.padded \in BOOLEAN
<1>1. stream.end \in {"eof", "err"} /\ stream.words \in Seq(Packet)
  BY ArchivesAreStreams
<1>2. Len(stream.words) \in Nat /\ pos \in Nat \ {0}
  BY <1>1, LenProperties DEF TypeOK
<1>3. ~EndReached => Word \in Packet
  BY <1>1, <1>2, ElementOfSeq DEF EndReached, Word
<1> QED BY <1>1, <1>2, <1>3 DEF ReadFailure, Packet

\* The frame on top of the stack is one.
LEMMA TopType ==
  ASSUME TypeOK, stack # << >>
  PROVE  Len(stack) \in Nat \ {0} /\ Top \in Frame /\ Top.path \in Path
<1>1. stack \in Seq(Frame)
  BY DEF TypeOK
<1>2. Len(stack) \in Nat \ {0}
  BY <1>1, EmptySeq
<1>3. stack[Len(stack)] \in Frame
  BY <1>1, <1>2
<1> QED BY <1>2, <1>3 DEF Top, Frame

\* Returning from parseNode leaves a caller that expects ")", or ends the parse.
LEMMA ReturnStep ==
  ASSUME TypeOK, stack # << >>, Return
  PROVE  /\ stack' \in Seq(Frame)
         /\ verdict' \in {"eof", "err"}
         /\ \/ ppc' = "deposit"
            \/ ppc' = "entryClose" /\ stack' # << >>
<1>1. stack \in Seq(Frame) /\ Len(stack) \in Nat \ {0}
  BY EmptySeq DEF TypeOK
<1>2. stack' \in Seq(Frame) /\ Len(stack') = Len(stack) - 1
  BY <1>1, FrontFacts DEF Return
<1>3. CASE Len(stack) = 1
  BY <1>2, <1>3 DEF Return, Fail
<1>4. CASE Len(stack) # 1
  <2>1. Len(stack') # 0
    BY <1>1, <1>2, <1>4
  <2>2. stack' # << >>
    BY <2>1
  <2> QED BY <1>2, <1>4, <2>2 DEF Return, Goto, TypeOK
<1> QED BY <1>3, <1>4

\* Skipping takes no more than is there.
LEMMA SkippedType ==
  ASSUME stream \in Archives, TypeOK
  PROVE  Skipped \in Nat /\ left - Skipped \in Nat
BY WordType DEF Skipped, Remaining, TypeOK

----------------------------------------------------------------------------
LEMMA InitInv == Init => Inv
<1> SUFFICES ASSUME Init PROVE Inv
  OBVIOUS
<1>1. Root \in Path /\ NoHeader \in Header
  BY DEF Root, Path, NoHeader, Header, HeaderTypes
<1>2. stack \in Seq(Frame) /\ delivered \in Seq(Header)
  BY DEF Init
<1>3. TypeOK
  <2>1. padded \in BOOLEAN /\ headersClosed \in BOOLEAN /\ errorsClosed \in BOOLEAN /\ closed \in BOOLEAN
    BY DEF Init
  <2>2. pos \in Nat \ {0} /\ left \in Nat
    BY DEF Init
  <2>3. ppc \in ParserLabels /\ verdict \in {"eof", "err"} /\ errors \in {"none", "eof", "err"}
    BY DEF Init, ParserLabels
  <2> QED BY <1>1, <1>2, <2>1, <2>2, <2>3 DEF Init, TypeOK
<1>4. Handshake /\ Frames
  BY DEF Init, Handshake, Frames, LastLabels, ReadingLabels
<1> QED BY <1>3, <1>4 DEF Init, Inv

----------------------------------------------------------------------------
(***************************************************************************)
(* A step of the parser between two reads leaves the consumer where it     *)
(* was: in the select of Next, or done with the reader.                    *)
(***************************************************************************)
LEMMA ReadingHandshake ==
  ASSUME Handshake, ppc \in ReadingLabels,
         ppc' \in ReadingLabels \cup {"send", "deposit"},
         UNCHANGED <<channels, consumer>>
  PROVE  Handshake'
BY DEF Handshake, ReadingLabels, LastLabels, channels, consumer

\* The same for a step that leaves the content reader and the header alone.
LEMMA PlainStep ==
  ASSUME Inv, ppc \in ReadingLabels,
         UNCHANGED <<stream, hdr, channels, consumer>>,
         pos' \in Nat \ {0}, left' \in Nat, padded' \in BOOLEAN,
         stack' \in Seq(Frame), verdict' \in {"eof", "err"},
         \/ ppc' = "deposit"
         \/ /\ ppc' \in ReadingLabels \cup {"send"}
            /\ stack' # << >>
            /\ ppc' = "entryNode" => Top'.token \in Name
  PROVE  Inv'
<1>1. ppc' \in ReadingLabels \cup {"send", "deposit"}
  OBVIOUS
<1>2. Handshake'
  BY <1>1, ReadingHandshake DEF Inv
<1>3. TypeOK'
  BY <1>1 DEF Inv, TypeOK, ParserLabels, channels, consumer
<1>4. Frames'
  BY DEF Frames, ReadingLabels
<1> QED BY <1>2, <1>3, <1>4 DEF Inv

\* The step that has a header to send, and the content reader to go with it.
LEMMA SendStep ==
  ASSUME Inv, ppc \in ReadingLabels,
         UNCHANGED <<stream, stack, verdict, channels, consumer>>,
         pos' \in Nat \ {0}, left' \in Nat, padded' \in BOOLEAN,
         hdr' \in Header, ppc' = "send"
  PROVE  Inv'
<1>1. Handshake'
  BY ReadingHandshake DEF Inv
<1>2. TypeOK'
  BY DEF Inv, TypeOK, ParserLabels, channels, consumer
<1>3. Frames'
  BY DEF Inv, Frames
<1> QED BY <1>1, <1>2, <1>3 DEF Inv

LEMMA ExpectStringInv == Inv /\ ExpectString => Inv'
<1> SUFFICES ASSUME Inv, ExpectString PROVE Inv'
  OBVIOUS
<1>1. ppc \in {"open", "type", "target", "entryOpen", "entryName"}
  BY DEF ExpectString, Following
<1>2. Following[ppc] \in {"type", "label", "linkTarget", "entryName", "name"}
  BY <1>1 DEF Following
<1>3. stack # << >> /\ stack \in Seq(Frame) /\ pos \in Nat \ {0} /\ verdict \in {"eof", "err"}
      /\ left \in Nat /\ padded \in BOOLEAN
  BY <1>1 DEF Inv, Frames, TypeOK, ReadingLabels
<1>4. UNCHANGED <<stream, left, padded, stack, hdr, channels, consumer>>
  BY DEF ExpectString, content
<1>5. \/ ppc' = Following[ppc] /\ pos' = pos + 1 /\ verdict' = verdict
      \/ ppc' = "deposit" /\ pos' = pos /\ verdict' = "err"
  BY DEF ExpectString, Goto, Fail
<1>6. pos' \in Nat \ {0} /\ verdict' \in {"eof", "err"}
  BY <1>3, <1>5
<1>7. ppc \in ReadingLabels /\ ppc' # "entryNode"
      /\ (ppc' = "deposit" \/ ppc' \in ReadingLabels)
  BY <1>1, <1>2, <1>5 DEF ReadingLabels
<1> QED BY <1>3, <1>4, <1>6, <1>7, PlainStep

LEMMA ExpectNodeInv == Inv /\ ExpectNode => Inv'
<1> SUFFICES ASSUME Inv, ExpectNode PROVE Inv'
  OBVIOUS
<1> DEFINE frame == [path |-> Join(Top.path, Top.token), token |-> "directory"]
<1>1. ppc = "entryNode" /\ ppc \in ReadingLabels
  BY DEF ExpectNode, ReadingLabels
<1>2. stack # << >> /\ Top.token \in Name /\ stack \in Seq(Frame)
  BY <1>1 DEF Inv, Frames, TypeOK
<1>3. frame \in Frame
  BY <1>2, TopType, JoinType DEF Inv, Frame
<1>4. Append(stack, frame) \in Seq(Frame) /\ Append(stack, frame) # << >>
  BY <1>2, <1>3
<1>5. UNCHANGED <<stream, left, padded, hdr, channels, consumer>>
  BY DEF ExpectNode, content
<1>6. \/ ppc' = "open" /\ stack' = Append(stack, frame) /\ pos' = pos + 1 /\ verdict' = verdict
      \/ ppc' = "deposit" /\ stack' = stack /\ pos' = pos /\ verdict' = "err"
  BY DEF ExpectNode, Goto, Fail
<1>7. pos' \in Nat \ {0} /\ left' \in Nat /\ padded' \in BOOLEAN /\ verdict' \in {"eof", "err"}
  BY <1>5, <1>6 DEF Inv, TypeOK
<1>8. "open" \in ReadingLabels
  BY DEF ReadingLabels
<1> QED BY <1>1, <1>2, <1>4, <1>5, <1>6, <1>7, <1>8, PlainStep

LEMMA ExpectEntryCloseInv == Inv /\ ExpectEntryClose => Inv'
<1> SUFFICES ASSUME Inv, ExpectEntryClose PROVE Inv'
  OBVIOUS
<1>1. ppc = "entryClose" /\ ppc \in ReadingLabels /\ "loop" \in ReadingLabels
  BY DEF ExpectEntryClose, ReadingLabels
<1>2. stack # << >> /\ stack \in Seq(Frame) /\ verdict \in {"eof", "err"}
  BY <1>1 DEF Inv, Frames, TypeOK
<1>3. UNCHANGED <<stream, left, padded, hdr, channels, consumer>>
  BY DEF ExpectEntryClose, content
<1>4. pos' \in Nat \ {0} /\ left' \in Nat /\ padded' \in BOOLEAN
  BY <1>3 DEF Inv, TypeOK, ExpectEntryClose
<1>5. CASE Return
  BY <1>1, <1>2, <1>3, <1>4, <1>5, ReturnStep, PlainStep DEF Inv
<1>6. CASE Goto("loop") /\ UNCHANGED stack
  BY <1>1, <1>2, <1>3, <1>4, <1>6, PlainStep DEF Goto
<1>7. CASE Fail("err") /\ UNCHANGED stack
  BY <1>1, <1>2, <1>3, <1>4, <1>7, PlainStep DEF Fail
<1> QED BY <1>5, <1>6, <1>7 DEF ExpectEntryClose

LEMMA ReadBodyInv == Inv /\ ReadBody => Inv'
<1> SUFFICES ASSUME Inv, ReadBody PROVE Inv'
  OBVIOUS
<1>1. ppc \in ReadingLabels /\ {"placeholder", "contents", "length"} \subseteq ReadingLabels \ {"entryNode"}
  BY DEF ReadBody, ReadingLabels
<1>2. stack # << >> /\ stack \in Seq(Frame) /\ verdict \in {"eof", "err"}
  BY <1>1 DEF Inv, Frames, TypeOK
<1>3. UNCHANGED <<stream, hdr, channels, consumer>>
  BY DEF ReadBody, content
<1>4. pos' \in Nat \ {0} /\ left' \in Nat /\ padded' \in BOOLEAN /\ stack' = stack
  BY DEF ReadBody, Inv, TypeOK, content
<1>5. \/ ppc' = "deposit" /\ verdict' \in {"eof", "err"}
      \/ ppc' \in {"placeholder", "contents", "length"} /\ verdict' = verdict
  BY WordType DEF ReadBody, Inv, Goto, Fail
<1> QED BY <1>1, <1>2, <1>3, <1>4, <1>5, PlainStep

LEMMA ReadPlaceholderInv == Inv /\ ReadPlaceholder => Inv'
<1> SUFFICES ASSUME Inv, ReadPlaceholder PROVE Inv'
  OBVIOUS
<1>1. ppc \in ReadingLabels /\ {"contents"} \subseteq ReadingLabels \ {"entryNode"}
  BY DEF ReadPlaceholder, ReadingLabels
<1>2. stack # << >> /\ stack \in Seq(Frame) /\ verdict \in {"eof", "err"}
  BY <1>1 DEF Inv, Frames, TypeOK
<1>3. UNCHANGED <<stream, hdr, channels, consumer>>
  BY DEF ReadPlaceholder, content
<1>4. pos' \in Nat \ {0} /\ left' \in Nat /\ padded' \in BOOLEAN /\ stack' = stack
  <2>1. pos \in Nat \ {0} /\ left \in Nat /\ padded \in BOOLEAN
    BY DEF Inv, TypeOK
  <2>2. (pos' = pos + 1 \/ pos' = pos) /\ UNCHANGED <<left, padded, stack>>
    BY DEF ReadPlaceholder, content
  <2> QED BY <2>1, <2>2
<1>5. \/ ppc' = "deposit" /\ verdict' \in {"eof", "err"}
      \/ ppc' \in {"contents"} /\ verdict' = verdict
  BY WordType DEF ReadPlaceholder, Inv, Goto, Fail
<1> QED BY <1>1, <1>2, <1>3, <1>4, <1>5, PlainStep

LEMMA SkipContentsInv == Inv /\ SkipContents => Inv'
<1> SUFFICES ASSUME Inv, SkipContents PROVE Inv'
  OBVIOUS
<1>1. ppc \in ReadingLabels /\ {"padding"} \subseteq ReadingLabels \ {"entryNode"}
  BY DEF SkipContents, ReadingLabels
<1>2. stack # << >> /\ stack \in Seq(Frame) /\ verdict \in {"eof", "err"}
  BY <1>1 DEF Inv, Frames, TypeOK
<1>3. UNCHANGED <<stream, hdr, channels, consumer>>
  BY DEF SkipContents, content
<1>4. pos' \in Nat \ {0} /\ left' \in Nat /\ padded' \in BOOLEAN /\ stack' = stack
  BY SkippedType DEF SkipContents, Inv, TypeOK, content
<1>5. \/ ppc' = "deposit" /\ verdict' \in {"eof", "err"}
      \/ ppc' \in {"padding"} /\ verdict' = verdict
  BY WordType DEF SkipContents, Inv, Goto, Fail
<1> QED BY <1>1, <1>2, <1>3, <1>4, <1>5, PlainStep

LEMMA ReadPaddingInv == Inv /\ ReadPadding => Inv'
<1> SUFFICES ASSUME Inv, ReadPadding PROVE Inv'
  OBVIOUS
<1>1. ppc \in ReadingLabels /\ {"close"} \subseteq ReadingLabels \ {"entryNode"}
  BY DEF ReadPadding, ReadingLabels
<1>2. stack # << >> /\ stack \in Seq(Frame) /\ verdict \in {"eof", "err"}
  BY <1>1 DEF Inv, Frames, TypeOK
<1>3. UNCHANGED <<stream, hdr, channels, consumer>>
  BY DEF ReadPadding, content
<1>4. pos' \in Nat \ {0} /\ left' \in Nat /\ padded' \in BOOLEAN /\ stack' = stack
  BY DEF ReadPadding, Inv, TypeOK, content
<1>5. \/ ppc' = "deposit" /\ verdict' \in {"eof", "err"}
      \/ ppc' \in {"close"} /\ verdict' = verdict
  BY WordType DEF ReadPadding, Inv, Goto, Fail
<1> QED BY <1>1, <1>2, <1>3, <1>4, <1>5, PlainStep

LEMMA ReadCloseInv == Inv /\ ReadClose => Inv'
<1> SUFFICES ASSUME Inv, ReadClose PROVE Inv'
  OBVIOUS
<1>1. ppc \in ReadingLabels /\ "entryClose" \in ReadingLabels
  BY DEF ReadClose, ReadingLabels
<1>2. stack # << >> /\ stack \in Seq(Frame) /\ verdict \in {"eof", "err"}
  BY <1>1 DEF Inv, Frames, TypeOK
<1>3. UNCHANGED <<stream, hdr, channels, consumer>>
  BY DEF ReadClose, content
<1>4. pos' \in Nat \ {0} /\ left' \in Nat /\ padded' \in BOOLEAN
  BY DEF ReadClose, Inv, TypeOK, content
<1>5. CASE Return
  BY <1>1, <1>2, <1>3, <1>4, <1>5, ReturnStep, PlainStep DEF Inv
<1>6. ASSUME NEW e \in {"eof", "err"}, Fail(e), UNCHANGED stack
      PROVE  Inv'
  BY <1>1, <1>2, <1>3, <1>4, <1>6, PlainStep DEF Fail
<1> QED BY <1>5, <1>6, WordType DEF ReadClose, Inv

LEMMA ReadEntryTokenInv == Inv /\ ReadEntryToken => Inv'
<1> SUFFICES ASSUME Inv, ReadEntryToken PROVE Inv'
  OBVIOUS
<1>1. ppc \in ReadingLabels /\ "entryClose" \in ReadingLabels
      /\ {"entryOpen", "loop"} \subseteq ReadingLabels \ {"entryNode"}
  BY DEF ReadEntryToken, ReadingLabels
<1>2. stack # << >> /\ stack \in Seq(Frame) /\ verdict \in {"eof", "err"}
  BY <1>1 DEF Inv, Frames, TypeOK
<1>3. UNCHANGED <<stream, hdr, channels, consumer>>
  BY DEF ReadEntryToken, content
<1>4. pos' \in Nat \ {0} /\ left' \in Nat /\ padded' \in BOOLEAN
  BY DEF ReadEntryToken, Inv, TypeOK, content
<1>5. CASE Return
  BY <1>1, <1>2, <1>3, <1>4, <1>5, ReturnStep, PlainStep DEF Inv
<1>6. CASE Goto("entryOpen") /\ UNCHANGED stack
  BY <1>1, <1>2, <1>3, <1>4, <1>6, PlainStep DEF Goto
<1>7. CASE Goto("loop") /\ UNCHANGED stack
  BY <1>1, <1>2, <1>3, <1>4, <1>7, PlainStep DEF Goto
<1>8. ASSUME NEW e \in {"eof", "err"}, Fail(e), UNCHANGED stack
      PROVE  Inv'
  BY <1>1, <1>2, <1>3, <1>4, <1>8, PlainStep DEF Fail
<1> QED BY <1>5, <1>6, <1>7, <1>8, WordType DEF ReadEntryToken, Inv

LEMMA ReadTypeInv == Inv /\ ReadType => Inv'
<1> SUFFICES ASSUME Inv, ReadType PROVE Inv'
  OBVIOUS
<1>1. ppc \in ReadingLabels /\ "entryClose" \in ReadingLabels
      /\ {"body", "target"} \subseteq ReadingLabels \ {"entryNode"}
  BY DEF ReadType, ReadingLabels
<1>2. /\ stack # << >> /\ stack \in Seq(Frame) /\ verdict \in {"eof", "err"}
      /\ pos \in Nat \ {0} /\ left \in Nat /\ padded \in BOOLEAN
  BY <1>1 DEF Inv, Frames, TypeOK
<1>3. UNCHANGED <<stream, channels, consumer>>
  BY DEF ReadType
<1>4. (pos' = pos + 1 \/ pos' = pos) /\ pos' \in Nat \ {0}
  BY <1>2 DEF ReadType
<1>5. ASSUME NEW label \in {"body", "target"}, Goto(label), UNCHANGED <<left, padded, stack, hdr>>
      PROVE  Inv'
  BY <1>1, <1>2, <1>3, <1>4, <1>5, PlainStep DEF Goto
<1>6. ASSUME NEW e \in {"eof", "err"}, Fail(e), UNCHANGED <<left, padded, stack, hdr>>
      PROVE  Inv'
  BY <1>1, <1>2, <1>3, <1>4, <1>6, PlainStep DEF Fail
<1>7. ASSUME Return, UNCHANGED <<left, padded, hdr>>
      PROVE  Inv'
  BY <1>1, <1>2, <1>3, <1>4, <1>7, ReturnStep, PlainStep DEF Inv
<1>8. ASSUME left' = 0 /\ padded' = FALSE, Goto("send"), UNCHANGED stack,
             hdr' = [path |-> Top.path, type |-> "directory", size |-> 0, at |-> 0]
      PROVE  Inv'
  <2>1. hdr' \in Header
    BY <1>2, <1>8, TopType DEF Inv, Header, HeaderTypes
  <2> QED BY <1>1, <1>2, <1>3, <1>4, <1>8, <2>1, SendStep DEF Goto
<1> QED BY <1>5, <1>6, <1>7, <1>8, WordType DEF ReadType, Inv

LEMMA ReadLengthInv == Inv /\ ReadLength => Inv'
<1> SUFFICES ASSUME Inv, ReadLength PROVE Inv'
  OBVIOUS
<1>1. ppc \in ReadingLabels
  BY DEF ReadLength, ReadingLabels
<1>2. /\ stack # << >> /\ stack \in Seq(Frame) /\ verdict \in {"eof", "err"}
      /\ pos \in Nat \ {0} /\ left \in Nat /\ padded \in BOOLEAN
  BY <1>1 DEF Inv, Frames, TypeOK
<1>3. UNCHANGED <<stream, stack, channels, consumer>>
  BY DEF ReadLength
<1>4. (pos' = pos + 1 \/ pos' = pos) /\ pos' \in Nat \ {0}
  BY <1>2 DEF ReadLength
<1>5. ASSUME NEW e \in {"eof", "err"}, Fail(e), UNCHANGED <<left, padded, hdr>>
      PROVE  Inv'
  BY <1>1, <1>2, <1>3, <1>4, <1>5, PlainStep DEF Fail
<1>6. ASSUME ~EndReached, left' = Word.size /\ padded' = Word.padded, Goto("send"),
             hdr' = [path |-> Top.path, type |-> "regular", size |-> Word.size, at |-> pos + 1]
      PROVE  Inv'
  <2>1. Word.size \in Nat /\ Word.padded \in BOOLEAN
    BY <1>6, WordType DEF Inv
  <2>2. hdr' \in Header
    BY <1>2, <1>6, <2>1, TopType DEF Inv, Header, HeaderTypes
  <2> QED BY <1>1, <1>2, <1>3, <1>4, <1>6, <2>1, <2>2, SendStep DEF Goto
<1> QED BY <1>5, <1>6, WordType DEF ReadLength, Inv

LEMMA ReadTargetInv == Inv /\ ReadTarget => Inv'
<1> SUFFICES ASSUME Inv, ReadTarget PROVE Inv'
  OBVIOUS
<1>1. ppc \in ReadingLabels
  BY DEF ReadTarget, ReadingLabels
<1>2. /\ stack # << >> /\ stack \in Seq(Frame) /\ verdict \in {"eof", "err"}
      /\ pos \in Nat \ {0} /\ left \in Nat /\ padded \in BOOLEAN
  BY <1>1 DEF Inv, Frames, TypeOK
<1>3. UNCHANGED <<stream, stack, channels, consumer>>
  BY DEF ReadTarget
<1>4. (pos' = pos + 1 \/ pos' = pos) /\ pos' \in Nat \ {0}
  BY <1>2 DEF ReadTarget
<1>5. ASSUME NEW e \in {"eof", "err"}, Fail(e), UNCHANGED <<left, padded, hdr>>
      PROVE  Inv'
  BY <1>1, <1>2, <1>3, <1>4, <1>5, PlainStep DEF Fail
<1>6. ASSUME left' = 0 /\ padded' = FALSE, Goto("send"),
             hdr' = [path |-> Top.path, type |-> "symlink", size |-> 0, at |-> pos]
      PROVE  Inv'
  <2>1. hdr' \in Header
    BY <1>2, <1>6, TopType DEF Inv, Header, HeaderTypes
  <2> QED BY <1>1, <1>2, <1>3, <1>4, <1>6, <2>1, SendStep DEF Goto
<1> QED BY <1>5, <1>6, WordType DEF ReadTarget, Inv

LEMMA ReadNameInv == Inv /\ ReadName => Inv'
<1> SUFFICES ASSUME Inv, ReadName PROVE Inv'
  OBVIOUS
<1> DEFINE named == [stack EXCEPT ![Len(stack)].token = Word.tok]
<1>1. ppc \in ReadingLabels /\ "entryNode" \in ReadingLabels
  BY DEF ReadName, ReadingLabels
<1>2. /\ stack # << >> /\ stack \in Seq(Frame) /\ verdict \in {"eof", "err"}
      /\ pos \in Nat \ {0} /\ left \in Nat /\ padded \in BOOLEAN
  BY <1>1 DEF Inv, Frames, TypeOK
<1>3. UNCHANGED <<stream, left, padded, hdr, channels, consumer>>
  BY DEF ReadName, content
<1>4. (pos' = pos + 1 \/ pos' = pos) /\ pos' \in Nat \ {0}
  BY <1>2 DEF ReadName
<1>5. ASSUME NEW e \in {"eof", "err"}, Fail(e), UNCHANGED stack
      PROVE  Inv'
  BY <1>1, <1>2, <1>3, <1>4, <1>5, PlainStep DEF Fail
<1>6. ASSUME Word.tok \in Name, stack' = named, Goto("entryNode")
      PROVE  Inv'
  <2> DEFINE n == Len(stack)
             frame == [stack[n] EXCEPT !.token = Word.tok]
  <2>1. n \in Nat \ {0} /\ n \in 1..Len(stack) /\ stack[n] \in Frame
    BY <1>2, TopType DEF Inv, Top
  <2>2. frame \in Frame /\ frame.token = Word.tok
    BY <1>6, <2>1 DEF Frame
  <2>3. named = [stack EXCEPT ![n] = frame]
    OBVIOUS
  <2>4. named \in Seq(Frame) /\ Len(named) = n /\ named[n] = frame
    <3> HIDE DEF n, frame, named
    <3>1. n \in 1..Len(stack) /\ Len(stack) = n
      BY <2>1 DEF n
    <3> QED BY <1>2, <2>2, <2>3, <3>1, ExceptSeq
  <2>5. stack' # << >>
    <3>1. Len(stack') # 0
      BY <1>6, <2>1, <2>4
    <3> QED BY <3>1
  <2>6. Top'.token \in Name
    BY <1>6, <2>2, <2>4 DEF Top
  <2> QED BY <1>1, <1>2, <1>3, <1>4, <1>6, <2>4, <2>5, <2>6, PlainStep DEF Goto
<1> QED BY <1>5, <1>6, WordType DEF ReadName, Inv

----------------------------------------------------------------------------
(***************************************************************************)
(* The steps that end the parse, and those of the consumer.                *)
(***************************************************************************)
LEMMA ExitUnusedInv == Inv /\ ExitUnused => Inv'
<1> SUFFICES ASSUME Inv, ExitUnused PROVE Inv'
  OBVIOUS
<1>1. TypeOK'
  BY DEF ExitUnused, Inv, TypeOK, ParserLabels, LastLabels, Goto, Fail, input, content, parser,
         channels, consumer
<1>2. Handshake'
  BY DEF ExitUnused, Inv, TypeOK, Handshake, LastLabels, ReadingLabels, Goto, Fail, parser,
         channels, consumer
<1>3. Frames'
  BY DEF ExitUnused, Inv, Frames, Top, Goto, Fail, LastLabels, ReadingLabels, parser
<1> QED BY <1>1, <1>2, <1>3 DEF ExitUnused, Inv, input

LEMMA AbandonNodeInv == Inv /\ AbandonNode => Inv'
<1> SUFFICES ASSUME Inv, AbandonNode PROVE Inv'
  OBVIOUS
<1>1. stack # << >> /\ cpc = "idle" /\ closed
  BY DEF AbandonNode, Inv, Frames, Handshake
<1>2. /\ stack' \in Seq(Frame) /\ verdict' \in {"eof", "err"}
      /\ \/ ppc' = "deposit"
         \/ ppc' = "entryClose" /\ stack' # << >>
  BY <1>1, ReturnStep DEF AbandonNode, Inv
<1>3. TypeOK'
  BY <1>2 DEF AbandonNode, Inv, TypeOK, ParserLabels, ReadingLabels, input, content, channels, consumer
<1>4. Handshake'
  BY <1>1, <1>2 DEF AbandonNode, Inv, Handshake, LastLabels, channels, consumer
<1>5. Frames'
  BY <1>2 DEF Frames, ReadingLabels
<1> QED BY <1>3, <1>4, <1>5 DEF AbandonNode, Inv, input

LEMMA DepositInv == Inv /\ Deposit => Inv'
<1> SUFFICES ASSUME Inv, Deposit PROVE Inv'
  OBVIOUS
<1>1. TypeOK'
  BY DEF Deposit, Inv, TypeOK, ParserLabels, LastLabels, Goto, Fail, input, content, parser,
         channels, consumer
<1>2. Handshake'
  BY DEF Deposit, Inv, TypeOK, Handshake, LastLabels, ReadingLabels, Goto, Fail, parser,
         channels, consumer
<1>3. Frames'
  BY DEF Deposit, Inv, Frames, Top, Goto, Fail, LastLabels, ReadingLabels, parser
<1> QED BY <1>1, <1>2, <1>3 DEF Deposit, Inv, input

LEMMA CloseHeadersInv == Inv /\ CloseHeaders => Inv'
<1> SUFFICES ASSUME Inv, CloseHeaders PROVE Inv'
  OBVIOUS
<1>1. TypeOK'
  BY DEF CloseHeaders, Inv, TypeOK, ParserLabels, LastLabels, Goto, Fail, input, content, parser,
         channels, consumer
<1>2. Handshake'
  BY DEF CloseHeaders, Inv, TypeOK, Handshake, LastLabels, ReadingLabels, Goto, Fail, parser,
         channels, consumer
<1>3. Frames'
  BY DEF CloseHeaders, Inv, Frames, Top, Goto, Fail, LastLabels, ReadingLabels, parser
<1> QED BY <1>1, <1>2, <1>3 DEF CloseHeaders, Inv, input

LEMMA CloseErrorsInv == Inv /\ CloseErrors => Inv'
<1> SUFFICES ASSUME Inv, CloseErrors PROVE Inv'
  OBVIOUS
<1>1. TypeOK'
  BY DEF CloseErrors, Inv, TypeOK, ParserLabels, LastLabels, Goto, Fail, input, content, parser,
         channels, consumer
<1>2. Handshake'
  BY DEF CloseErrors, Inv, TypeOK, Handshake, LastLabels, ReadingLabels, Goto, Fail, parser,
         channels, consumer
<1>3. Frames'
  BY DEF CloseErrors, Inv, Frames, Top, Goto, Fail, LastLabels, ReadingLabels, parser
<1> QED BY <1>1, <1>2, <1>3 DEF CloseErrors, Inv, input

LEMMA NewReaderInv == Inv /\ NewReader => Inv'
<1> SUFFICES ASSUME Inv, NewReader PROVE Inv'
  OBVIOUS
<1>1. TypeOK'
  BY DEF NewReader, Inv, TypeOK, ParserLabels, LastLabels, Goto, Fail, input, content, parser,
         channels, consumer
<1>2. Handshake'
  BY DEF NewReader, Inv, TypeOK, Handshake, LastLabels, ReadingLabels, Goto, Fail, parser,
         channels, consumer
<1>3. Frames'
  BY DEF NewReader, Inv, Frames, Top, Goto, Fail, LastLabels, ReadingLabels, parser
<1> QED BY <1>1, <1>2, <1>3 DEF NewReader, Inv, input

LEMMA CallNextInv == Inv /\ CallNext => Inv'
<1> SUFFICES ASSUME Inv, CallNext PROVE Inv'
  OBVIOUS
<1>1. TypeOK'
  BY DEF CallNext, Inv, TypeOK, ParserLabels, LastLabels, Goto, Fail, input, content, parser,
         channels, consumer
<1>2. Handshake'
  BY DEF CallNext, Inv, TypeOK, Handshake, LastLabels, ReadingLabels, Goto, Fail, parser,
         channels, consumer
<1>3. Frames'
  BY DEF CallNext, Inv, Frames, Top, Goto, Fail, LastLabels, ReadingLabels, parser
<1> QED BY <1>1, <1>2, <1>3 DEF CallNext, Inv, input

LEMMA SeeHeadersClosedInv == Inv /\ SeeHeadersClosed => Inv'
<1> SUFFICES ASSUME Inv, SeeHeadersClosed PROVE Inv'
  OBVIOUS
<1>1. TypeOK'
  BY DEF SeeHeadersClosed, Inv, TypeOK, ParserLabels, LastLabels, Goto, Fail, input, content, parser,
         channels, consumer
<1>2. Handshake'
  BY DEF SeeHeadersClosed, Inv, TypeOK, Handshake, LastLabels, ReadingLabels, Goto, Fail, parser,
         channels, consumer
<1>3. Frames'
  BY DEF SeeHeadersClosed, Inv, Frames, Top, Goto, Fail, LastLabels, ReadingLabels, parser
<1> QED BY <1>1, <1>2, <1>3 DEF SeeHeadersClosed, Inv, input

LEMMA ReceiveErrorInv == Inv /\ ReceiveError => Inv'
<1> SUFFICES ASSUME Inv, ReceiveError PROVE Inv'
  OBVIOUS
<1>1. TypeOK'
  BY DEF ReceiveError, Inv, TypeOK, ParserLabels, LastLabels, Goto, Fail, input, content, parser,
         channels, consumer
<1>2. Handshake'
  BY DEF ReceiveError, Inv, TypeOK, Handshake, LastLabels, ReadingLabels, Goto, Fail, parser,
         channels, consumer
<1>3. Frames'
  BY DEF ReceiveError, Inv, Frames, Top, Goto, Fail, LastLabels, ReadingLabels, parser
<1> QED BY <1>1, <1>2, <1>3 DEF ReceiveError, Inv, input

LEMMA ReadInv == Inv /\ Read => Inv'
<1> SUFFICES ASSUME Inv, Read PROVE Inv'
  OBVIOUS
<1>1. TypeOK'
  BY DEF Read, Inv, TypeOK, ParserLabels, LastLabels, Goto, Fail, input, content, parser,
         channels, consumer
<1>2. Handshake'
  BY DEF Read, Inv, TypeOK, Handshake, LastLabels, ReadingLabels, Goto, Fail, parser,
         channels, consumer
<1>3. Frames'
  BY DEF Read, Inv, Frames, Top, Goto, Fail, LastLabels, ReadingLabels, parser
<1> QED BY <1>1, <1>2, <1>3 DEF Read, Inv, input

LEMMA CloseInv == Inv /\ Close => Inv'
<1> SUFFICES ASSUME Inv, Close PROVE Inv'
  OBVIOUS
<1>1. TypeOK'
  BY DEF Close, Inv, TypeOK, ParserLabels, LastLabels, Goto, Fail, input, content, parser,
         channels, consumer
<1>2. Handshake'
  BY DEF Close, Inv, TypeOK, Handshake, LastLabels, ReadingLabels, Goto, Fail, parser,
         channels, consumer
<1>3. Frames'
  BY DEF Close, Inv, Frames, Top, Goto, Fail, LastLabels, ReadingLabels, parser
<1> QED BY <1>1, <1>2, <1>3 DEF Close, Inv, input

LEMMA ResumeInv == Inv /\ Resume => Inv'
<1> SUFFICES ASSUME Inv, Resume PROVE Inv'
  OBVIOUS
<1>1. AfterHeader \in {"skip", "close", "loop"}
  BY DEF Inv, TypeOK, Header, HeaderTypes, AfterHeader
<1>2. /\ ppc' \in {"open", "skip", "close", "loop"}
      /\ stack' \in Seq(Frame) /\ stack' # << >>
  <2>1. CASE ppc = "start"
    <3>1. [path |-> Root, token |-> "directory"] \in Frame
      BY DEF Root, Path, Frame
    <3>2. stack' = <<[path |-> Root, token |-> "directory"]>> /\ ppc' = "open"
      BY <2>1 DEF Resume
    <3> QED BY <3>1, <3>2
  <2>2. CASE ppc = "wait"
    BY <1>1, <2>2 DEF Resume, Inv, TypeOK, Frames
  <2> QED BY <2>1, <2>2 DEF Resume
<1>3. TypeOK'
  BY <1>2 DEF Resume, Inv, TypeOK, ParserLabels, ReadingLabels, input, content, channels
<1>4. Handshake'
  BY <1>2 DEF Resume, Inv, Handshake, LastLabels, channels
<1>5. Frames'
  BY <1>2 DEF Frames
<1> QED BY <1>3, <1>4, <1>5 DEF Resume, Inv, input

LEMMA TakeHeaderInv == Inv /\ TakeHeader => Inv'
<1> SUFFICES ASSUME Inv, TakeHeader PROVE Inv'
  OBVIOUS
<1>1. hdr \in Header /\ hdr.path \in Path /\ Append(delivered, hdr) \in Seq(Header)
  BY DEF Inv, TypeOK, Header
<1>2. TypeOK'
  BY <1>1 DEF TakeHeader, Inv, TypeOK, ParserLabels, input, content, parser, channels
<1>3. Handshake'
  BY DEF TakeHeader, Inv, Handshake, LastLabels, channels
<1>4. Frames'
  BY DEF TakeHeader, Inv, Frames, Top, ReadingLabels, parser
<1> QED BY <1>2, <1>3, <1>4 DEF TakeHeader, Inv, input

----------------------------------------------------------------------------
LEMMA NextInv == Inv /\ [Next]_vars => Inv'
<1> SUFFICES ASSUME Inv, [Next]_vars PROVE Inv'
  OBVIOUS
<1>1. CASE ParserStep
  BY <1>1, ExpectStringInv, ExpectNodeInv, ExpectEntryCloseInv, ReadTypeInv, ReadBodyInv,
     ReadPlaceholderInv, ReadLengthInv, ReadTargetInv, SkipContentsInv, ReadPaddingInv,
     ReadCloseInv, ReadEntryTokenInv, ReadNameInv, ExitUnusedInv, AbandonNodeInv, DepositInv,
     CloseHeadersInv, CloseErrorsInv DEF ParserStep
<1>2. CASE ConsumerStep
  BY <1>2, NewReaderInv, CallNextInv, ResumeInv, TakeHeaderInv, SeeHeadersClosedInv,
     ReceiveErrorInv, ReadInv, CloseInv DEF ConsumerStep, InNext
<1>3. CASE UNCHANGED vars
  BY <1>3 DEF Inv, TypeOK, Handshake, Frames, Top, vars, input, content, parser, channels, consumer
<1> QED BY <1>1, <1>2, <1>3 DEF Next, Finished

(***************************************************************************)
(* The invariant holds of every behaviour of the reader.                   *)
(***************************************************************************)
THEOREM Invariance == Spec => []Inv
<1> QED BY InitInv, NextInv, PTL DEF Spec

(***************************************************************************)
(* Every variable keeps to its type, for every input: whatever the bytes   *)
(* are, the parser knows where it is and whom to return to.                *)
(***************************************************************************)
THEOREM TypeCorrect == Spec => []TypeOK
<1>1. Inv => TypeOK
  BY DEF Inv
<1> QED BY Invariance, <1>1, PTL

(***************************************************************************)
(* The consumer may Read without a lock: the parser is not at the input.   *)
(***************************************************************************)
THEOREM ExclusiveReads == Spec => []ReadsAreExclusive
<1>1. Inv => ReadsAreExclusive
  BY DEF Inv, Handshake, ReadsAreExclusive, ReadingLabels, LastLabels
<1> QED BY Invariance, <1>1, PTL

(***************************************************************************)
(* Next never loses the parser's verdict, and never returns nothing.       *)
(***************************************************************************)
THEOREM DefiniteNext == Spec => []NextIsDefinite
<1>1. Inv => NextIsDefinite
  BY DEF Inv, Handshake, NextIsDefinite
<1> QED BY Invariance, <1>1, PTL

----------------------------------------------------------------------------
(***************************************************************************)
(* The order of the headers.  The code compares a header with the last one *)
(* it let through; what follows for all of them rests on the order being   *)
(* transitive.                                                             *)
(***************************************************************************)
Sequel ==
  /\ \A i \in 1..Len(delivered) : Ordered(delivered[i].path, previous)
  /\ HeadersInOrder

LEMMA SequelNext == Inv /\ Sequel /\ [Next]_vars => Sequel'
<1> SUFFICES ASSUME Inv, Sequel, [Next]_vars PROVE Sequel'
  OBVIOUS
<1>1. CASE UNCHANGED <<previous, delivered>>
  BY <1>1 DEF Sequel, HeadersInOrder
<1>2. CASE TakeHeader /\ Accepts(hdr)
  <2> DEFINE n == Len(delivered)
             h(i) == delivered[i].path
  <2>1. /\ n \in Nat /\ hdr.path \in Path /\ previous \in Path
        /\ \A i \in 1..n : h(i) \in Path
    <3>1. delivered \in Seq(Header) /\ hdr \in Header /\ previous \in Path
      BY DEF Inv, TypeOK
    <3>2. \A i \in 1..n : delivered[i] \in Header
      BY <3>1, ElementOfSeq
    <3> QED BY <3>1, <3>2, LenProperties DEF Header
  <2>2. /\ Len(delivered') = n + 1 /\ delivered'[n + 1] = hdr
        /\ \A i \in 1..n : delivered'[i] = delivered[i]
        /\ previous' = hdr.path /\ Ordered(previous, hdr.path)
    <3>1. delivered \in Seq(Header) /\ hdr \in Header
      BY DEF Inv, TypeOK
    <3>2. delivered' = Append(delivered, hdr) /\ previous' = hdr.path /\ Ordered(previous, hdr.path)
      BY <1>2 DEF TakeHeader, Accepts
    <3> QED BY <3>1, <3>2, AppendProperties
  <2>3. \A i \in 1..n : Ordered(h(i), hdr.path)
    BY <2>1, <2>2, OrderedTransitive DEF Sequel
  <2>4. \A i \in 1..(n + 1) : Ordered(delivered'[i].path, hdr.path)
    <3> TAKE i \in 1..(n + 1)
    <3>1. CASE i = n + 1
      BY <2>1, <2>2, <3>1, OrderedReflexive
    <3>2. CASE i \in 1..n
      BY <2>2, <2>3, <3>2
    <3> QED BY <2>1, <3>1, <3>2
  <2>5. ASSUME NEW i \in 1..(n + 1), NEW j \in 1..(n + 1), i < j
        PROVE  Ordered(delivered'[i].path, delivered'[j].path)
    <3>1. CASE j = n + 1
      BY <2>2, <2>4, <3>1
    <3>2. CASE j \in 1..n
      <4>1. i \in 1..n
        BY <2>1, <2>5, <3>2
      <4> QED BY <2>2, <2>5, <3>2, <4>1 DEF Sequel, HeadersInOrder
    <3> QED BY <2>1, <3>1, <3>2
  <2> HIDE DEF n, h
  <2> QED BY <2>2, <2>4, <2>5 DEF Sequel, HeadersInOrder
<1> QED
  BY <1>1, <1>2 DEF Next, ParserStep, ConsumerStep, InNext, Finished, vars, consumer,
     ExpectString, ExpectNode, ExpectEntryClose, ReadType, ReadBody, ReadPlaceholder, ReadLength,
     ReadTarget, SkipContents, ReadPadding, ReadClose, ReadEntryToken, ReadName, ExitUnused,
     AbandonNode, Deposit, CloseHeaders, CloseErrors, NewReader, CallNext, Resume, TakeHeader,
     SeeHeadersClosed, ReceiveError, Read, Close

(***************************************************************************)
(* Headers come out in canonical order, whatever the input holds.          *)
(***************************************************************************)
THEOREM OrderedDelivery == Spec => []HeadersInOrder
<1>1. Init => Sequel
  BY DEF Init, Sequel, HeadersInOrder
<1>2. Sequel => HeadersInOrder
  BY DEF Sequel
<1> QED BY <1>1, <1>2, Invariance, SequelNext, PTL DEF Spec

----------------------------------------------------------------------------
(***************************************************************************)
(* What Read reads.  The content reader is set up for the header the       *)
(* parser is about to send, and only the consumer moves it until it asks   *)
(* for the next one.                                                       *)
(***************************************************************************)
Placed ==
  /\ ppc \in {"send", "wait"} => HoldsContentOf(hdr)
  /\ ppc \in {"new", "start"} => delivered = << >>
  /\ ppc = "wait" /\ err = "none" => delivered # << >> /\ delivered[Len(delivered)] = hdr

\* Setting up the content reader for a header, and reading from it.
LEMMA PlacedSetup ==
  ASSUME Inv, Placed, ReadType \/ ReadLength \/ ReadTarget \/ Read
  PROVE  Placed'
<1>1. CASE ReadType
  BY <1>1 DEF Inv, TypeOK, Placed, HoldsContentOf, ReadType, Return, Goto, Fail, consumer
<1>2. CASE ReadLength
  <2>1. ~EndReached => Word.size \in Nat
    BY WordType DEF Inv
  <2> QED BY <1>2, <2>1 DEF Inv, TypeOK, Placed, HoldsContentOf, ReadLength, Goto, Fail, consumer
<1>3. CASE ReadTarget
  BY <1>3 DEF Inv, TypeOK, Placed, HoldsContentOf, ReadTarget, Goto, Fail, consumer
<1>4. CASE Read
  <2>1. hdr \in Header /\ hdr.at \in Nat /\ hdr.size \in Nat /\ pos \in Nat /\ left \in Nat
    BY DEF Inv, TypeOK, Header
  <2>2. pos' + left' = pos + left /\ left > 0 /\ UNCHANGED <<ppc, hdr, err, delivered>>
    BY <1>4, <2>1 DEF Read, parser, consumer
  <2> QED BY <2>1, <2>2 DEF Placed, HoldsContentOf
<1> QED BY <1>1, <1>2, <1>3, <1>4

\* Every other step of the parser leaves no header to read the contents of.
LEMMA PlacedParser ==
  ASSUME Inv, Placed, ParserStep, ~ReadType, ~ReadLength, ~ReadTarget
  PROVE  Placed'
<1> SUFFICES ppc' \notin {"new", "start", "send", "wait"}
  BY DEF Placed
<1>1. CASE ExpectString
  <2>1. ppc \in {"open", "type", "target", "entryOpen", "entryName"}
    BY <1>1 DEF ExpectString, Following
  <2>2. Following[ppc] \in {"type", "label", "linkTarget", "entryName", "name"}
    BY <2>1 DEF Following
  <2>3. ppc' = Following[ppc] \/ ppc' = "deposit"
    BY <1>1 DEF ExpectString, Goto, Fail
  <2> QED BY <2>2, <2>3
<1>2. CASE ExpectNode \/ ExpectEntryClose \/ ReadClose \/ ReadEntryToken
  BY <1>2 DEF ExpectNode, ExpectEntryClose, ReadClose, ReadEntryToken, Return, Goto, Fail
<1>3. CASE ReadBody \/ ReadPlaceholder \/ SkipContents \/ ReadPadding \/ ReadName
  BY <1>3 DEF ReadBody, ReadPlaceholder, SkipContents, ReadPadding, ReadName, Goto, Fail
<1>4. CASE ExitUnused \/ AbandonNode \/ Deposit \/ CloseHeaders \/ CloseErrors
  BY <1>4 DEF ExitUnused, AbandonNode, Deposit, CloseHeaders, CloseErrors, Return, Goto, Fail
<1> QED BY <1>1, <1>2, <1>3, <1>4 DEF ParserStep

LEMMA PlacedNext == Inv /\ Placed /\ [Next]_vars => Placed'
<1> SUFFICES ASSUME Inv, Placed, [Next]_vars PROVE Placed'
  OBVIOUS
<1>1. CASE UNCHANGED vars
  BY <1>1 DEF Placed, HoldsContentOf, vars, input, content, parser, consumer
<1>2. CASE ParserStep
  BY <1>2, PlacedSetup, PlacedParser
<1>3. CASE NewReader
  BY <1>3 DEF Inv, Handshake, Placed, NewReader
<1>4. CASE CallNext \/ SeeHeadersClosed \/ Close
  BY <1>4 DEF Placed, HoldsContentOf, CallNext, SeeHeadersClosed, Close, input, content, parser
<1>5. CASE Resume
  <2>1. AfterHeader \in {"skip", "close", "loop"}
    BY DEF Inv, TypeOK, Header, HeaderTypes, AfterHeader
  <2> QED BY <1>5, <2>1 DEF Placed, Resume
<1>6. CASE TakeHeader
  <2>1. hdr \in Header /\ delivered \in Seq(Header)
    BY DEF Inv, TypeOK
  <2>2. /\ Append(delivered, hdr) # << >>
        /\ Append(delivered, hdr)[Len(Append(delivered, hdr))] = hdr
    BY <2>1, AppendProperties
  <2>3. HoldsContentOf(hdr)'
    BY <1>6 DEF Placed, HoldsContentOf, TakeHeader, input, content, parser
  <2> QED BY <1>6, <2>2, <2>3 DEF Placed, TakeHeader, parser
<1>7. CASE ReceiveError
  <2>1. ppc' = ppc /\ ppc \notin {"wait", "send", "start", "new"}
    BY <1>7 DEF ReceiveError, Inv, Handshake, LastLabels
  <2> QED BY <2>1 DEF Placed
<1>8. CASE Read
  BY <1>8, PlacedSetup
<1> QED BY <1>1, <1>2, <1>3, <1>4, <1>5, <1>6, <1>7, <1>8
     DEF Next, ConsumerStep, InNext, Finished

(***************************************************************************)
(* Read gives the contents of the file whose header was returned last.     *)
(***************************************************************************)
THEOREM OwnContents == Spec => []ContentInPlace
<1>1. Init => Placed
  BY DEF Init, Placed
<1>2. Inv /\ Placed => ContentInPlace
  BY DEF Inv, Handshake, Placed, ContentInPlace
<1> QED BY <1>1, <1>2, Invariance, PlacedNext, PTL DEF Spec
----------------------------------------------------------------------------
(***************************************************************************)
(* The reader implements ArchiveIterator.  While nothing has gone wrong    *)
(* and the consumer has not closed the reader, the parser is at the word   *)
(* its label is for, its calls of parseNode are for the nodes that word    *)
(* stands in, and the headers delivered are those that were shown.         *)
(***************************************************************************)
Live == Faithful /\ ~closed /\ err = "none"

At(i, part, shown) ==
  /\ i \in 1..Len(stream.layout)
  /\ stream.layout[i].part = part /\ stream.layout[i].shown = shown
  /\ Len(stream.layout[i].within) = Len(stack)
  /\ \A k \in 1..Len(stack) : stack[k].path = stream.layout[i].within[k]

AtEndOfData(shown) == At(pos + left, IF padded THEN "padding" ELSE "close", shown)

BehindHeader(shown) ==
  /\ hdr.type = "regular"   => AtEndOfData(shown)
  /\ hdr.type = "symlink"   => At(pos, "close", shown)
  /\ hdr.type = "directory" => At(pos, "loop", shown)

\* The verdict v is the right one.
Justified(v) == IF v = "eof" THEN stream.intact /\ delivered = stream.entries ELSE ~stream.intact

Prefix ==
  /\ Len(delivered) <= Len(stream.entries)
  /\ \A i \in 1..Len(delivered) : delivered[i] = stream.entries[i]

\* No frame holds the name that would end the loop over its directory.
Tokens == \A k \in 1..Len(stack) : stack[k].token # ")"

OnCourse ==
  /\ ppc = "new" => pos = 1 /\ left = 0
  /\ ppc = "start" => pos = 2 /\ left = 0 /\ Stands(stream, 2, "open", <<Root>>, 0)
  /\ ppc \in ReadingLabels \ {"skip", "padding"} => At(pos, ppc, Len(delivered))
  /\ ppc = "entryNode" => Top.token = stream.words[pos - 1].tok
  /\ ppc = "skip" => AtEndOfData(Len(delivered))
  /\ ppc = "padding" => left = 0 /\ AtEndOfData(Len(delivered))
  /\ ppc = "send" => /\ Len(delivered) < Len(stream.entries)
                     /\ hdr = stream.entries[Len(delivered) + 1]
                     /\ BehindHeader(Len(delivered) + 1)
  /\ ppc = "wait" => BehindHeader(Len(delivered))
  /\ ppc = "deposit" => Justified(verdict)
  /\ errors # "none" => Justified(errors)

Tracked == Live => Prefix /\ Tokens /\ OnCourse

(***************************************************************************)
(* What does not depend on the archive: a call of Next is only made while  *)
(* there is no error, the last header delivered is the one to compare      *)
(* with, and no header is of a file over the limit.                        *)
(***************************************************************************)
Steady ==
  /\ cpc # "idle" => err = "none"
  /\ previous = IF delivered = << >> THEN Root ELSE delivered[Len(delivered)].path
  /\ hdr.size <= MaxSize
  /\ \A i \in 1..Len(delivered) : delivered[i].size <= MaxSize

\* What is assumed of an archive that is not damaged (NarReader, UndamagedAreLaidOut).
LEMMA LayoutFacts ==
  ASSUME stream \in Archives, ~stream.damaged
  PROVE  /\ Len(stream.words) \in Nat /\ Len(stream.layout) \in Nat \ {0}
         /\ Len(stream.words) <= Len(stream.layout)
         /\ stream.entries \in Seq(Header) /\ Len(stream.entries) \in Nat
         /\ Stands(stream, 1, "magic", << >>, 0)
         /\ \A i \in 1..Len(stream.layout) :
              stream.layout[i].within \in Seq(Path) /\ stream.layout[i].shown \in Nat
         /\ \A i \in 1..Len(stream.words) :
              NodeWords(stream, i) /\ FileWords(stream, i) /\ EntryWords(stream, i)
<1>1. stream.words \in Seq(Packet) /\ LaidOut(stream)
  BY ArchivesAreStreams, UndamagedAreLaidOut
<1>2. stream.layout \in Seq(Place) /\ stream.entries \in Seq(Header)
  BY <1>1 DEF LaidOut
<1>3. /\ Len(stream.words) \in Nat /\ Len(stream.layout) \in Nat /\ Len(stream.entries) \in Nat
      /\ DOMAIN stream.words = 1..Len(stream.words)
  BY <1>1, <1>2, LenProperties
<1>4. \A i \in 1..Len(stream.layout) : stream.layout[i] \in Place
  BY <1>2, ElementOfSeq
<1>5. Stands(stream, 1, "magic", << >>, 0) /\ 1 <= Len(stream.layout)
  BY <1>1 DEF LaidOut, Stands
<1>6. Len(stream.layout) \in Nat \ {0}
  BY <1>3, <1>5
<1>7. \A i \in 1..Len(stream.layout) :
        stream.layout[i].within \in Seq(Path) /\ stream.layout[i].shown \in Nat
  BY <1>4 DEF Place
<1>8. /\ Len(stream.words) <= Len(stream.layout)
      /\ \A i \in 1..Len(stream.words) :
           NodeWords(stream, i) /\ FileWords(stream, i) /\ EntryWords(stream, i)
  BY <1>1, <1>3 DEF LaidOut
<1> QED BY <1>2, <1>3, <1>5, <1>6, <1>7, <1>8

(***************************************************************************)
(* A word that should be there is one of the archive's, or the input has   *)
(* ended early, and says so.                                               *)
(***************************************************************************)
LEMMA Reading ==
  ASSUME Inv, ~stream.damaged, NEW i \in 1..Len(stream.layout), i >= pos
  PROVE  /\ i > Len(stream.words) => ~stream.intact /\ stream.end = "err"
         /\ EndReached => ~stream.intact /\ ReadFailure = "err"
         /\ ~EndReached => /\ pos \in 1..Len(stream.words)
                           /\ NodeWords(stream, pos) /\ FileWords(stream, pos) /\ EntryWords(stream, pos)
<1>1. Len(stream.words) \in Nat /\ Len(stream.layout) \in Nat /\ pos \in Nat \ {0} /\ i \in Nat
  BY LayoutFacts DEF Inv, TypeOK
<1>2. i > Len(stream.words) => ~Whole(stream)
  BY <1>1 DEF Whole
<1>3. ~Whole(stream) => ~stream.intact /\ stream.end = "err"
  BY UndamagedAreLaidOut DEF Inv
<1>4. EndReached => i > Len(stream.words)
  BY <1>1 DEF EndReached
<1>5. ~EndReached => pos \in 1..Len(stream.words)
  BY <1>1 DEF EndReached
<1> QED BY <1>2, <1>3, <1>4, <1>5, LayoutFacts DEF ReadFailure, Inv

\* A place that follows, in the same nodes, is one the parser can be at.
LEMMA StandsThere ==
  ASSUME Inv, ~stream.damaged, NEW i, NEW part, NEW shown, At(i, part, shown),
         NEW j \in Nat \ {0}, NEW then, NEW n, Stands(stream, j, then, stream.layout[i].within, n)
  PROVE  At(j, then, n)
<1>1. Len(stream.layout) \in Nat
  BY LayoutFacts DEF Inv
<1> QED BY <1>1 DEF At, Stands

----------------------------------------------------------------------------
\* The parser gives up, for a reason.
LEMMA Fails ==
  ASSUME Inv, Live, Tracked, ppc \in ReadingLabels,
         UNCHANGED <<stream, channels, consumer>>,
         ppc' = "deposit", Justified(verdict)', Tokens'
  PROVE  Tracked'
<1>1. errors' = "none"
  BY DEF Inv, Handshake, ReadingLabels, LastLabels, channels
<1>2. Prefix'
  BY DEF Tracked, Prefix, consumer
<1> QED BY <1>1, <1>2 DEF Tracked, OnCourse, ReadingLabels

\* The parser goes on to the word that its next label is for.
LEMMA GoesOn ==
  ASSUME Inv, Live, Tracked, ppc \in ReadingLabels,
         UNCHANGED <<stream, channels, consumer>>,
         ppc' \in ReadingLabels \ {"skip", "padding", "entryNode"},
         At(pos, ppc, Len(delivered))', Tokens'
  PROVE  Tracked'
<1>1. errors' = "none"
  BY DEF Inv, Handshake, ReadingLabels, LastLabels, channels
<1>2. Prefix'
  BY DEF Tracked, Prefix, consumer
<1> QED BY <1>1, <1>2 DEF Tracked, OnCourse, ReadingLabels

(***************************************************************************)
(* The word that closes a node: parseNode returns to the call that expects *)
(* the ")" of the entry, or has come to the end of a sound archive.        *)
(***************************************************************************)
LEMMA ReturnsInPlace ==
  ASSUME Inv, Live, Sequel, Steady, Tracked, ppc \in ReadingLabels,
         NEW part, At(pos, part, Len(delivered)), Closes(stream, pos), ~EndReached,
         Return, pos' = pos + 1, UNCHANGED <<stream, channels, consumer>>
  PROVE  Tracked'
<1> DEFINE n == Len(stack)
           p == stream.layout[pos]
<1>1. /\ stack \in Seq(Frame) /\ stack # << >> /\ pos \in Nat \ {0}
      /\ delivered \in Seq(Header) /\ stream.entries \in Seq(Header)
      /\ Len(delivered) \in Nat
  BY LayoutFacts, LenProperties DEF Inv, TypeOK, Frames, Live, Faithful
<1>2. /\ pos \in 1..Len(stream.layout) /\ p.within \in Seq(Path) /\ p.shown = Len(delivered)
      /\ Len(p.within) = n
      /\ \A k \in 1..n : stack[k].path = p.within[k]
  BY LayoutFacts DEF At, Inv, Live, Faithful
<1>3. /\ n \in Nat \ {0} /\ Len(SubSeq(stack, 1, n - 1)) = n - 1
      /\ \A k \in 1..(n - 1) : SubSeq(stack, 1, n - 1)[k] = stack[k]
  BY <1>1, FrontFacts
<1>4. stack' = SubSeq(stack, 1, n - 1)
  BY DEF Return
<1>5. Tokens'
  BY <1>3, <1>4 DEF Tracked, Tokens
<1>6. CASE n = 1
  <2>1. pos = Len(stream.layout) /\ Len(delivered) = Len(stream.entries)
    BY <1>2, <1>6 DEF Closes
  <2>2. Whole(stream)
    BY <2>1, <1>1, LayoutFacts DEF Whole, EndReached, Live, Faithful, Inv
  <2>3. delivered = stream.entries
    BY <1>1, <2>1, SeqEqual DEF Tracked, Prefix
  <2>4. Sorted(stream.entries)
    BY <1>1, <2>3 DEF Sequel, HeadersInOrder, Sorted
  <2>5. stream.intact
    <3>1. \A i \in DOMAIN stream.entries : stream.entries[i].size <= MaxSize
      BY <1>1, <2>3, LenProperties DEF Steady
    <3> QED BY <2>2, <2>4, <3>1, UndamagedAreLaidOut DEF Inv, Live, Faithful
  <2>6. ppc' = "deposit" /\ verdict' = "eof"
    BY <1>6 DEF Return, Fail
  <2> QED BY <1>5, <2>3, <2>5, <2>6, Fails DEF Justified, consumer
<1>7. CASE n # 1
  <2>1. Stands(stream, pos + 1, "entryClose", SubSeq(p.within, 1, n - 1), Len(delivered))
    BY <1>2, <1>7 DEF Closes
  <2>2. /\ Len(SubSeq(p.within, 1, n - 1)) = n - 1
        /\ \A k \in 1..(n - 1) : SubSeq(p.within, 1, n - 1)[k] = p.within[k]
    <3>1. p.within # << >>
      BY <1>2, <1>3
    <3> QED BY <1>2, <3>1, FrontFacts, SMTT(30)
  <2>3. \A k \in 1..(n - 1) : stack'[k].path = SubSeq(p.within, 1, n - 1)[k]
    BY <1>2, <1>3, <1>4, <2>2
  <2>4. ppc' = "entryClose"
    BY <1>7 DEF Return, Goto
  <2>5. stream' = stream /\ delivered' = delivered /\ pos' \in 1..Len(stream.layout)
        /\ Len(stack') = n - 1
    <3>1. Len(stream.layout) \in Nat
      BY LayoutFacts DEF Inv, Live, Faithful
    <3> QED BY <1>1, <1>3, <1>4, <2>1, <3>1 DEF consumer, Stands
  <2>6. At(pos, ppc, Len(delivered))'
    <3> HIDE DEF n
    <3> QED BY <2>1, <2>2, <2>3, <2>4, <2>5, SMTT(30) DEF At, Stands
  <2>7. ppc' \in ReadingLabels \ {"skip", "padding", "entryNode"}
    BY <2>4 DEF ReadingLabels
  <2> QED BY <1>5, <2>6, <2>7, GoesOn
<1> QED BY <1>6, <1>7

(***************************************************************************)
(* The step goes from the word at pos to the place behind it, in the same  *)
(* node, or finds the input at its end.                                    *)
(***************************************************************************)
LEMMA PlainTrack ==
  ASSUME Inv, Live, Tracked, ppc \in ReadingLabels \ {"skip", "padding"},
         UNCHANGED <<stream, stack, channels, consumer>>,
         \/ EndReached /\ ppc' = "deposit" /\ verdict' = "err"
         \/ /\ ~EndReached /\ pos' = pos + 1
            /\ ppc' \in ReadingLabels \ {"skip", "padding", "entryNode"}
            /\ Stands(stream, pos + 1, ppc', stream.layout[pos].within, Len(delivered))
  PROVE  Tracked'
<1>1. At(pos, ppc, Len(delivered)) /\ pos \in Nat \ {0} /\ Tokens'
  BY DEF Tracked, OnCourse, Inv, TypeOK, Tokens
<1>2. CASE EndReached /\ ppc' = "deposit" /\ verdict' = "err"
  <2>1. ~stream.intact
    BY <1>1, <1>2, Reading DEF At, Live, Faithful
  <2> QED BY <1>1, <1>2, <2>1, Fails DEF Justified
<1>3. CASE /\ ~EndReached /\ pos' = pos + 1
           /\ ppc' \in ReadingLabels \ {"skip", "padding", "entryNode"}
           /\ Stands(stream, pos + 1, ppc', stream.layout[pos].within, Len(delivered))
  <2>1. Len(stream.layout) \in Nat
    BY LayoutFacts DEF Inv, Live, Faithful
  <2>2. At(pos, ppc, Len(delivered))'
    BY <1>1, <1>3, <2>1 DEF At, Stands, consumer
  <2> QED BY <1>1, <1>3, <2>2, GoesOn
<1> QED BY <1>2, <1>3

----------------------------------------------------------------------------
(***************************************************************************)
(* The parser's steps, on an archive that is not damaged.                  *)
(***************************************************************************)
LEMMA ExpectStringTrack ==
  ASSUME Inv, Live, Tracked, ExpectString
  PROVE  Tracked'
<1>1. ppc \in {"open", "type", "target", "entryOpen", "entryName"}
  BY DEF ExpectString, Following
<1>2. /\ ppc \in ReadingLabels \ {"skip", "padding"}
      /\ Following[ppc] \in ReadingLabels \ {"skip", "padding", "entryNode"}
  BY <1>1 DEF ReadingLabels, Following
<1>3. At(pos, ppc, Len(delivered))
  BY <1>2 DEF Tracked, OnCourse
<1>4. ~EndReached => NodeWords(stream, pos) /\ EntryWords(stream, pos)
  BY <1>3, Reading DEF At, Live, Faithful, Inv, TypeOK
<1>5. ~EndReached => /\ Readable /\ Word.tok = Expected[ppc]
                     /\ Stands(stream, pos + 1, Following[ppc], stream.layout[pos].within, Len(delivered))
  BY <1>1, <1>3, <1>4 DEF At, NodeWords, EntryWords, Readable, Unreadable, Word, Oversized, Padding,
     Dirty, Expected, Following
<1>6. EndReached => ~Readable
  BY DEF Readable
<1>7. UNCHANGED <<stream, stack, channels, consumer>>
  BY DEF ExpectString
<1>8. CASE EndReached
  BY <1>2, <1>6, <1>7, <1>8, PlainTrack DEF ExpectString, Fail
<1>9. CASE ~EndReached
  <2>1. ppc' = Following[ppc] /\ pos' = pos + 1
    BY <1>5, <1>9 DEF ExpectString, Goto
  <2> QED BY <1>2, <1>5, <1>7, <1>9, <2>1, PlainTrack
<1> QED BY <1>8, <1>9

LEMMA ReadBodyTrack ==
  ASSUME Inv, Live, Tracked, ReadBody
  PROVE  Tracked'
<1>1. /\ ppc \in {"body", "contents"} /\ ppc \in ReadingLabels \ {"skip", "padding"}
      /\ {"placeholder", "length"} \subseteq ReadingLabels \ {"skip", "padding", "entryNode"}
  BY DEF ReadBody, ReadingLabels
<1>2. At(pos, ppc, Len(delivered))
  BY <1>1 DEF Tracked, OnCourse
<1>3. ~EndReached => FileWords(stream, pos)
  BY <1>2, Reading DEF At, Live, Faithful, Inv, TypeOK
<1>4. EndReached => ReadFailure = "err" /\ ~Readable
  BY <1>2, Reading DEF At, Live, Faithful, Inv, TypeOK, Readable
<1>5. UNCHANGED <<stream, stack, channels, consumer>>
  BY DEF ReadBody
<1>6. CASE EndReached
  BY <1>1, <1>4, <1>5, <1>6, PlainTrack DEF ReadBody, Fail
<1>7. CASE ~EndReached
  <2>1. /\ Readable
        /\ \/ /\ ppc = "body" /\ Word.tok = "executable"
              /\ Stands(stream, pos + 1, "placeholder", stream.layout[pos].within, Len(delivered))
           \/ /\ Word.tok = "contents"
              /\ Stands(stream, pos + 1, "length", stream.layout[pos].within, Len(delivered))
    BY <1>1, <1>2, <1>3, <1>7 DEF At, FileWords, Readable, Unreadable, Word, Oversized, Padding, Dirty
  <2>2. /\ pos' = pos + 1
        /\ \/ ppc' = "placeholder" /\ ppc = "body" /\ Word.tok = "executable"
           \/ ppc' = "length" /\ Word.tok = "contents"
    BY <2>1 DEF ReadBody, Goto
  <2>3. ppc' \in ReadingLabels \ {"skip", "padding", "entryNode"}
        /\ Stands(stream, pos + 1, ppc', stream.layout[pos].within, Len(delivered))
    BY <1>1, <2>1, <2>2
  <2> QED BY <1>1, <1>5, <1>7, <2>2, <2>3, PlainTrack
<1> QED BY <1>6, <1>7

LEMMA ReadPlaceholderTrack ==
  ASSUME Inv, Live, Tracked, ReadPlaceholder
  PROVE  Tracked'
<1>1. /\ ppc = "placeholder" /\ ppc \in ReadingLabels \ {"skip", "padding"}
      /\ "contents" \in ReadingLabels \ {"skip", "padding", "entryNode"}
  BY DEF ReadPlaceholder, ReadingLabels
<1>2. At(pos, ppc, Len(delivered))
  BY <1>1 DEF Tracked, OnCourse
<1>3. ~EndReached => FileWords(stream, pos)
  BY <1>2, Reading DEF At, Live, Faithful, Inv, TypeOK
<1>4. UNCHANGED <<stream, stack, channels, consumer>>
  BY DEF ReadPlaceholder
<1>5. CASE EndReached
  BY <1>1, <1>4, <1>5, PlainTrack DEF ReadPlaceholder, Fail, Readable
<1>6. CASE ~EndReached
  <2>1. /\ Readable /\ Word.tok = ""
        /\ Stands(stream, pos + 1, "contents", stream.layout[pos].within, Len(delivered))
    BY <1>1, <1>2, <1>3, <1>6 DEF At, FileWords, Readable, Unreadable, Word, Oversized, Padding, Dirty
  <2>2. pos' = pos + 1 /\ ppc' = "contents"
    BY <2>1 DEF ReadPlaceholder, Goto
  <2> QED BY <1>1, <1>4, <1>6, <2>1, <2>2, PlainTrack
<1> QED BY <1>5, <1>6

LEMMA ReadCloseTrack ==
  ASSUME Inv, Live, Sequel, Steady, Tracked, ReadClose
  PROVE  Tracked'
<1>1. ppc = "close" /\ ppc \in ReadingLabels \ {"skip", "padding"}
  BY DEF ReadClose, ReadingLabels
<1>2. At(pos, ppc, Len(delivered))
  BY <1>1 DEF Tracked, OnCourse
<1>3. ~EndReached => NodeWords(stream, pos)
  BY <1>2, Reading DEF At, Live, Faithful, Inv, TypeOK
<1>4. EndReached => ReadFailure = "err" /\ ~Readable
  BY <1>2, Reading DEF At, Live, Faithful, Inv, TypeOK, Readable
<1>5. UNCHANGED <<stream, channels, consumer>>
  BY DEF ReadClose
<1>6. CASE EndReached
  BY <1>1, <1>4, <1>5, <1>6, PlainTrack DEF ReadClose, Fail
<1>7. CASE ~EndReached
  <2>1. Readable /\ Word.tok = ")" /\ Closes(stream, pos)
    BY <1>1, <1>2, <1>3, <1>7 DEF At, NodeWords, Readable, Unreadable, Word, Oversized, Padding, Dirty
  <2>2. pos' = pos + 1 /\ Return
    BY <2>1 DEF ReadClose
  <2> QED BY <1>1, <1>2, <1>5, <1>7, <2>1, <2>2, ReturnsInPlace
<1> QED BY <1>6, <1>7

LEMMA ReadEntryTokenTrack ==
  ASSUME Inv, Live, Sequel, Steady, Tracked, ReadEntryToken
  PROVE  Tracked'
<1>1. /\ ppc = "loop" /\ ppc \in ReadingLabels \ {"skip", "padding"}
      /\ "entryOpen" \in ReadingLabels \ {"skip", "padding", "entryNode"}
  BY DEF ReadEntryToken, ReadingLabels
<1>2. At(pos, ppc, Len(delivered))
  BY <1>1 DEF Tracked, OnCourse
<1>3. ~EndReached => EntryWords(stream, pos)
  BY <1>2, Reading DEF At, Live, Faithful, Inv, TypeOK
<1>4. EndReached => ReadFailure = "err" /\ ~Readable
  BY <1>2, Reading DEF At, Live, Faithful, Inv, TypeOK, Readable
<1>5. UNCHANGED <<stream, channels, consumer>>
  BY DEF ReadEntryToken
<1>6. CASE EndReached
  BY <1>1, <1>4, <1>5, <1>6, PlainTrack DEF ReadEntryToken, Fail
<1>7. CASE ~EndReached
  <2>1. /\ Readable
        /\ \/ /\ Word.tok = "entry"
              /\ Stands(stream, pos + 1, "entryOpen", stream.layout[pos].within, Len(delivered))
           \/ Word.tok = ")" /\ Closes(stream, pos)
    BY <1>1, <1>2, <1>3, <1>7 DEF At, EntryWords, Readable, Unreadable, Word, Oversized, Padding, Dirty
  <2>2. /\ pos' = pos + 1
        /\ \/ Word.tok = "entry" /\ ppc' = "entryOpen" /\ stack' = stack
           \/ Word.tok = ")" /\ Return
    BY <2>1 DEF ReadEntryToken, Goto
  <2>3. CASE Word.tok = "entry"
    BY <1>1, <1>5, <1>7, <2>1, <2>2, <2>3, PlainTrack
  <2>4. CASE Word.tok = ")"
    BY <1>1, <1>2, <1>5, <1>7, <2>1, <2>2, <2>4, ReturnsInPlace
  <2> QED BY <2>1, <2>3, <2>4
<1> QED BY <1>6, <1>7

LEMMA ExpectEntryCloseTrack ==
  ASSUME Inv, Live, Tracked, ExpectEntryClose
  PROVE  Tracked'
<1>1. /\ ppc = "entryClose" /\ ppc \in ReadingLabels \ {"skip", "padding"}
      /\ "loop" \in ReadingLabels \ {"skip", "padding", "entryNode"}
  BY DEF ExpectEntryClose, ReadingLabels
<1>2. At(pos, ppc, Len(delivered))
  BY <1>1 DEF Tracked, OnCourse
<1>3. ~EndReached => EntryWords(stream, pos)
  BY <1>2, Reading DEF At, Live, Faithful, Inv, TypeOK
<1>4. UNCHANGED <<stream, channels, consumer>> /\ stack # << >> /\ ~EndsDirectory
  BY <1>1, TopType DEF ExpectEntryClose, Inv, Frames, Tracked, Tokens, EndsDirectory, Top
<1>5. CASE EndReached
  BY <1>1, <1>4, <1>5, PlainTrack DEF ExpectEntryClose, Fail, Readable
<1>6. CASE ~EndReached
  <2>1. /\ Readable /\ Word.tok = ")"
        /\ Stands(stream, pos + 1, "loop", stream.layout[pos].within, Len(delivered))
    BY <1>1, <1>2, <1>3, <1>6 DEF At, EntryWords, Readable, Unreadable, Word, Oversized, Padding, Dirty
  <2>2. pos' = pos + 1 /\ ppc' = "loop" /\ stack' = stack
    BY <1>1, <1>4, <2>1 DEF ExpectEntryClose, Expected, Goto
  <2> QED BY <1>1, <1>4, <1>6, <2>1, <2>2, PlainTrack
<1> QED BY <1>5, <1>6

LEMMA ReadNameTrack ==
  ASSUME Inv, Live, Tracked, ReadName
  PROVE  Tracked'
<1> DEFINE n == Len(stack)
           frame == [stack[n] EXCEPT !.token = Word.tok]
<1>1. ppc = "name" /\ ppc \in ReadingLabels \ {"skip", "padding"} /\ pos \in Nat \ {0}
  BY DEF ReadName, ReadingLabels, Inv, TypeOK
<1>2. At(pos, ppc, Len(delivered))
  BY <1>1 DEF Tracked, OnCourse
<1>3. ~EndReached => EntryWords(stream, pos)
  BY <1>2, Reading DEF At, Live, Faithful, Inv, TypeOK
<1>4. EndReached => ReadFailure = "err" /\ ~Readable
  BY <1>2, Reading DEF At, Live, Faithful, Inv, TypeOK, Readable
<1>5. UNCHANGED <<stream, channels, consumer>>
  BY DEF ReadName
<1>6. CASE EndReached
  BY <1>1, <1>4, <1>5, <1>6, PlainTrack DEF ReadName, Fail
<1>7. CASE ~EndReached
  <2>1. /\ Readable /\ Word.tok \in Name
        /\ Stands(stream, pos + 1, "entryNode", stream.layout[pos].within, Len(delivered))
        /\ stream.layout[pos].part = "name"
    BY <1>1, <1>2, <1>3, <1>7 DEF At, EntryWords, Readable, Word
  <2>0. Word.tok # ")"
    <3>1. pos \in DOMAIN stream.words
      BY <1>2, <1>7, Reading, ArchivesAreStreams, LenProperties DEF At, Live, Faithful, Inv, TypeOK
    <3> QED BY <2>1, <3>1 DEF Live, Faithful, HidesEntries, Word
  <2>2. pos' = pos + 1 /\ ppc' = "entryNode" /\ stack' = [stack EXCEPT ![n] = frame]
    BY <2>1 DEF ReadName, Goto
  <2>3. stack \in Seq(Frame) /\ n \in Nat \ {0} /\ stack[n] \in Frame
    BY <1>1, TopType DEF Inv, TypeOK, Frames, Top
  <2>4. frame.path = stack[n].path /\ frame.token = Word.tok
    BY <2>3 DEF Frame
  <2>5. /\ Len(stack') = n /\ stack'[n] = frame
        /\ \A k \in 1..n : k # n => stack'[k] = stack[k]
    <3>1. frame \in Frame
      BY <2>1, <2>3 DEF Frame
    <3> HIDE DEF frame
    <3> QED BY <2>2, <2>3, <3>1, ExceptSeq
  <2>6. /\ \A k \in 1..n : stack'[k].path = stack[k].path
        /\ \A k \in 1..n : stack'[k].token # ")"
    <3> HIDE DEF frame
    <3>1. \A k \in 1..n : stack[k].token # ")"
      BY DEF Tracked, Tokens
    <3> HIDE DEF n
    <3> QED BY <2>0, <2>4, <2>5, <3>1
  <2>7. At(pos, ppc, Len(delivered))'
    <3>1. /\ Len(stream.layout) \in Nat /\ Len(stream.layout[pos].within) = n
          /\ \A k \in 1..n : stack[k].path = stream.layout[pos].within[k]
      BY <1>2, LayoutFacts DEF At, Inv, Live, Faithful
    <3>2. stream' = stream /\ delivered' = delivered
      BY <1>5 DEF consumer
    <3> HIDE DEF n, frame
    <3> QED BY <1>1, <2>1, <2>2, <2>5, <2>6, <3>1, <3>2 DEF At, Stands
  <2>8. Top'.token = stream'.words[pos' - 1].tok
    <3>1. pos' - 1 = pos /\ stream' = stream
      BY <1>1, <1>5, <2>2
    <3>2. stack'[Len(stack')].token = Word.tok
      BY <2>4, <2>5
    <3> QED BY <3>1, <3>2 DEF Top, Word
  <2>9. errors' = "none" /\ Prefix'
    BY <1>1, <1>5 DEF Inv, Handshake, LastLabels, channels, consumer, Tracked, Prefix
  <2>10. Tokens'
    BY <2>5, <2>6 DEF Tokens
  <2> HIDE DEF n, frame
  <2> QED BY <2>2, <2>7, <2>8, <2>9, <2>10 DEF Tracked, OnCourse
<1> QED BY <1>6, <1>7

LEMMA ExpectNodeTrack ==
  ASSUME Inv, Live, Tracked, ExpectNode
  PROVE  Tracked'
<1> DEFINE n == Len(stack)
           frame == [path |-> Join(Top.path, Top.token), token |-> "directory"]
           p == stream.layout[pos]
<1>1. ppc = "entryNode" /\ ppc \in ReadingLabels \ {"skip", "padding"} /\ pos \in Nat \ {0}
  BY DEF ExpectNode, ReadingLabels, Inv, TypeOK
<1>2. At(pos, ppc, Len(delivered)) /\ Top.token = stream.words[pos - 1].tok
  BY <1>1 DEF Tracked, OnCourse
<1>3. ~EndReached => EntryWords(stream, pos)
  BY <1>2, Reading DEF At, Live, Faithful, Inv, TypeOK
<1>4. UNCHANGED <<stream, channels, consumer>>
  BY DEF ExpectNode
<1>5. CASE EndReached
  BY <1>1, <1>4, <1>5, PlainTrack DEF ExpectNode, Fail, Readable
<1>6. CASE ~EndReached
  <2>1. /\ Readable /\ Word.tok = "node"
        /\ Stands(stream, pos + 1, "open",
                  Append(p.within, Join(Innermost(p), Top.token)), Len(delivered))
    BY <1>1, <1>2, <1>3, <1>6 DEF At, EntryWords, Readable, Unreadable, Word, Oversized, Padding, Dirty
  <2>2. pos' = pos + 1 /\ ppc' = "open" /\ stack' = Append(stack, frame)
    BY <1>1, <2>1 DEF ExpectNode, Expected, Goto
  <2>3. /\ stack \in Seq(Frame) /\ n \in Nat \ {0} /\ Top.token \in Name /\ Top.path \in Path
        /\ p.within \in Seq(Path) /\ Len(p.within) = n /\ Innermost(p) = Top.path
        /\ \A k \in 1..n : stack[k].path = p.within[k]
    <3>1. stack \in Seq(Frame) /\ n \in Nat \ {0} /\ Top.token \in Name /\ Top.path \in Path
      BY <1>1, TopType DEF Inv, TypeOK, Frames
    <3>2. p.within \in Seq(Path) /\ Len(p.within) = n /\ \A k \in 1..n : stack[k].path = p.within[k]
      BY <1>2, LayoutFacts DEF At, Inv, Live, Faithful
    <3> QED BY <3>1, <3>2 DEF Innermost, Top
  <2>4. /\ Join(Top.path, Top.token) \in Path
        /\ frame \in Frame
    BY <2>3, JoinType DEF Frame
  <2>5. /\ Len(stack') = n + 1 /\ stack'[n + 1] = frame
        /\ \A k \in 1..n : stack'[k] = stack[k]
    <3> HIDE DEF frame
    <3> QED BY <2>2, <2>3, <2>4, AppendProperties
  <2> DEFINE inside == Append(p.within, Join(Top.path, Top.token))
  <2>6. /\ Len(inside) = n + 1 /\ inside[n + 1] = Join(Top.path, Top.token)
        /\ \A k \in 1..n : inside[k] = p.within[k]
    <3> HIDE DEF p
    <3> QED BY <2>3, <2>4, AppendProperties
  <2>7. \A k \in 1..(n + 1) : stack'[k].path = inside[k]
    <3> TAKE k \in 1..(n + 1)
    <3>1. CASE k = n + 1
      BY <2>5, <2>6, <3>1
    <3>2. CASE k \in 1..n
      <4> HIDE DEF inside, frame
      <4> QED BY <2>3, <2>5, <2>6, <3>2
    <3> QED BY <2>3, <3>1, <3>2
  <2>8. Tokens'
    <3> SUFFICES ASSUME NEW k \in 1..Len(stack') PROVE stack'[k].token # ")"
      BY DEF Tokens
    <3>1. CASE k = n + 1
      BY <2>5, <3>1
    <3>2. CASE k \in 1..n
      BY <2>5, <3>2 DEF Tracked, Tokens
    <3> QED BY <2>3, <2>5, <3>1, <3>2
  <2>9. Stands(stream, pos + 1, "open", inside, Len(delivered))
    BY <2>1, <2>3
  <2>10. At(pos, ppc, Len(delivered))'
    <3>1. Len(stream.layout) \in Nat
      BY LayoutFacts DEF Inv, Live, Faithful
    <3> HIDE DEF n, inside
    <3> QED BY <1>1, <1>4, <2>2, <2>5, <2>6, <2>7, <2>9, <3>1 DEF At, Stands, consumer
  <2> QED BY <1>1, <1>4, <2>2, <2>8, <2>10, GoesOn DEF ReadingLabels
<1> QED BY <1>5, <1>6

\* The frame on top is for the innermost node the parser's word stands in.
LEMMA AtInnermost ==
  ASSUME Inv, ~stream.damaged, NEW part, NEW shown, At(pos, part, shown), stack # << >>
  PROVE  Innermost(stream.layout[pos]) = Top.path
<1>1. Len(stack) \in Nat \ {0}
  BY TopType DEF Inv
<1> QED BY <1>1 DEF At, Innermost, Top

\* The parser has the header that is due, and is behind the words it depends on.
LEMMA SendTrack ==
  ASSUME Inv, Live, Tracked, ppc \in ReadingLabels,
         UNCHANGED <<stream, stack, channels, consumer>>,
         ppc' = "send", Len(delivered) < Len(stream.entries),
         hdr' = stream.entries[Len(delivered) + 1],
         BehindHeader(Len(delivered) + 1)'
  PROVE  Tracked'
<1>1. errors' = "none"
  BY DEF Inv, Handshake, ReadingLabels, LastLabels, channels
<1>2. Prefix' /\ Tokens' /\ delivered' = delivered /\ stream' = stream
  BY DEF Tracked, Prefix, Tokens, consumer
<1> QED BY <1>1, <1>2 DEF Tracked, OnCourse, ReadingLabels

LEMMA ReadTypeTrack ==
  ASSUME Inv, Live, Tracked, ReadType
  PROVE  Tracked'
<1> DEFINE p == stream.layout[pos]
           Then(part) == Stands(stream, pos + 1, part, p.within, Len(delivered))
<1>1. /\ ppc = "label" /\ ppc \in ReadingLabels \ {"skip", "padding"} /\ pos \in Nat \ {0}
      /\ {"body", "target"} \subseteq ReadingLabels \ {"skip", "padding", "entryNode"}
  BY DEF ReadType, ReadingLabels, Inv, TypeOK
<1>2. At(pos, ppc, Len(delivered)) /\ stack # << >>
  BY <1>1 DEF Tracked, OnCourse, Inv, Frames
<1>3. ~EndReached => NodeWords(stream, pos)
  BY <1>2, Reading DEF At, Live, Faithful, Inv, TypeOK
<1>4. EndReached => ReadFailure = "err" /\ ~Readable
  BY <1>2, Reading DEF At, Live, Faithful, Inv, TypeOK, Readable
<1>5. UNCHANGED <<stream, channels, consumer>>
  BY DEF ReadType
<1>6. CASE EndReached
  BY <1>1, <1>4, <1>5, <1>6, PlainTrack DEF ReadType, Fail
<1>7. CASE ~EndReached
  <2>1. /\ Readable
        /\ \/ Word.tok = "regular" /\ Then("body")
           \/ Word.tok = "symlink" /\ Then("target")
           \/ /\ Word.tok = "directory" /\ Shows(stream, pos, "directory", 0, 0)
              /\ Stands(stream, pos + 1, "loop", p.within, Len(delivered) + 1)
    BY <1>1, <1>2, <1>3, <1>7 DEF At, NodeWords, Readable, Unreadable, Word, Oversized, Padding, Dirty
  <2>2. CASE Word.tok = "regular"
    <3>1. pos' = pos + 1 /\ ppc' = "body" /\ stack' = stack
      BY <2>1, <2>2 DEF ReadType, Goto, HeaderTypes
    <3> QED BY <1>1, <1>5, <1>7, <2>1, <2>2, <3>1, PlainTrack
  <2>3. CASE Word.tok = "symlink"
    <3>1. pos' = pos + 1 /\ ppc' = "target" /\ stack' = stack
      BY <2>1, <2>3 DEF ReadType, Goto, HeaderTypes
    <3> QED BY <1>1, <1>5, <1>7, <2>1, <2>3, <3>1, PlainTrack
  <2>4. CASE Word.tok = "directory"
    <3>1. /\ pos' = pos + 1 /\ ppc' = "send" /\ stack' = stack
          /\ hdr' = [path |-> Top.path, type |-> "directory", size |-> 0, at |-> 0]
      BY <2>1, <2>4 DEF ReadType, Goto, HeaderTypes
    <3>2. Len(delivered) < Len(stream.entries) /\ hdr' = stream.entries[Len(delivered) + 1]
      BY <1>2, <2>1, <2>4, <3>1, AtInnermost DEF Shows, At, Live, Faithful
    <3>3. Stands(stream, pos + 1, "loop", p.within, Len(delivered) + 1)
      BY <2>1, <2>4
    <3>4. At(pos + 1, "loop", Len(delivered) + 1)
      BY <1>1, <1>2, <3>3, StandsThere DEF Live, Faithful
    <3>5. BehindHeader(Len(delivered) + 1)'
      BY <1>5, <3>1, <3>4 DEF BehindHeader, At, consumer
    <3> QED BY <1>1, <1>5, <3>1, <3>2, <3>5, SendTrack
  <2> QED BY <2>1, <2>2, <2>3, <2>4
<1> QED BY <1>6, <1>7

LEMMA ReadTargetTrack ==
  ASSUME Inv, Live, Tracked, ReadTarget
  PROVE  Tracked'
<1> DEFINE p == stream.layout[pos]
<1>1. /\ ppc = "linkTarget" /\ ppc \in ReadingLabels \ {"skip", "padding"} /\ pos \in Nat \ {0}
  BY DEF ReadTarget, ReadingLabels, Inv, TypeOK
<1>2. At(pos, ppc, Len(delivered)) /\ stack # << >>
  BY <1>1 DEF Tracked, OnCourse, Inv, Frames
<1>3. ~EndReached => NodeWords(stream, pos)
  BY <1>2, Reading DEF At, Live, Faithful, Inv, TypeOK
<1>4. EndReached => ReadFailure = "err" /\ ~Readable
  BY <1>2, Reading DEF At, Live, Faithful, Inv, TypeOK, Readable
<1>5. UNCHANGED <<stream, stack, channels, consumer>>
  BY DEF ReadTarget
<1>6. CASE EndReached
  BY <1>1, <1>4, <1>5, <1>6, PlainTrack DEF ReadTarget, Fail
<1>7. CASE ~EndReached
  <2>1. /\ Readable /\ Shows(stream, pos, "symlink", 0, pos)
        /\ Stands(stream, pos + 1, "close", p.within, Len(delivered) + 1)
    BY <1>1, <1>2, <1>3, <1>7 DEF At, NodeWords, Readable, Word
  <2>2. /\ pos' = pos + 1 /\ ppc' = "send"
        /\ hdr' = [path |-> Top.path, type |-> "symlink", size |-> 0, at |-> pos]
    BY <2>1 DEF ReadTarget, Goto
  <2>3. Len(delivered) < Len(stream.entries) /\ hdr' = stream.entries[Len(delivered) + 1]
    <3>1. Innermost(p) = Top.path
      BY <1>2, AtInnermost DEF Live, Faithful
    <3>2. p.shown = Len(delivered)
      BY <1>2 DEF At
    <3> QED BY <2>1, <2>2, <3>1, <3>2, ZenonT(30) DEF Shows
  <2>4. At(pos + 1, "close", Len(delivered) + 1)
    BY <1>1, <1>2, <2>1, StandsThere DEF Live, Faithful
  <2>5. BehindHeader(Len(delivered) + 1)'
    BY <1>5, <2>2, <2>4 DEF BehindHeader, At, consumer
  <2> QED BY <1>1, <1>5, <2>2, <2>3, <2>5, SendTrack
<1> QED BY <1>6, <1>7

LEMMA ReadLengthTrack ==
  ASSUME Inv, Live, Tracked, ReadLength
  PROVE  Tracked'
<1> DEFINE p == stream.layout[pos]
           after == IF Word.padded THEN "padding" ELSE "close"
<1>1. /\ ppc = "length" /\ ppc \in ReadingLabels \ {"skip", "padding"} /\ pos \in Nat \ {0}
  BY DEF ReadLength, ReadingLabels, Inv, TypeOK
<1>2. At(pos, ppc, Len(delivered)) /\ stack # << >>
  BY <1>1 DEF Tracked, OnCourse, Inv, Frames
<1>3. ~EndReached => FileWords(stream, pos)
  BY <1>2, Reading DEF At, Live, Faithful, Inv, TypeOK
<1>4. EndReached => ReadFailure = "err"
  BY <1>2, Reading DEF At, Live, Faithful, Inv, TypeOK
<1>5. UNCHANGED <<stream, stack, channels, consumer>>
  BY DEF ReadLength
<1>6. CASE EndReached
  BY <1>1, <1>4, <1>5, <1>6, PlainTrack DEF ReadLength, Fail
<1>7. CASE ~EndReached
  <2>1. /\ Shows(stream, pos, "regular", Word.size, pos + 1)
        /\ Stands(stream, pos + 1 + Word.size, after, p.within, Len(delivered) + 1)
    BY <1>1, <1>2, <1>3, <1>7 DEF At, FileWords, Word
  <2>2. Word.size \in Nat
    BY <1>7, WordType DEF Inv
  <2>3. /\ Len(delivered) < Len(stream.entries)
        /\ stream.entries[Len(delivered) + 1] =
             [path |-> Top.path, type |-> "regular", size |-> Word.size, at |-> pos + 1]
    BY <1>2, <2>1, AtInnermost DEF Shows, At, Live, Faithful
  <2>4. CASE Word.size > MaxSize
    <3>1. /\ Len(delivered) + 1 \in DOMAIN stream.entries
          /\ ~(stream.entries[Len(delivered) + 1].size <= MaxSize)
      <4>1. Len(stream.entries) \in Nat /\ stream.entries \in Seq(Header) /\ Len(delivered) \in Nat
        BY LayoutFacts, LenProperties DEF Inv, Live, Faithful, TypeOK
      <4>2. Len(delivered) + 1 \in 1..Len(stream.entries)
        BY <2>3, <4>1
      <4> QED BY <2>2, <2>3, <2>4, <4>1, <4>2, SizesAreNatural, LenProperties
    <3>2. ~stream.intact
      BY <3>1, UndamagedAreLaidOut DEF Inv, Live, Faithful
    <3>3. ppc' = "deposit" /\ verdict' = "err"
      BY <1>7, <2>2, <2>4, SizesAreNatural DEF ReadLength, Fail
    <3> QED BY <1>1, <1>5, <3>2, <3>3, Fails DEF Justified, Tracked, Tokens
  <2>5. CASE Word.size <= MaxSize
    <3>1. /\ pos' = pos + 1 /\ ppc' = "send" /\ left' = Word.size /\ padded' = Word.padded
          /\ hdr' = [path |-> Top.path, type |-> "regular", size |-> Word.size, at |-> pos + 1]
      BY <1>7, <2>2, <2>5, SizesAreNatural DEF ReadLength, Goto
    <3>2. pos + 1 + Word.size \in Nat \ {0}
      BY <1>1, <2>2
    <3>3. At(pos + 1 + Word.size, after, Len(delivered) + 1)
      BY <1>2, <2>1, <3>2, StandsThere DEF Live, Faithful
    <3>4. BehindHeader(Len(delivered) + 1)'
      BY <1>5, <3>1, <3>3 DEF BehindHeader, AtEndOfData, At, consumer
    <3> QED BY <1>1, <1>5, <2>3, <3>1, <3>4, SendTrack
  <2> QED BY <2>2, <2>4, <2>5, SizesAreNatural
<1> QED BY <1>6, <1>7

LEMMA SkipContentsTrack ==
  ASSUME Inv, Live, Tracked, SkipContents
  PROVE  Tracked'
<1> DEFINE after == IF padded THEN "padding" ELSE "close"
           L == Len(stream.layout)
           W == Len(stream.words)
<1>1. /\ ppc = "skip" /\ ppc \in ReadingLabels /\ "padding" \in ReadingLabels
      /\ pos \in Nat \ {0} /\ left \in Nat /\ L \in Nat /\ W \in Nat
  BY LayoutFacts DEF SkipContents, ReadingLabels, Inv, TypeOK, Live, Faithful
<1>2. At(pos + left, after, Len(delivered))
  BY <1>1 DEF Tracked, OnCourse, AtEndOfData
<1>3. UNCHANGED <<stream, padded, stack, channels, consumer>>
  BY DEF SkipContents
<1>4. pos + left \in 1..L
  BY <1>2 DEF At
<1>5. CASE Skipped < left
  <2>1. pos + left > W
    BY <1>1, <1>5 DEF Skipped, Remaining
  <2>2. ~stream.intact /\ stream.end = "err"
    BY <1>1, <1>4, <2>1, Reading DEF Live, Faithful
  <2>3. ppc' = "deposit" /\ verdict' = "err"
    BY <1>5, <2>2 DEF SkipContents, Fail
  <2> QED BY <1>1, <1>3, <2>2, <2>3, Fails DEF Justified, Tracked, Tokens
<1>6. CASE ~(Skipped < left)
  <2>1. Skipped = left
    BY <1>1, <1>6, SkippedType DEF Inv
  <2>2. pos' = pos + left /\ left' = 0 /\ ppc' = "padding"
    BY <1>1, <1>6, <2>1 DEF SkipContents, Goto
  <2>3. pos' + left' = pos + left
    BY <1>1, <2>2
  <2>4. AtEndOfData(Len(delivered))'
    BY <1>2, <1>3, <2>3 DEF AtEndOfData, At, consumer
  <2>5. errors' = "none" /\ Prefix' /\ Tokens'
    BY <1>1, <1>3 DEF Inv, Handshake, LastLabels, channels, consumer, Tracked, Prefix, Tokens
  <2> QED BY <2>2, <2>4, <2>5 DEF Tracked, OnCourse
<1> QED BY <1>5, <1>6

LEMMA ReadPaddingTrack ==
  ASSUME Inv, Live, Tracked, ReadPadding
  PROVE  Tracked'
<1>1. /\ ppc = "padding" /\ ppc \in ReadingLabels
      /\ "close" \in ReadingLabels \ {"skip", "padding", "entryNode"}
      /\ pos \in Nat \ {0} /\ padded \in BOOLEAN
  BY DEF ReadPadding, ReadingLabels, Inv, TypeOK
<1>2. At(pos, IF padded THEN "padding" ELSE "close", Len(delivered))
  BY <1>1 DEF Tracked, OnCourse, AtEndOfData
<1>3. UNCHANGED <<stream, stack, channels, consumer>> /\ Tokens'
  BY DEF ReadPadding, Tracked, Tokens
<1>4. CASE ~padded
  <2>1. ppc' = "close" /\ pos' = pos
    BY <1>4 DEF ReadPadding, Goto
  <2>2. At(pos, ppc, Len(delivered))'
    BY <1>2, <1>3, <1>4, <2>1 DEF At, consumer
  <2> QED BY <1>1, <1>3, <2>1, <2>2, GoesOn
<1>5. CASE padded
  <2>1. At(pos, "padding", Len(delivered))
    BY <1>2, <1>5
  <2>2. CASE EndReached
    <3>1. ~stream.intact /\ ReadFailure = "err"
      BY <2>1, <2>2, Reading DEF At, Live, Faithful, Inv, TypeOK
    <3>2. ppc' = "deposit" /\ verdict' = "err"
      BY <1>5, <2>2, <3>1 DEF ReadPadding, Fail
    <3> QED BY <1>1, <1>3, <3>1, <3>2, Fails DEF Justified
  <2>3. CASE ~EndReached
    <3>1. FileWords(stream, pos)
      BY <2>1, <2>3, Reading DEF At, Live, Faithful, Inv, TypeOK
    <3>2. /\ Word.tok = Padding
          /\ Stands(stream, pos + 1, "close", stream.layout[pos].within, Len(delivered))
      BY <2>1, <3>1 DEF At, FileWords, Word
    <3>3. ppc' = "close" /\ pos' = pos + 1
      BY <1>5, <2>3, <3>2 DEF ReadPadding, Goto
    <3>4. At(pos + 1, "close", Len(delivered))
      BY <1>1, <2>1, <3>2, StandsThere DEF Live, Faithful
    <3>5. At(pos, ppc, Len(delivered))'
      BY <1>3, <3>3, <3>4 DEF At, consumer
    <3> QED BY <1>1, <1>3, <3>3, <3>5, GoesOn
  <2> QED BY <2>2, <2>3
<1> QED BY <1>1, <1>4, <1>5

\* What the parser says in the end is what the consumer will hear.
LEMMA EndTrack ==
  ASSUME Inv, Live, Tracked, Deposit \/ CloseHeaders \/ CloseErrors
  PROVE  Tracked'
<1>1. CASE Deposit
  BY <1>1 DEF Deposit, Goto, Tracked, OnCourse, Prefix, Tokens, Justified, ReadingLabels, input, consumer
<1>2. CASE CloseHeaders
  BY <1>2 DEF CloseHeaders, Goto, Tracked, OnCourse, Prefix, Tokens, Justified, ReadingLabels, input, consumer
<1>3. CASE CloseErrors
  BY <1>3 DEF CloseErrors, Goto, Tracked, OnCourse, Prefix, Tokens, Justified, ReadingLabels, input, consumer
<1> QED BY <1>1, <1>2, <1>3

\* Whatever the parser does, it takes the reader out of no state but these.
LEMMA ParserTrack ==
  ASSUME Inv, Sequel, Steady, Tracked, ParserStep
  PROVE  Tracked'
<1>1. UNCHANGED <<stream, consumer>>
  BY DEF ParserStep, ExpectString, ExpectNode, ExpectEntryClose, ReadType, ReadBody, ReadPlaceholder,
     ReadLength, ReadTarget, SkipContents, ReadPadding, ReadClose, ReadEntryToken, ReadName, ExitUnused,
     AbandonNode, Deposit, CloseHeaders, CloseErrors, input
<1>2. CASE ~Live
  BY <1>1, <1>2 DEF Tracked, Live, Faithful, consumer
<1>3. CASE Live
  <2>1. ~ExitUnused /\ ~AbandonNode
    BY <1>3 DEF Live, Faithful, ExitUnused, AbandonNode
  <2> QED BY <1>3, <2>1, ExpectStringTrack, ExpectNodeTrack, ExpectEntryCloseTrack, ReadTypeTrack,
       ReadBodyTrack, ReadPlaceholderTrack, ReadLengthTrack, ReadTargetTrack, SkipContentsTrack,
       ReadPaddingTrack, ReadCloseTrack, ReadEntryTokenTrack, ReadNameTrack, EndTrack DEF ParserStep
<1> QED BY <1>2, <1>3

----------------------------------------------------------------------------
(***************************************************************************)
(* The consumer's steps.                                                   *)
(***************************************************************************)
LEMMA NewReaderTrack ==
  ASSUME Inv, Tracked, NewReader
  PROVE  Tracked'
<1>1. UNCHANGED <<stream, left, stack, errors, closed, err, delivered>> /\ ppc = "new"
  BY DEF NewReader, content, parser, channels, Inv, Handshake
<1>2. Live' => Live /\ pos = 1 /\ left = 0
  BY <1>1 DEF Live, Faithful, Tracked, OnCourse
<1>3. CASE ppc' = "new"
  BY <1>1, <1>2, <1>3 DEF NewReader, Tracked, OnCourse, Prefix, Tokens, Justified, ReadingLabels, Live,
     Faithful
<1>4. CASE ppc' # "new"
  <2>1. ppc' = "start" /\ pos' = pos + 1 /\ ~EndReached
    BY <1>1, <1>4 DEF NewReader, Readable
  <2> SUFFICES ASSUME Live' PROVE Prefix' /\ Tokens' /\ OnCourse'
    BY DEF Tracked
  <2>2. Live /\ pos = 1 /\ pos' = 2 /\ left' = 0
    BY <1>1, <1>2, <2>1
  <2>3. Stands(stream, 1, "magic", << >>, 0) /\ 1 \in 1..Len(stream.layout)
    BY <2>2, LayoutFacts DEF Live, Faithful, Inv
  <2>4. NodeWords(stream, 1)
    BY <2>1, <2>2, <2>3, Reading DEF Live, Faithful
  <2>5. Stands(stream, 2, "open", <<Root>>, 0)
    BY <2>3, <2>4 DEF NodeWords, Stands
  <2>6. errors = "none"
    BY <1>1 DEF Inv, Handshake, LastLabels
  <2> QED BY <1>1, <2>1, <2>2, <2>5, <2>6 DEF Tracked, OnCourse, Prefix, Tokens, ReadingLabels
<1> QED BY <1>3, <1>4

LEMMA ResumeTrack ==
  ASSUME Inv, Steady, Placed, Tracked, Resume
  PROVE  Tracked'
<1>1. UNCHANGED <<stream, pos, left, padded, hdr, errors, closed, err, delivered>>
  BY DEF Resume, input, content, channels
<1> SUFFICES ASSUME Live' PROVE Prefix' /\ Tokens' /\ OnCourse'
  BY DEF Tracked
<1>2. Live /\ Prefix' /\ errors = "none" /\ ppc \in {"start", "wait"}
  BY <1>1 DEF Live, Faithful, Tracked, Prefix, Resume, Inv, Handshake, LastLabels
<1>3. CASE ppc = "start"
  <2>1. ppc' = "open" /\ stack' = <<[path |-> Root, token |-> "directory"]>>
    BY <1>3 DEF Resume
  <2>2. Len(stack') = 1 /\ stack'[1].path = Root /\ stack'[1].token = "directory"
    BY <2>1
  <2>3. pos = 2 /\ Stands(stream, 2, "open", <<Root>>, 0) /\ delivered = << >>
    BY <1>2, <1>3 DEF Tracked, OnCourse, Placed
  <2>4. 2 \in 1..Len(stream.layout) /\ Len(<<Root>>) = 1 /\ <<Root>>[1] = Root /\ Len(delivered) = 0
    BY <1>2, <2>3, LayoutFacts DEF Stands, Live, Faithful, Inv
  <2>5. At(pos, ppc, Len(delivered))'
    BY <1>1, <2>1, <2>2, <2>3, <2>4 DEF At, Stands
  <2>6. Tokens'
    BY <2>2 DEF Tokens
  <2> QED BY <1>1, <1>2, <2>1, <2>5, <2>6 DEF OnCourse, ReadingLabels
<1>4. CASE ppc = "wait"
  <2>1. ppc' = AfterHeader /\ stack' = stack
    BY <1>4 DEF Resume
  <2>2. BehindHeader(Len(delivered)) /\ Tokens'
    BY <1>2, <1>4, <2>1 DEF Tracked, OnCourse, Tokens
  <2>3. hdr.type \in HeaderTypes
    BY DEF Inv, TypeOK, Header
  <2>4. /\ hdr.type = "regular" => ppc' = "skip"
        /\ hdr.type = "symlink" => ppc' = "close"
        /\ hdr.type = "directory" => ppc' = "loop"
    BY <2>1, <2>3 DEF AfterHeader, HeaderTypes
  <2>5. CASE hdr.type = "regular"
    <3>1. AtEndOfData(Len(delivered))'
      BY <1>1, <2>1, <2>2, <2>5 DEF BehindHeader, AtEndOfData, At
    <3> QED BY <1>1, <1>2, <2>2, <2>4, <2>5, <3>1 DEF OnCourse
  <2>6. CASE hdr.type = "symlink"
    <3>1. At(pos, ppc, Len(delivered))'
      BY <1>1, <2>1, <2>2, <2>4, <2>6 DEF BehindHeader, At
    <3> QED BY <1>1, <1>2, <2>2, <2>4, <2>6, <3>1 DEF OnCourse
  <2>7. CASE hdr.type = "directory"
    <3>1. At(pos, ppc, Len(delivered))'
      BY <1>1, <2>1, <2>2, <2>4, <2>7 DEF BehindHeader, At
    <3> QED BY <1>1, <1>2, <2>2, <2>4, <2>7, <3>1 DEF OnCourse
  <2> QED BY <2>3, <2>5, <2>6, <2>7 DEF HeaderTypes
<1> QED BY <1>2, <1>3, <1>4

LEMMA TakeHeaderTrack ==
  ASSUME Inv, Tracked, TakeHeader
  PROVE  Tracked'
<1>1. /\ UNCHANGED <<stream, pos, left, padded, hdr, errors, closed, stack>>
      /\ ppc = "send" /\ ppc' = "wait"
  BY DEF TakeHeader, input, content, channels, parser
<1> SUFFICES ASSUME Live' PROVE Prefix' /\ Tokens' /\ OnCourse'
  BY DEF Tracked
<1>2. /\ delivered' = Append(delivered, hdr) /\ err' = err
  BY DEF TakeHeader, Live, Faithful
<1>3. Live /\ errors = "none"
  BY <1>1, <1>2 DEF Live, Faithful, Inv, Handshake, LastLabels
<1>4. /\ Len(delivered) < Len(stream.entries) /\ hdr = stream.entries[Len(delivered) + 1]
      /\ BehindHeader(Len(delivered) + 1) /\ Prefix /\ Tokens
  BY <1>1, <1>3 DEF Tracked, OnCourse
<1>5. /\ delivered \in Seq(Header) /\ hdr \in Header /\ Len(delivered) \in Nat
      /\ Len(stream.entries) \in Nat
  BY <1>3, LayoutFacts, LenProperties DEF Inv, TypeOK, Live, Faithful
<1>6. /\ Len(delivered') = Len(delivered) + 1 /\ delivered'[Len(delivered) + 1] = hdr
      /\ \A i \in 1..Len(delivered) : delivered'[i] = delivered[i]
  BY <1>2, <1>5, AppendProperties
<1>7. Prefix'
  BY <1>1, <1>4, <1>5, <1>6 DEF Prefix
<1>8. BehindHeader(Len(delivered))'
  BY <1>1, <1>4, <1>6 DEF BehindHeader, AtEndOfData, At
<1> QED BY <1>1, <1>3, <1>4, <1>7, <1>8 DEF OnCourse, Tokens, ReadingLabels

LEMMA ReadTrack ==
  ASSUME Inv, Placed, Tracked, Read
  PROVE  Tracked'
<1>1. /\ UNCHANGED <<stream, padded, ppc, stack, hdr, verdict, errors, err, closed, delivered>>
      /\ pos' = pos + 1 /\ left' = left - 1 /\ left > 0
  BY DEF Read, parser, channels, consumer
<1>2. ppc \in {"start", "wait"} \cup LastLabels
  BY DEF Read, Inv, Handshake
<1> SUFFICES ASSUME Live' PROVE Prefix' /\ Tokens' /\ OnCourse'
  BY DEF Tracked
<1>3. Live /\ ppc \in {"start", "wait"}
  BY <1>1, <1>2 DEF Live, Faithful, Read, Inv, Handshake
<1>4. pos' + left' = pos + left
  BY <1>1 DEF Inv, TypeOK
<1>5. CASE ppc = "wait"
  <2>1. hdr.type = "regular" /\ AtEndOfData(Len(delivered))
    BY <1>1, <1>3, <1>5 DEF Placed, HoldsContentOf, Tracked, OnCourse, BehindHeader, Inv, TypeOK
  <2>2. BehindHeader(Len(delivered))'
    BY <1>1, <1>4, <2>1 DEF BehindHeader, AtEndOfData, At
  <2> QED BY <1>1, <1>3, <1>5, <2>2 DEF Tracked, OnCourse, Prefix, Tokens, ReadingLabels, Justified
<1>6. CASE ppc = "start"
  BY <1>1, <1>3, <1>6 DEF Tracked, OnCourse
<1> QED BY <1>3, <1>5, <1>6

\* Only the label of the consumer changes, if anything does.
LEMMA SameTrack ==
  ASSUME Tracked, UNCHANGED <<stream, pos, left, padded, ppc, stack, hdr, verdict, errors, closed, err,
                              delivered>>
  PROVE  Tracked'
<1>1. \A i, part, shown : At(i, part, shown) => At(i, part, shown)'
  BY DEF At
<1>2. BehindHeader(Len(delivered)) => BehindHeader(Len(delivered))'
  BY <1>1 DEF BehindHeader, AtEndOfData
<1>3. BehindHeader(Len(delivered) + 1) => BehindHeader(Len(delivered) + 1)'
  BY <1>1 DEF BehindHeader, AtEndOfData
<1>4. \A v : Justified(v) => Justified(v)'
  BY DEF Justified
<1>5. OnCourse => OnCourse'
  BY <1>1, <1>2, <1>3, <1>4 DEF OnCourse, AtEndOfData, Top
<1> QED BY <1>5 DEF Tracked, Live, Faithful, Prefix, Tokens

LEMMA TrackedNext == Inv /\ Sequel /\ Placed /\ Steady /\ Tracked /\ [Next]_vars => Tracked'
<1> SUFFICES ASSUME Inv, Sequel, Placed, Steady, Tracked, [Next]_vars PROVE Tracked'
  OBVIOUS
<1>1. CASE UNCHANGED vars
  BY <1>1, SameTrack DEF vars, input, content, parser, channels, consumer
<1>2. CASE ParserStep
  BY <1>2, ParserTrack
<1>3. CASE CallNext \/ SeeHeadersClosed
  BY <1>3, SameTrack DEF CallNext, SeeHeadersClosed, input, content, parser, channels
<1>4. CASE ReceiveError \/ Close
  <2>1. ~Live'
    BY <1>4 DEF ReceiveError, Close, Live, Faithful, Inv, TypeOK
  <2> QED BY <2>1 DEF Tracked
<1> QED BY <1>1, <1>2, <1>3, <1>4, NewReaderTrack, ResumeTrack, TakeHeaderTrack, ReadTrack
     DEF Next, ConsumerStep, InNext, Finished

LEMMA SteadyNext == Inv /\ Steady /\ [Next]_vars => Steady'
<1> SUFFICES ASSUME Inv, Steady, [Next]_vars PROVE Steady'
  OBVIOUS
<1>1. CASE UNCHANGED <<hdr, consumer>>
  BY <1>1 DEF Steady, consumer
<1>2. CASE ReadType
  <2>1. hdr' = hdr \/ hdr'.size = 0
    BY <1>2 DEF ReadType
  <2> QED BY <1>2, <2>1, SizesAreNatural DEF ReadType, Steady, consumer
<1>3. CASE ReadLength
  <2>1. hdr' = hdr \/ hdr'.size <= MaxSize
    BY <1>3 DEF ReadLength
  <2> QED BY <1>3, <2>1 DEF ReadLength, Steady, consumer
<1>4. CASE ReadTarget
  <2>1. hdr' = hdr \/ hdr'.size = 0
    BY <1>4 DEF ReadTarget
  <2> QED BY <1>4, <2>1, SizesAreNatural DEF ReadTarget, Steady, consumer
<1>5. CASE NewReader \/ CallNext \/ Resume \/ SeeHeadersClosed \/ ReceiveError \/ Close
  BY <1>5 DEF NewReader, CallNext, Resume, SeeHeadersClosed, ReceiveError, Close, Steady, parser
<1>6. CASE TakeHeader
  <2>1. delivered \in Seq(Header) /\ hdr \in Header /\ Len(delivered) \in Nat
    BY LenProperties DEF Inv, TypeOK
  <2>2. cpc' = "idle" /\ hdr' = hdr
    BY <1>6 DEF TakeHeader, parser
  <2>3. CASE Accepts(hdr)
    <3>1. /\ Append(delivered, hdr) # << >> /\ Len(Append(delivered, hdr)) = Len(delivered) + 1
          /\ Append(delivered, hdr)[Len(delivered) + 1] = hdr
          /\ \A i \in 1..Len(delivered) : Append(delivered, hdr)[i] = delivered[i]
      BY <2>1, AppendProperties
    <3>2. delivered' = Append(delivered, hdr) /\ previous' = hdr.path
      BY <1>6, <2>3 DEF TakeHeader
    <3> QED BY <2>1, <2>2, <3>1, <3>2 DEF Steady
  <2>4. CASE ~Accepts(hdr)
    BY <1>6, <2>2, <2>4 DEF TakeHeader, Steady
  <2> QED BY <2>3, <2>4
<1> QED
  BY <1>1, <1>2, <1>3, <1>4, <1>5, <1>6 DEF Next, ParserStep, ConsumerStep, InNext, Finished, vars,
     parser, ExpectString, ExpectNode, ExpectEntryClose, ReadBody, ReadPlaceholder, SkipContents,
     ReadPadding, ReadClose, ReadEntryToken, ReadName, ExitUnused, AbandonNode, Deposit,
     CloseHeaders, CloseErrors, Read


----------------------------------------------------------------------------
(***************************************************************************)
(* The invariants the refinement rests on, together.                       *)
(***************************************************************************)
Course == Inv /\ Sequel /\ Placed /\ Steady /\ Tracked

LEMMA InitCourse == Init => Course
<1> SUFFICES ASSUME Init PROVE Course
  OBVIOUS
<1>1. Inv
  BY InitInv
<1>2. Sequel /\ Placed /\ Steady
  BY SizesAreNatural DEF Init, Sequel, HeadersInOrder, Placed, Steady, NoHeader
<1>3. Tracked
  <2> SUFFICES ASSUME Live PROVE Prefix /\ Tokens /\ OnCourse
    BY DEF Tracked
  <2>1. Len(stream.entries) \in Nat
    BY <1>1, LayoutFacts DEF Inv, Live, Faithful
  <2>2. Prefix /\ Tokens
    BY <2>1 DEF Init, Prefix, Tokens
  <2>3. OnCourse
    BY DEF Init, OnCourse, ReadingLabels
  <2> QED BY <2>2, <2>3
<1> QED BY <1>1, <1>2, <1>3 DEF Course

LEMMA CourseNext == Course /\ [Next]_vars => Course'
BY NextInv, SequelNext, PlacedNext, SteadyNext, TrackedNext DEF Course

\* The mapping: what the archive, the headers and the outcome are to the consumer.
Outcome == IF closed THEN "closed" ELSE IF cpc = "failed" THEN "err" ELSE err

LEMMA SameOrder == \A p, q : Iterator!Ordered(p, q) <=> Ordered(p, q)
BY DEF Iterator!Ordered, Iterator!StartsWith, Iterator!AgreeUpTo, Ordered, StartsWith, AgreeUpTo

\* The header taken is the next one of the archive; one that is not accepted is out of order.
LEMMA TakeHeaderMaps ==
  ASSUME Course, TakeHeader, Faithful
  PROVE  Iterator!Deliver \/ Iterator!Refuse
<1>1. /\ UNCHANGED <<stream, closed>> /\ ppc = "send" /\ cpc = "select" /\ cpc' = "idle"
  BY DEF TakeHeader, input
<1>2. ~closed /\ err = "none" /\ Live
  BY <1>1 DEF Course, Inv, Handshake, Steady, Live, Faithful
<1>3. /\ Len(delivered) < Len(stream.entries) /\ hdr = stream.entries[Len(delivered) + 1]
      /\ \A i \in 1..Len(delivered) : delivered[i] = stream.entries[i]
  BY <1>1, <1>2 DEF Course, Tracked, OnCourse, Prefix
<1>4. /\ delivered \in Seq(Header) /\ hdr \in Header /\ hdr.path \in Path
      /\ Len(delivered) \in Nat /\ Len(stream.entries) \in Nat
  BY <1>2, LayoutFacts, LenProperties DEF Course, Inv, TypeOK, Live, Faithful, Header
<1>5. CASE Accepts(hdr)
  <2>1. delivered' = Append(delivered, hdr) /\ err' = err
    BY <1>5 DEF TakeHeader
  <2>2. delivered # << >> => Ordered(delivered[Len(delivered)].path, hdr.path)
    BY <1>5 DEF Accepts, Course, Steady
  <2>3. Iterator!InOrder(hdr)
    BY <2>2, SameOrder DEF Iterator!InOrder
  <2> QED BY <1>1, <1>2, <1>3, <2>1, <2>3 DEF Iterator!Deliver
<1>6. CASE ~Accepts(hdr)
  <2>1. delivered' = delivered /\ err' = "err"
    BY <1>6 DEF TakeHeader
  <2>2. delivered # << >>
    BY <1>4, <1>6, StartsWithFacts DEF Accepts, Course, Steady, Ordered, Root, Path
  <2>3. Len(delivered) # 0
    BY <1>4, <2>2, EmptySeq
  <2>4. ~Ordered(delivered[Len(delivered)].path, hdr.path)
    BY <1>6, <2>2 DEF Accepts, Course, Steady
  <2>5. ~Sorted(stream.entries)
    <3>1. Len(delivered) \in 1..(Len(stream.entries) - 1) /\ Len(delivered) \in 1..Len(delivered)
      BY <1>3, <1>4, <2>3
    <3> QED BY <1>3, <2>4, <3>1 DEF Sorted
  <2>6. ~stream.intact
    BY <2>5, UndamagedAreLaidOut DEF Course, Inv, Faithful
  <2> QED BY <1>1, <1>2, <2>1, <2>6 DEF Iterator!Refuse
<1> QED BY <1>5, <1>6

\* io.EOF is the end of a sound archive, any other error is an archive to refuse.
LEMMA ReceiveErrorMaps ==
  ASSUME Course, ReceiveError, Faithful
  PROVE  Iterator!Exhaust \/ Iterator!Refuse
<1>1. UNCHANGED <<stream, closed, delivered>> /\ cpc \in {"select", "verdict"} /\ cpc' = "idle"
  BY DEF ReceiveError, input
<1>2. ~closed /\ err = "none" /\ Live
  BY <1>1 DEF Course, Inv, Handshake, Steady, Live, Faithful
<1>3. errors # "none"
  BY <1>1 DEF ReceiveError, Course, Inv, Handshake, LastLabels
<1>4. err' = errors /\ errors \in {"eof", "err"} /\ Justified(errors)
  BY <1>2, <1>3 DEF ReceiveError, Course, Inv, TypeOK, Tracked, OnCourse
<1>5. CASE errors = "eof"
  BY <1>1, <1>2, <1>4, <1>5 DEF Iterator!Exhaust, Justified
<1>6. CASE errors = "err"
  BY <1>1, <1>2, <1>4, <1>6 DEF Iterator!Refuse, Justified
<1> QED BY <1>4, <1>5, <1>6

\* NewReader itself fails on an archive that has no magic to read.
LEMMA NewReaderMaps ==
  ASSUME Course, NewReader, Faithful
  PROVE  Iterator!Refuse \/ UNCHANGED Iterator!vars
<1>1. /\ UNCHANGED <<stream, closed, err, delivered>> /\ cpc = "new" /\ ppc = "new" /\ ~closed
  BY DEF NewReader, Course, Inv, Handshake
<1>2. CASE cpc' = "idle"
  BY <1>1, <1>2 DEF Iterator!vars
<1>3. CASE cpc' = "failed"
  <2>1. Live /\ pos = 1 /\ err = "none"
    BY <1>1 DEF Steady, Live, Faithful, Course, Tracked, OnCourse
  <2>2. Stands(stream, 1, "magic", << >>, 0) /\ 1 \in 1..Len(stream.layout)
    BY LayoutFacts DEF Course, Inv, Faithful
  <2>3. ~EndReached => NodeWords(stream, 1)
    BY <2>1, <2>2, Reading DEF Course, Faithful
  <2>4. EndReached
    BY <1>3, <2>1, <2>2, <2>3 DEF NodeWords, Stands, NewReader, Readable, Word, Magic, Unreadable,
       Oversized, Padding, Dirty
  <2>5. ~stream.intact
    BY <2>1, <2>2, <2>4, Reading DEF Course, Faithful
  <2> QED BY <1>1, <1>3, <2>1, <2>5 DEF Iterator!Refuse
<1> QED BY <1>2, <1>3 DEF NewReader

LEMMA StepMaps ==
  ASSUME Course, [Next]_vars, Faithful
  PROVE  Iterator!Next \/ UNCHANGED Iterator!vars
<1>1. CASE UNCHANGED <<stream, closed, err, delivered>> /\ (cpc = "failed" <=> cpc' = "failed")
  BY <1>1 DEF Iterator!vars
<1>2. CASE NewReader
  BY <1>2, NewReaderMaps DEF Iterator!Next
<1>3. CASE TakeHeader
  BY <1>3, TakeHeaderMaps DEF Iterator!Next
<1>4. CASE ReceiveError
  BY <1>4, ReceiveErrorMaps DEF Iterator!Next
<1>5. CASE Close
  <2>1. err \in {"none", "err"} /\ cpc = "idle" /\ UNCHANGED <<stream, delivered>> /\ ~closed /\ closed'
    BY <1>5 DEF Close, Course, Inv, TypeOK, Handshake, input
  <2> QED BY <2>1 DEF Iterator!Next, Iterator!Close
<1> QED
  BY <1>1, <1>2, <1>3, <1>4, <1>5 DEF Next, ParserStep, ConsumerStep, InNext, Finished, vars, input,
     consumer, ExpectString, ExpectNode, ExpectEntryClose, ReadType, ReadBody, ReadPlaceholder,
     ReadLength, ReadTarget, SkipContents, ReadPadding, ReadClose, ReadEntryToken, ReadName, ExitUnused,
     AbandonNode, Deposit, CloseHeaders, CloseErrors, CallNext, Resume, SeeHeadersClosed, Read

(***************************************************************************)
(* The reader implements ArchiveIterator on every archive that is not      *)
(* damaged: every header of it, once and in order, io.EOF behind the last  *)
(* one and never before, an error if and only if the archive is unsorted,  *)
(* oversized or cut short (reader.go:106-310, 316-367).                    *)
(***************************************************************************)
THEOREM Refinement == Spec => IteratesArchive
<1>1. Init => Iterator!Init
  BY DEF Init, Iterator!Init
<1>2. Course /\ [Next]_vars => [Faithful => Iterator!Next]_(Iterator!vars)
  BY StepMaps
<1> QED BY <1>1, <1>2, InitCourse, CourseNext, PTL DEF Spec, IteratesArchive
=============================================================================
