----------------------------- MODULE NarReader -----------------------------
(***************************************************************************)
(* nar.Reader (src/pkg/nar/reader.go): the goroutine that parses an        *)
(* archive, the consumer that walks it with Next, Read and Close, and the  *)
(* channels they meet on.                                                  *)
(*                                                                         *)
(* The parser is a recursive function.  Its program counter is ppc, named  *)
(* for what it is about to read, and its call stack is the variable stack. *)
(* Every read of the input is a step of its own, so that a step of the     *)
(* consumer can fall between any two of them.                              *)
(*                                                                         *)
(* The input is a sequence of words, as NarFormat describes them.  Data is *)
(* opaque unless it happens to spell packets, as a NAR stored in a NAR     *)
(* does.                                                                   *)
(***************************************************************************)
EXTENDS NarFormat

CONSTANTS
  Archives,   \* the inputs: records [words, end, entries, layout, intact, damaged]
  MaxSize     \* math.MaxInt64

(***************************************************************************)
(* The fields of an input: its words; what a read at its end gives ("eof"  *)
(* for io.EOF, "err" for anything else); and, for the properties only, the *)
(* headers of the tree it was made from and the places its words then      *)
(* have, whether it is a whole, sound and sorted archive, and whether its  *)
(* words are not what was made from the tree.  An archive that is neither  *)
(* intact nor damaged is one to refuse.                                    *)
(***************************************************************************)
ASSUME SizesAreNatural == MaxSize \in Nat

ASSUME ArchivesAreStreams ==
  \A a \in Archives :
    /\ a.end \in {"eof", "err"}
    /\ a.words \in Seq(Packet)

(***************************************************************************)
(* One that is not damaged has its words where they belong, and a source   *)
(* that ends before the last of them says so.                              *)
(***************************************************************************)
ASSUME UndamagedAreLaidOut ==
  \A a \in Archives : ~a.damaged =>
    /\ LaidOut(a)
    /\ Whole(a) \/ a.end = "err"
    /\ a.intact <=> Whole(a) /\ Sorted(a.entries) /\ \A i \in DOMAIN a.entries : a.entries[i].size <= MaxSize

VARIABLES
  stream, pos,                     \* the input, and the next word of it
  left, padded,                    \* nr.contentReader: data left, padding after it
  ppc, stack, hdr, verdict,        \* the parser: label, parseNode calls, header, result
  errors,                          \* nr.errors, a channel with room for one
  headersClosed, errorsClosed,     \* whether the parser closed its channels
  cpc, closed, err, previous,      \* the consumer: label, nr.closed, nr.err, nr.previousHdrPath
  delivered                        \* history: the headers Next returned

input    == <<stream, pos>>
content  == <<left, padded>>
parser   == <<stack, hdr, verdict>>
channels == <<errors, headersClosed, errorsClosed>>
consumer == <<cpc, closed, err, previous, delivered>>
vars     == <<input, content, ppc, parser, channels, consumer>>

----------------------------------------------------------------------------
(***************************************************************************)
(* Reading a packet                                                        *)
(***************************************************************************)
EndReached == pos > Len(stream.words)
Word       == stream.words[pos]

(***************************************************************************)
(* wire.ReadString: it returns the string at pos, or fails as the input    *)
(* does.  At the end of the input that is io.EOF, and only expectString    *)
(* turns it into io.ErrUnexpectedEOF.                                      *)
(***************************************************************************)
Readable    == ~EndReached /\ Word.tok \notin Unreadable
ReadFailure == IF EndReached THEN stream.end ELSE "err"

Frame == [path : Path, token : Name \cup {"directory"}]

NoHeader == [path |-> Root, type |-> "directory", size |-> 0, at |-> 0]

Init ==
  /\ stream \in Archives
  /\ pos = 1
  /\ left = 0 /\ padded = FALSE
  /\ ppc = "new" /\ stack = << >> /\ hdr = NoHeader /\ verdict = "eof"
  /\ errors = "none" /\ headersClosed = FALSE /\ errorsClosed = FALSE
  /\ cpc = "new" /\ closed = FALSE /\ err = "none" /\ previous = Root
  /\ delivered = << >>

(***************************************************************************)
(* NewReader: read the magic, make the channels, start the parser.         *)
(***************************************************************************)
NewReader ==
  /\ cpc = "new"
  /\ IF Readable /\ Word.tok = Magic
       THEN cpc' = "idle" /\ ppc' = "start" /\ pos' = pos + 1
       ELSE cpc' = "failed" /\ UNCHANGED <<ppc, pos>>
  /\ UNCHANGED <<stream, content, parser, channels, closed, err, previous, delivered>>

----------------------------------------------------------------------------
(***************************************************************************)
(* The parser                                                              *)
(***************************************************************************)
Top == stack[Len(stack)]

Goto(label) == ppc' = label /\ UNCHANGED verdict

\* Mutant: a parse error ends the goroutine without a word.
FailSilently(e) == ppc' = "done" /\ verdict' = e

Fail(e) == ppc' = "deposit" /\ verdict' = e

(***************************************************************************)
(* parseNode returns nil.  The caller goes on behind the node it asked     *)
(* for; the outermost call ends the parse, which counts as io.EOF.         *)
(***************************************************************************)
Return ==
  /\ stack' = SubSeq(stack, 1, Len(stack) - 1)
  /\ IF Len(stack) = 1 THEN Fail("eof") ELSE Goto("entryClose")

(***************************************************************************)
(* expectString: the labels it is called at and the string it wants there. *)
(***************************************************************************)
Expected ==
  [open |-> "(", type |-> "type", target |-> "target", entryOpen |-> "(",
   entryName |-> "name", entryNode |-> "node", entryClose |-> ")"]

Following ==
  [open |-> "type", type |-> "label", target |-> "linkTarget",
   entryOpen |-> "entryName", entryName |-> "name"]

ExpectString ==
  /\ ppc \in DOMAIN Following
  /\ IF Readable /\ Word.tok = Expected[ppc]
       THEN Goto(Following[ppc]) /\ pos' = pos + 1
       ELSE Fail("err") /\ UNCHANGED pos
  /\ UNCHANGED <<stream, content, stack, hdr, channels, consumer>>

\* Mutant: an entry's path is its name alone, whatever directory it is in.
ExpectNodeUnrooted ==
  /\ ppc = "entryNode"
  /\ IF Readable /\ Word.tok = Expected[ppc]
       THEN /\ stack' = Append(stack, [path |-> Join(Root, Top.token), token |-> "directory"])
            /\ Goto("open")
            /\ pos' = pos + 1
       ELSE Fail("err") /\ UNCHANGED <<stack, pos>>
  /\ UNCHANGED <<stream, content, hdr, channels, consumer>>

(***************************************************************************)
(* The node of an entry: parseNode calls itself, with the path of the      *)
(* directory joined with the name just read.                               *)
(***************************************************************************)
ExpectNode ==
  /\ ppc = "entryNode"
  /\ IF Readable /\ Word.tok = Expected[ppc]
       THEN /\ stack' = Append(stack, [path |-> Join(Top.path, Top.token), token |-> "directory"])
            /\ Goto("open")
            /\ pos' = pos + 1
       ELSE Fail("err") /\ UNCHANGED <<stack, pos>>
  /\ UNCHANGED <<stream, content, hdr, channels, consumer>>

(***************************************************************************)
(* The ")" behind an entry's node.  The test that ends the directory loop  *)
(* follows, and looks at the variable that held the entry's name.          *)
(***************************************************************************)
EndsDirectory == Top.token = ")"

ExpectEntryClose ==
  /\ ppc = "entryClose"
  /\ IF Readable /\ Word.tok = Expected[ppc]
       THEN /\ IF EndsDirectory THEN Return ELSE Goto("loop") /\ UNCHANGED stack
            /\ pos' = pos + 1
       ELSE Fail("err") /\ UNCHANGED <<stack, pos>>
  /\ UNCHANGED <<stream, content, hdr, channels, consumer>>

(***************************************************************************)
(* The label of the node.  One that is no type is judged by the test for   *)
(* the closing ")" that ends parseNode, and so ")" passes.                 *)
(***************************************************************************)
ReadType ==
  /\ ppc = "label"
  /\ \/ /\ ~Readable
        /\ Fail(ReadFailure) /\ UNCHANGED <<pos, left, padded, stack, hdr>>
     \/ /\ Readable /\ pos' = pos + 1
        /\ \/ /\ Word.tok = "regular"
              /\ Goto("body") /\ UNCHANGED <<left, padded, stack, hdr>>
           \/ /\ Word.tok = "symlink"
              /\ Goto("target") /\ UNCHANGED <<left, padded, stack, hdr>>
           \/ /\ Word.tok = "directory"
              /\ left' = 0 /\ padded' = FALSE
              /\ hdr' = [path |-> Top.path, type |-> "directory", size |-> 0, at |-> 0]
              /\ Goto("send") /\ UNCHANGED stack
           \/ /\ Word.tok = ")"
              /\ Return /\ UNCHANGED <<left, padded, hdr>>
           \/ /\ Word.tok \notin HeaderTypes \cup {")"}
              /\ Fail("err") /\ UNCHANGED <<left, padded, stack, hdr>>
  /\ UNCHANGED <<stream, channels, consumer>>

(***************************************************************************)
(* "executable", which may be left out, and its empty placeholder; then    *)
(* "contents".                                                             *)
(***************************************************************************)
ReadBody ==
  /\ ppc \in {"body", "contents"}
  /\ \/ ~Readable /\ Fail(ReadFailure) /\ UNCHANGED pos
     \/ /\ Readable /\ pos' = pos + 1
        /\ CASE ppc = "body" /\ Word.tok = "executable" -> Goto("placeholder")
             [] Word.tok = "contents" -> Goto("length")
             [] OTHER -> Fail("err")
  /\ UNCHANGED <<stream, content, stack, hdr, channels, consumer>>

ReadPlaceholder ==
  /\ ppc = "placeholder"
  /\ IF Readable /\ Word.tok = ""
       THEN Goto("contents") /\ pos' = pos + 1
       ELSE Fail("err") /\ UNCHANGED pos
  /\ UNCHANGED <<stream, content, stack, hdr, channels, consumer>>

(***************************************************************************)
(* wire.ReadBytes: the length of the contents and a reader limited to it.  *)
(***************************************************************************)
ReadLength ==
  /\ ppc = "length"
  /\ \/ EndReached /\ Fail(ReadFailure) /\ UNCHANGED <<pos, left, padded, hdr>>
     \/ /\ ~EndReached /\ Word.size > MaxSize
        /\ Fail("err") /\ pos' = pos + 1 /\ UNCHANGED <<left, padded, hdr>>
     \/ /\ ~EndReached /\ Word.size <= MaxSize
        /\ pos' = pos + 1
        /\ left' = Word.size /\ padded' = Word.padded
        /\ hdr' = [path |-> Top.path, type |-> "regular", size |-> Word.size, at |-> pos + 1]
        /\ Goto("send")
  /\ UNCHANGED <<stream, stack, channels, consumer>>

ReadTarget ==
  /\ ppc = "linkTarget"
  /\ \/ ~Readable /\ Fail(ReadFailure) /\ UNCHANGED <<pos, left, padded, hdr>>
     \/ /\ Readable /\ pos' = pos + 1
        /\ left' = 0 /\ padded' = FALSE
        /\ hdr' = [path |-> Top.path, type |-> "symlink", size |-> 0, at |-> pos]
        /\ Goto("send")
  /\ UNCHANGED <<stream, stack, channels, consumer>>

(***************************************************************************)
(* BytesReader.Close: skip what the consumer left of the contents, then    *)
(* check the padding.  Running out of input while skipping is no error     *)
(* when the input ends with io.EOF: the limited reader ends the same way.  *)
(***************************************************************************)
Remaining == Len(stream.words) + 1 - pos
\* Mutant: Close drains the input, not the reader limited to the contents.
SkippedAll == Remaining

Skipped   == IF left <= Remaining THEN left ELSE IF pos <= Len(stream.words) THEN Remaining ELSE 0

SkipContents ==
  /\ ppc = "skip"
  /\ pos' = pos + Skipped
  /\ left' = left - Skipped
  /\ IF Skipped < left /\ stream.end # "eof" THEN Fail(stream.end) ELSE Goto("padding")
  /\ UNCHANGED <<stream, padded, stack, hdr, channels, consumer>>

ReadPadding ==
  /\ ppc = "padding"
  /\ \/ ~padded /\ Goto("close") /\ UNCHANGED pos
     \/ /\ padded
        /\ IF ~EndReached /\ Word.tok = Padding
             THEN Goto("close") /\ pos' = pos + 1
             ELSE Fail(ReadFailure) /\ UNCHANGED pos
  /\ UNCHANGED <<stream, content, stack, hdr, channels, consumer>>

(***************************************************************************)
(* The token behind a file or a symlink, which has to be ")".              *)
(***************************************************************************)
ReadClose ==
  /\ ppc = "close"
  /\ \/ ~Readable /\ Fail(ReadFailure) /\ UNCHANGED <<pos, stack>>
     \/ /\ Readable /\ pos' = pos + 1
        /\ IF Word.tok = ")" THEN Return ELSE Fail("err") /\ UNCHANGED stack
  /\ UNCHANGED <<stream, content, hdr, channels, consumer>>

(***************************************************************************)
(* The head of the directory loop.  A token that is neither "entry" nor    *)
(* ")" is passed over.                                                     *)
(***************************************************************************)
ReadEntryToken ==
  /\ ppc = "loop"
  /\ \/ ~Readable /\ Fail(ReadFailure) /\ UNCHANGED <<pos, stack>>
     \/ /\ Readable /\ pos' = pos + 1
        /\ CASE Word.tok = "entry" -> Goto("entryOpen") /\ UNCHANGED stack
             [] Word.tok = ")"     -> Return
             [] OTHER              -> Goto("loop") /\ UNCHANGED stack
  /\ UNCHANGED <<stream, content, hdr, channels, consumer>>

ReadName ==
  /\ ppc = "name"
  /\ \/ ~Readable /\ Fail(ReadFailure) /\ UNCHANGED <<pos, stack>>
     \/ /\ Readable /\ pos' = pos + 1
        /\ IF Word.tok \in Name
             THEN /\ stack' = [stack EXCEPT ![Len(stack)].token = Word.tok]
                  /\ Goto("entryNode")
             ELSE Fail("err") /\ UNCHANGED stack
  /\ UNCHANGED <<stream, content, hdr, channels, consumer>>

(***************************************************************************)
(* The parser finds nr.next closed.  Before the first node it just exits;  *)
(* at a node it returns nil from that node's parseNode, and from no other. *)
(***************************************************************************)
ExitUnused ==
  /\ ppc = "start" /\ closed
  /\ Goto("done")
  /\ UNCHANGED <<input, content, stack, hdr, channels, consumer>>

AbandonNode ==
  /\ ppc = "wait" /\ closed
  /\ Return
  /\ UNCHANGED <<input, content, hdr, channels, consumer>>

\* Mutant: io.EOF is not put into nr.errors, the closed channel speaks for it.
DepositErrorsOnly ==
  /\ ppc = "deposit" /\ errors = "none"
  /\ errors' = IF verdict = "eof" THEN "none" ELSE verdict
  /\ Goto("closeHeaders")
  /\ UNCHANGED <<input, content, stack, hdr, headersClosed, errorsClosed, consumer>>

\* Mutant: nr.errors has no buffer, so that a send on it waits for Next.
DepositUnbuffered ==
  /\ ppc = "deposit" /\ errors = "none" /\ cpc = "select"
  /\ errors' = verdict
  /\ Goto("closeHeaders")
  /\ UNCHANGED <<input, content, stack, hdr, headersClosed, errorsClosed, consumer>>

Deposit ==
  /\ ppc = "deposit" /\ errors = "none"
  /\ errors' = verdict
  /\ Goto("closeHeaders")
  /\ UNCHANGED <<input, content, stack, hdr, headersClosed, errorsClosed, consumer>>

CloseHeaders ==
  /\ ppc = "closeHeaders"
  /\ headersClosed' = TRUE
  /\ Goto("closeErrors")
  /\ UNCHANGED <<input, content, stack, hdr, errors, errorsClosed, consumer>>

CloseErrors ==
  /\ ppc = "closeErrors"
  /\ errorsClosed' = TRUE
  /\ Goto("done")
  /\ UNCHANGED <<input, content, stack, hdr, errors, headersClosed, consumer>>

ParserStep ==
  \/ ExpectString \/ ExpectNode \/ ExpectEntryClose
  \/ ReadType \/ ReadBody \/ ReadPlaceholder \/ ReadLength \/ ReadTarget
  \/ SkipContents \/ ReadPadding \/ ReadClose \/ ReadEntryToken \/ ReadName
  \/ ExitUnused \/ AbandonNode \/ Deposit \/ CloseHeaders \/ CloseErrors

----------------------------------------------------------------------------
(***************************************************************************)
(* The consumer.  It calls one method at a time and neither Next nor Read  *)
(* after Close, as its callers in src/ do.                                 *)
(***************************************************************************)
CallNext ==
  /\ cpc = "idle" /\ ~closed /\ err = "none"
  /\ cpc' = "resume"
  /\ UNCHANGED <<input, content, ppc, parser, channels, closed, err, previous, delivered>>

(***************************************************************************)
(* "nr.next <- true" meets "<-nr.next" of the parser.                      *)
(***************************************************************************)
AfterHeader ==
  CASE hdr.type = "regular"   -> "skip"
    [] hdr.type = "symlink"   -> "close"
    [] hdr.type = "directory" -> "loop"

Resume ==
  /\ cpc = "resume" /\ ppc \in {"start", "wait"}
  /\ cpc' = "select"
  /\ IF ppc = "start"
       THEN ppc' = "open" /\ stack' = <<[path |-> Root, token |-> "directory"]>>
       ELSE ppc' = AfterHeader /\ UNCHANGED stack
  /\ UNCHANGED <<input, content, hdr, verdict, channels, closed, err, previous, delivered>>

\* Mutant: the order of the headers is not checked.
AcceptsAll(h) == TRUE

(***************************************************************************)
(* "nr.headers <- hdr" meets the select of Next.                           *)
(***************************************************************************)
Accepts(h) == Ordered(previous, h.path)

\* Mutant: the parser goes on as soon as its header is taken.
TakeHeaderUnpaced ==
  /\ cpc = "select" /\ ppc = "send"
  /\ cpc' = "idle" /\ ppc' = AfterHeader
  /\ IF Accepts(hdr)
       THEN previous' = hdr.path /\ delivered' = Append(delivered, hdr) /\ UNCHANGED err
       ELSE err' = "err" /\ UNCHANGED <<previous, delivered>>
  /\ UNCHANGED <<input, content, parser, channels, closed>>

TakeHeader ==
  /\ cpc = "select" /\ ppc = "send"
  /\ cpc' = "idle" /\ ppc' = "wait"
  /\ IF Accepts(hdr)
       THEN previous' = hdr.path /\ delivered' = Append(delivered, hdr) /\ UNCHANGED err
       ELSE err' = "err" /\ UNCHANGED <<previous, delivered>>
  /\ UNCHANGED <<input, content, parser, channels, closed>>

(***************************************************************************)
(* The other ways out of the select.  A receive from a closed and empty    *)
(* errors channel gives nil, which Next would return as a nil header with  *)
(* a nil error ("nil" below).                                              *)
(***************************************************************************)
SeeHeadersClosed ==
  /\ cpc = "select" /\ headersClosed
  /\ cpc' = "verdict"
  /\ UNCHANGED <<input, content, ppc, parser, channels, closed, err, previous, delivered>>

ReceiveError ==
  /\ cpc \in {"select", "verdict"}
  /\ errors # "none" \/ errorsClosed
  /\ cpc' = "idle"
  /\ errors' = "none"
  /\ err' = IF errors # "none" THEN errors ELSE IF cpc = "verdict" THEN "eof" ELSE "nil"
  /\ UNCHANGED <<input, content, ppc, parser, headersClosed, errorsClosed,
                 closed, previous, delivered>>

\* Mutant: Read does not count what it takes off the contents.
ReadUncounted ==
  /\ cpc = "idle" /\ ~closed
  /\ left > 0 /\ ~EndReached
  /\ pos' = pos + 1
  /\ UNCHANGED <<stream, left, padded, ppc, parser, channels, consumer>>

(***************************************************************************)
(* Read takes a word of the current file's data from the input itself.     *)
(***************************************************************************)
Read ==
  /\ cpc = "idle" /\ ~closed
  /\ left > 0 /\ ~EndReached
  /\ pos' = pos + 1 /\ left' = left - 1
  /\ UNCHANGED <<stream, padded, ppc, parser, channels, consumer>>

Close ==
  /\ cpc = "idle" /\ ~closed /\ err # "eof"
  /\ closed' = TRUE
  /\ UNCHANGED <<input, content, ppc, parser, channels, cpc, err, previous, delivered>>

InNext == Resume \/ TakeHeader \/ SeeHeadersClosed \/ ReceiveError

ConsumerStep == NewReader \/ CallNext \/ InNext \/ Read \/ Close

(***************************************************************************)
(* Nothing is left to do: the parser has exited, or never started, and the *)
(* consumer is not waiting for anything.                                   *)
(***************************************************************************)
Finished ==
  /\ cpc \in {"idle", "failed"} /\ ppc \in {"new", "done"}
  /\ UNCHANGED vars

Next == ParserStep \/ ConsumerStep \/ Finished

Spec == Init /\ [][Next]_vars

(***************************************************************************)
(* The scheduler runs the parser whenever it can run, and a call of Next   *)
(* that can go on.  Nothing makes the consumer call Next, Read or Close.   *)
(***************************************************************************)
FairSpec == Spec /\ WF_vars(ParserStep) /\ WF_vars(InNext)

----------------------------------------------------------------------------
(***************************************************************************)
(* Properties                                                              *)
(***************************************************************************)
ReadingLabels ==
  {"open", "type", "label", "body", "placeholder", "contents", "length", "target",
   "linkTarget", "skip", "padding", "close", "loop", "entryOpen", "entryName", "name",
   "entryNode", "entryClose"}

LastLabels == {"closeHeaders", "closeErrors", "done"}

ParserLabels == {"new", "start", "send", "wait", "deposit"} \cup ReadingLabels \cup LastLabels

\* The variables keep to their types.
TypeOK ==
  /\ pos \in Nat \ {0}
  /\ left \in Nat /\ padded \in BOOLEAN
  /\ ppc \in ParserLabels
  /\ stack \in Seq(Frame)
  /\ hdr \in Header
  /\ verdict \in {"eof", "err"} /\ errors \in {"none", "eof", "err"}
  /\ headersClosed \in BOOLEAN /\ errorsClosed \in BOOLEAN
  /\ cpc \in {"new", "failed", "idle", "resume", "select", "verdict"}
  /\ closed \in BOOLEAN /\ err \in {"none", "eof", "err", "nil"}
  /\ previous \in Path
  /\ delivered \in Seq(Header)

(***************************************************************************)
(* The two goroutines share nr.r and nr.contentReader without a lock.      *)
(* While the consumer is free to Read, the parser neither reads the input  *)
(* nor replaces the content reader (reader.go:167, 184 and 377).           *)
(***************************************************************************)
ReadsAreExclusive == cpc = "idle" /\ ~closed => ppc \notin ReadingLabels

(***************************************************************************)
(* Every call of Next ends in a header or in an error, whichever of the    *)
(* closed channels its select happens to see first: the verdict is there   *)
(* for it, and it never returns a nil header with a nil error              *)
(* (reader.go:329-367).                                                    *)
(***************************************************************************)
NextIsDefinite ==
  /\ cpc = "verdict" => errors # "none"
  /\ cpc = "select" /\ ppc \in LastLabels => errors # "none"
  /\ err # "nil"

(***************************************************************************)
(* No header is handed out in front of one it does not follow in the       *)
(* canonical order (reader.go:316-318, 347).                               *)
(***************************************************************************)
HeadersInOrder ==
  \A i, j \in 1..Len(delivered) : i < j => Ordered(delivered[i].path, delivered[j].path)

(***************************************************************************)
(* When Next has returned a header, the content reader stands on the data  *)
(* of that file and of no other, however much of the files before it the   *)
(* consumer has read: what Read gives is what the header is about.         *)
(***************************************************************************)
HoldsContentOf(h) == IF h.type = "regular" THEN pos + left = h.at + h.size ELSE left = 0

ContentInPlace ==
  cpc = "idle" /\ ~closed /\ err = "none" /\ delivered # << >> =>
    HoldsContentOf(delivered[Len(delivered)])

(***************************************************************************)
(* io.EOF from Next means the consumer has seen the whole of a sound       *)
(* archive: "io.EOF is returned at the end of input.  Errors are returned  *)
(* in case invalid data was read." (reader.go:316-317)                     *)
(***************************************************************************)
EOFMeansComplete ==
  err = "eof" => stream.intact /\ delivered = stream.entries

(***************************************************************************)
(* What the consumer sees is an iterator over the archive, unless it has   *)
(* been damaged without its source failing, or an entry of it has the name *)
(* that the parser takes for something else.                               *)
(***************************************************************************)
Faithful == ~stream.damaged /\ ~HidesEntries(stream)

Iterator == INSTANCE ArchiveIterator WITH
  archive   <- stream,
  outcome   <- IF closed THEN "closed" ELSE IF cpc = "failed" THEN "err" ELSE err

IteratesArchive == Iterator!Init /\ [][Faithful => Iterator!Next]_(Iterator!vars)

\* A call of Next returns.
NextReturns == cpc \in {"resume", "select", "verdict"} ~> cpc = "idle"

(***************************************************************************)
(* Close lets go of the parser: it "must not leave the parser goroutine    *)
(* behind" (reader_test.go:371-373).                                       *)
(***************************************************************************)
ParserExits == closed /\ Faithful ~> ppc = "done"

(***************************************************************************)
(* It does let go, unless a file's data holds what spells a ")".  The      *)
(* parser returns from the call for its node only (reader.go:177-181), and *)
(* goes on with what is left of the data as if it stood behind the node:   *)
(* it fails there at once, or it takes such a ")" for the end of an entry  *)
(* and may come to another header, which nobody will receive.              *)
(***************************************************************************)
OpaqueData == \A i \in DOMAIN stream.words : stream.layout[i].part = "data" => stream.words[i].tok # ")"

OpaqueParserExits == closed /\ Faithful /\ OpaqueData ~> ppc = "done"
============================================================================
