----------------------------- MODULE RoundTrip -----------------------------
(***************************************************************************)
(* A Writer and the Reader of what it wrote: when Close has returned nil,  *)
(* the archive is handed to NewReader and walked to its end.               *)
(*                                                                         *)
(* What NarWriter promises is checked here as well, as the writer takes    *)
(* all of its own steps.                                                   *)
(***************************************************************************)
EXTENDS NarWriter

CONSTANT MaxSize   \* math.MaxInt64

VARIABLES
  stream, pos, rLeft, rPadded, ppc, rStack, hdr, rVerdict, rErrors,
  headersClosed, rErrorsClosed, cpc, rClosed, rErr, previous, delivered

Reader == INSTANCE NarReader WITH
  Archives <- {}, left <- rLeft, padded <- rPadded, stack <- rStack, verdict <- rVerdict,
  errors <- rErrors, errorsClosed <- rErrorsClosed, closed <- rClosed, err <- rErr

rVars == <<stream, pos, rLeft, rPadded, ppc, rStack, hdr, rVerdict, rErrors,
           headersClosed, rErrorsClosed, cpc, rClosed, rErr, previous, delivered>>
all   == <<vars, rVars>>

Unwritten ==
  [words |-> << >>, end |-> "eof", entries |-> << >>, layout |-> << >>, intact |-> FALSE, damaged |-> FALSE]

RTInit ==
  /\ Init
  /\ stream = Unwritten /\ pos = 1 /\ rLeft = 0 /\ rPadded = FALSE
  /\ ppc = "new" /\ rStack = << >> /\ hdr = Reader!NoHeader /\ rVerdict = "eof"
  /\ rErrors = "none" /\ headersClosed = FALSE /\ rErrorsClosed = FALSE
  /\ cpc = "new" /\ rClosed = FALSE /\ rErr = "none" /\ previous = Root /\ delivered = << >>

\* Once the archive is handed over, nothing calls the writer any more.
WriterStep == Next /\ UNCHANGED rVars

\* What was written is what is read.  Nothing is lost in between.
HandOver ==
  /\ Succeeded /\ epc = "done" /\ stream = Unwritten
  /\ stream' = [Unwritten EXCEPT !.words = out]
  /\ UNCHANGED <<vars, pos, rLeft, rPadded, ppc, rStack, hdr, rVerdict, rErrors,
                 headersClosed, rErrorsClosed, cpc, rClosed, rErr, previous, delivered>>

ReaderStep ==
  /\ stream # Unwritten
  /\ Reader!ParserStep \/ Reader!NewReader \/ Reader!CallNext \/ Reader!InNext \/ Reader!Read
  /\ UNCHANGED vars

RTNext == WriterStep \/ HandOver \/ ReaderStep

RTSpec == RTInit /\ [][RTNext]_all

\* The writer's emitter and its calls run; nobody has to read on.
RTFairSpec == RTSpec /\ Fairness

----------------------------------------------------------------------------
(***************************************************************************)
(* What the reader delivers is what the writer accepted, header by header  *)
(* and from the first on: path, type, size, the mark of an executable, and *)
(* the target of a link.  It delivers all of them, refuses none and        *)
(* reports the end behind the last (writer.go:86-290 against               *)
(* reader.go:106-310), if nothing is called ")".  The writer takes an      *)
(* entry of that name, and the reader takes it for the end of its          *)
(* directory (reader.go:299): what comes behind it is lost or refused.     *)
(***************************************************************************)
\* The reader's headers tell where in the stream the contents begin, or the target stands.
Token(i) == stream.words[i].tok

Same(h, d) ==
  /\ d.path = h.path /\ d.type = h.type /\ d.size = h.size
  /\ h.type = "regular" => (h.executable <=> Token(d.at - 4) = "executable")
  /\ h.type = "symlink" => Token(d.at) = h.target

CalledLikeAnEnd(h) == h.path # Root /\ h.path[Len(h.path)] = ")"

ReadsBack ==
  /\ Len(delivered) <= Len(accepted)
  /\ \A i \in DOMAIN delivered : Same(accepted[i], delivered[i])
  /\ (\A i \in DOMAIN accepted : ~CalledLikeAnEnd(accepted[i])) =>
       /\ cpc # "failed" /\ rErr \in {"none", "eof"}
       /\ rErr = "eof" => Len(delivered) = Len(accepted)
============================================================================
