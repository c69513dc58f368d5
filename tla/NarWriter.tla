----------------------------- MODULE NarWriter -----------------------------
(***************************************************************************)
(* nar.Writer (src/pkg/nar/writer.go): the goroutine that emits an         *)
(* archive, and its caller, which announces nodes with WriteHeader, fills  *)
(* files with Write and ends with Close.                                   *)
(*                                                                         *)
(* emitNode is recursive.  Its calls are the variable stack, a header for  *)
(* each, and epc is the emitter's program counter.  The header that a call *)
(* hands to its caller is in next.  All channels are unbuffered: a send    *)
(* and the receive it meets are one step.                                  *)
(*                                                                         *)
(* What is written is a sequence of words, as NarReader reads them.  The   *)
(* length of a file is counted in words of data, and an odd one stands for *)
(* a length that is not a multiple of 8.  Paths are clean, as DumpPath     *)
(* makes them.  What a failing write leaves behind is not followed.        *)
(***************************************************************************)
EXTENDS NarPath

CONSTANTS
  Offers,       \* the headers the caller may announce
  DotDotNames,  \* the names that begin with ".." and go on
  MaxHeaders    \* a bound on the headers that are announced

ASSUME OffersAreHeaders ==
  \A h \in Offers : /\ h.path \in Path /\ h.type \in {"regular", "symlink", "directory"}
                    /\ h.size \in Nat /\ h.executable \in BOOLEAN /\ h.target \in STRING
ASSUME DotDotNamesAreNames == DotDotNames \subseteq Name
ASSUME HeadersAreBounded == MaxHeaders \in Nat

VARIABLES
  out,                 \* the words written so far
  left, odd,           \* nw.contentWriter: data it still expects, padding behind it
  epc, stack, next,    \* the emitter
  verdict,             \* the error emitNode returned, or "none"
  errorsClosed,        \* whether the emitter closed nw.errors
  wpc, offered,        \* the caller: label, the header it announces
  closed,              \* nw.closed, and nw.headers with it
  err,                 \* the error that a call has returned, or "none"
  accepted,            \* history: the headers WriteHeader returned nil for
  failing              \* whether the underlying writer has failed

content == <<left, odd>>
emitter == <<stack, next, verdict>>
caller  == <<wpc, offered, closed, err, accepted>>
vars    == <<out, content, epc, emitter, errorsClosed, caller, failing>>

NoNode == [path |-> Root, type |-> "none", size |-> 0, executable |-> FALSE, target |-> ""]

W(tok)      == [tok |-> tok, size |-> 0, padded |-> FALSE]
Words(toks) == [i \in DOMAIN toks |-> W(toks[i])]

Magic     == "nix-archive-1"
Oversized == "#oversized"   \* data, which is no packet ...
Padding   == "#padding"     \* ... and the null bytes behind it

\* Nothing is called by the name of data.
ASSUME DataIsNoText == Oversized \notin Name /\ \A h \in Offers : h.target # Oversized

Init ==
  /\ out = Words(<<Magic>>)
  /\ left = 0 /\ odd = FALSE
  /\ epc = "first" /\ stack = << >> /\ next = NoNode /\ verdict = "none"
  /\ errorsClosed = FALSE
  /\ wpc = "idle" /\ offered = NoNode /\ closed = FALSE /\ err = "none"
  /\ accepted = << >> /\ failing = FALSE

----------------------------------------------------------------------------
(***************************************************************************)
(* The emitter                                                             *)
(***************************************************************************)
Current == stack[Len(stack)]

Goto(label) == epc' = label /\ UNCHANGED verdict

\* Mutant: an error ends the goroutine, which closes nothing.
FailSilently == epc' = "done" /\ verdict' = "err"

Fail == epc' = "deposit" /\ verdict' = "err"

\* A write that goes through, and one that does not.
Put(words)  == out' = out \o words /\ UNCHANGED failing
PutFails    == failing' = TRUE /\ UNCHANGED out

(***************************************************************************)
(* emitNode returns what it has in next.  The outermost call hands it to   *)
(* the goroutine, for which it is one header too many.                     *)
(***************************************************************************)
Return ==
  /\ stack' = SubSeq(stack, 1, Len(stack) - 1)
  /\ IF Len(stack) > 1 THEN Goto("entryClose")
     ELSE IF next = NoNode THEN Goto("closeErrors") ELSE Fail

LengthWord(h) ==
  [tok |-> IF h.size = 0 THEN "" ELSE Oversized, size |-> h.size, padded |-> h.size % 2 = 1]

Opening(h) ==
  Words(<<"(", "type", h.type>>) \o
  CASE h.type = "regular"   -> Words(IF h.executable THEN <<"executable", "", "contents">>
                                     ELSE <<"contents">>) \o <<LengthWord(h)>>
    [] h.type = "symlink"   -> Words(<<"target", h.target>>)
    [] h.type = "directory" -> << >>

EmitOpening ==
  /\ epc = "open"
  /\ \/ /\ Put(Opening(Current))
        /\ left' = Current.size /\ odd' = (Current.size % 2 = 1)
        /\ Goto("yield")
     \/ PutFails /\ Fail /\ UNCHANGED content
  /\ UNCHANGED <<stack, next, errorsClosed, caller>>

\* Mutant: whether all of a file was written is not looked at.
FinishUnchecked ==
  /\ epc = "finish"
  /\ \/ Put(Words(IF odd THEN <<Padding>> ELSE << >>)) /\ Goto("loop")
     \/ odd /\ PutFails /\ Fail
  /\ UNCHANGED <<content, stack, next, errorsClosed, caller>>

(***************************************************************************)
(* contentWriter.Close, with the padding.                                  *)
(***************************************************************************)
Finish ==
  /\ epc = "finish"
  /\ \/ left > 0 /\ Fail /\ UNCHANGED <<out, failing>>
     \/ left = 0 /\ Put(Words(IF odd THEN <<Padding>> ELSE << >>)) /\ Goto("loop")
     \/ left = 0 /\ odd /\ PutFails /\ Fail
  /\ UNCHANGED <<content, stack, next, errorsClosed, caller>>

(***************************************************************************)
(* filepath.Rel(currentHeader.Path, nextHeader.Path): the components that  *)
(* lead from one to the other, where next lies below current or is it.     *)
(* Whether it is "further up, or a sibling" is read off the first two      *)
(* bytes of the result.                                                    *)
(***************************************************************************)
Inside(h)   == StartsWith(h.path, Current.path)
Relative(h) == SubSeq(h.path, Len(Current.path) + 1, Len(h.path))

LooksBehind(h) == ~Inside(h) \/ \E n \in DotDotNames : Relative(h) # << >> /\ Relative(h)[1] = n

NodeName(h) == IF Relative(h) = << >> THEN "." ELSE Relative(h)[1]

Belongs(h) ==
  /\ Ordered(Current.path, h.path)
  /\ Current.type = "directory"
  /\ Len(Relative(h)) <= 1

NoMore ==
  /\ epc = "loop" /\ next = NoNode
  /\ \/ Put(Words(<<")">>)) /\ Return
     \/ PutFails /\ Fail /\ UNCHANGED stack
  /\ UNCHANGED <<content, next, errorsClosed, caller>>

Bounce ==
  /\ epc = "loop" /\ next # NoNode
  /\ Ordered(Current.path, next.path) /\ LooksBehind(next)
  /\ \/ Put(Words(<<")">>)) /\ Return
     \/ PutFails /\ Fail /\ UNCHANGED stack
  /\ UNCHANGED <<content, next, errorsClosed, caller>>

EmitEntry ==
  /\ epc = "loop" /\ next # NoNode /\ ~LooksBehind(next)
  /\ Belongs(next)
  /\ \/ /\ Put(Words(<<"entry", "(", "name", NodeName(next), "node">>))
        /\ stack' = Append(stack, next) /\ next' = NoNode
        /\ Goto("open")
     \/ PutFails /\ Fail /\ UNCHANGED <<stack, next>>
  /\ UNCHANGED <<content, errorsClosed, caller>>

RefuseNode ==
  /\ epc = "loop" /\ next # NoNode
  /\ ~Ordered(Current.path, next.path) \/ ~(LooksBehind(next) \/ Belongs(next))
  /\ Fail
  /\ UNCHANGED <<out, content, stack, next, errorsClosed, caller, failing>>

EmitEntryClose ==
  /\ epc = "entryClose"
  /\ \/ Put(Words(<<")">>)) /\ Goto("loop")
     \/ PutFails /\ Fail
  /\ UNCHANGED <<content, stack, next, errorsClosed, caller>>

CloseErrors ==
  /\ epc = "closeErrors"
  /\ errorsClosed' = TRUE
  /\ Goto("done")
  /\ UNCHANGED <<out, content, stack, next, caller, failing>>

(***************************************************************************)
(* The emitter finds nw.headers closed.                                    *)
(***************************************************************************)
SeeClosed ==
  /\ closed
  /\ \/ epc = "first" /\ Fail /\ UNCHANGED next
     \/ epc = "await" /\ Goto("finish") /\ next' = NoNode
  /\ UNCHANGED <<out, content, stack, errorsClosed, caller, failing>>

EmitterStep ==
  \/ EmitOpening \/ Finish \/ NoMore \/ Bounce \/ EmitEntry \/ RefuseNode
  \/ EmitEntryClose \/ CloseErrors \/ SeeClosed

----------------------------------------------------------------------------
(***************************************************************************)
(* The caller.  After an error it does nothing but Close, and it does not  *)
(* Write in front of its first header, as DumpPath does.                   *)
(***************************************************************************)
\* Header.Validate.
Valid(h) ==
  /\ h.type # "regular" => h.size = 0 /\ ~h.executable
  /\ (h.type = "symlink") <=> (h.target # "")

WriteHeader(h) ==
  /\ wpc = "idle" /\ ~closed /\ err = "none"
  /\ Len(accepted) < MaxHeaders
  /\ IF Valid(h)
       THEN wpc' = "send" /\ offered' = h /\ UNCHANGED err
       ELSE err' = "err" /\ UNCHANGED <<wpc, offered>>
  /\ UNCHANGED <<out, content, epc, emitter, errorsClosed, closed, accepted, failing>>

\* Mutant: an archive may begin anywhere.
SendHeaderAnywhere ==
  /\ wpc = "send" /\ epc \in {"first", "await"}
  /\ wpc' = "wait"
  /\ IF epc = "await" THEN Goto("finish") /\ next' = offered /\ UNCHANGED stack
     ELSE Goto("open") /\ stack' = <<offered>> /\ UNCHANGED next
  /\ UNCHANGED <<out, content, errorsClosed, offered, closed, err, accepted, failing>>

(***************************************************************************)
(* "nw.headers <- hdr".  The first header has to be the root's.            *)
(***************************************************************************)
SendHeader ==
  /\ wpc = "send" /\ epc \in {"first", "await"}
  /\ wpc' = "wait"
  /\ IF epc = "await" THEN Goto("finish") /\ next' = offered /\ UNCHANGED stack
     ELSE IF offered.path = Root THEN Goto("open") /\ stack' = <<offered>> /\ UNCHANGED next
     ELSE Fail /\ UNCHANGED <<stack, next>>
  /\ UNCHANGED <<out, content, errorsClosed, offered, closed, err, accepted, failing>>

\* Mutant: WriteHeader returns as soon as the emitter has the header.
HeaderDoneEarly ==
  /\ wpc = "wait" /\ epc \in {"open", "yield"}
  /\ wpc' = "idle" /\ accepted' = Append(accepted, offered)
  /\ IF epc = "yield" THEN Goto("await") ELSE UNCHANGED <<epc, verdict>>
  /\ UNCHANGED <<out, content, stack, next, errorsClosed, offered, closed, err, failing>>

\* "nw.doneWritingHeader <- struct{}{}"
HeaderDone ==
  /\ wpc = "wait" /\ epc = "yield"
  /\ wpc' = "idle" /\ accepted' = Append(accepted, offered)
  /\ Goto("await")
  /\ UNCHANGED <<out, content, stack, next, errorsClosed, offered, closed, err, failing>>

\* Mutant: only WriteHeader listens for errors.
ReceiveErrorUnlessClosing ==
  /\ wpc = "wait" /\ epc = "deposit"
  /\ wpc' = "idle" /\ err' = verdict
  /\ Goto("closeErrors")
  /\ UNCHANGED <<out, content, stack, next, errorsClosed, offered, closed, accepted, failing>>

\* "nw.errors <- err", which WriteHeader or Close receives.
ReceiveError ==
  /\ wpc \in {"wait", "closing"} /\ epc = "deposit"
  /\ wpc' = "idle" /\ err' = verdict
  /\ Goto("closeErrors")
  /\ UNCHANGED <<out, content, stack, next, errorsClosed, offered, closed, accepted, failing>>

\* Mutant: a file takes more than its size.
WriteBeyond(n) ==
  /\ wpc = "idle" /\ ~closed /\ err = "none" /\ accepted # << >>
  /\ out' = out \o [i \in 1..n |-> W(Oversized)] /\ left' = left - n
  /\ UNCHANGED <<odd, epc, emitter, errorsClosed, caller, failing>>

(***************************************************************************)
(* Write, of n words.  More than the file has room for is refused as a     *)
(* whole; a write that fails may have written a part.                      *)
(***************************************************************************)
Write(n) ==
  /\ wpc = "idle" /\ ~closed /\ err = "none" /\ accepted # << >>
  /\ \/ /\ n > left
        /\ err' = "err" /\ UNCHANGED <<out, left, failing>>
     \/ /\ n <= left
        /\ Put([i \in 1..n |-> W(Oversized)]) /\ left' = left - n
        /\ UNCHANGED err
     \/ /\ n <= left /\ n > 0
        /\ PutFails /\ err' = "err"
        /\ \E m \in 0..(n - 1) : left' = left - m
  /\ UNCHANGED <<odd, epc, emitter, errorsClosed, wpc, offered, closed, accepted>>

Close ==
  /\ wpc = "idle" /\ ~closed
  /\ closed' = TRUE /\ wpc' = "closing"
  /\ UNCHANGED <<out, content, epc, emitter, errorsClosed, offered, err, accepted, failing>>

(***************************************************************************)
(* Close finds nw.errors closed and returns nil.                           *)
(***************************************************************************)
CloseReturns ==
  /\ wpc = "closing" /\ errorsClosed
  /\ wpc' = "idle"
  /\ UNCHANGED <<out, content, epc, emitter, errorsClosed, offered, closed, err, accepted, failing>>

CallProceeds == SendHeader \/ HeaderDone \/ ReceiveError \/ CloseReturns

CallerStep == (\E h \in Offers : WriteHeader(h)) \/ (\E n \in 0..2 : Write(n)) \/ Close

Finished == wpc = "idle" /\ closed /\ epc = "done" /\ UNCHANGED vars

Next == EmitterStep \/ CallProceeds \/ CallerStep \/ Finished

Spec == Init /\ [][Next]_vars

\* Both goroutines are scheduled.  Nothing makes the caller call.
Fairness == WF_vars(EmitterStep) /\ WF_vars(CallProceeds)

----------------------------------------------------------------------------
(***************************************************************************)
(* Properties                                                              *)
(***************************************************************************)
\* The variables keep to their types.
TypeOK ==
  /\ left \in Nat /\ odd \in BOOLEAN
  /\ epc \in {"first", "open", "yield", "await", "finish", "loop", "entryClose", "deposit",
              "closeErrors", "done"}
  /\ stack \in Seq(Offers) /\ next \in Offers \cup {NoNode}
  /\ verdict \in {"none", "err"} /\ errorsClosed \in BOOLEAN
  /\ wpc \in {"idle", "send", "wait", "closing"}
  /\ offered \in Offers \cup {NoNode}
  /\ closed \in BOOLEAN /\ err \in {"none", "err"}
  /\ accepted \in Seq(Offers) /\ failing \in BOOLEAN

(***************************************************************************)
(* The two goroutines share nw.w and nw.contentWriter without a lock: the  *)
(* emitter writes nothing while the caller is free to (writer.go:166-175). *)
(***************************************************************************)
WritesAreExclusive ==
  wpc = "idle" /\ ~closed => epc \in {"first", "await", "closeErrors", "done"}

(***************************************************************************)
(* When Close returns without an error, and none came before, what was     *)
(* announced is a tree: from the root on, in order, and each node in a     *)
(* directory that is there (writer.go:63-69, 203-245).  That it is this    *)
(* tree that was written is for module RoundTrip to say.                   *)
(*                                                                         *)
(* One exception: right behind a directory the same path may be announced  *)
(* again, as whatever it likes, and comes out as an entry "." of that      *)
(* directory.  The comment at writer.go:203-204 asks for a greater path,   *)
(* and the test "not lexicographically sorted, but the same"               *)
(* (writer_test.go:269) has it refused for a link; so it is, behind        *)
(* everything but a directory.                                             *)
(***************************************************************************)
Succeeded == wpc = "idle" /\ closed /\ err = "none"

\* Where a header stands that is announced behind the first k.
Attached(h, k) ==
  IF h.path = accepted[k].path THEN accepted[k].type = "directory"
  ELSE \E j \in 1..k : accepted[j].type = "directory" /\ Parent(h.path) = accepted[j].path

SuccessMeansSound ==
  Succeeded =>
    /\ accepted # << >> /\ accepted[1].path = Root
    /\ \A i \in 1..(Len(accepted) - 1) : /\ Ordered(accepted[i].path, accepted[i + 1].path)
                                        /\ Attached(accepted[i + 1], i)

\* A call returns.
CallsReturn == wpc # "idle" ~> wpc = "idle"

(***************************************************************************)
(* "make sure the NAR writer is always closed, so the underlying goroutine *)
(* is stopped" (dump.go:32).                                               *)
(***************************************************************************)
EmitterStops == closed ~> epc = "done"
============================================================================
