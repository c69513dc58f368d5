-------------------------- MODULE NarWriter_proofs --------------------------
(***************************************************************************)
(* Proofs about NarWriter, for every set of headers a caller may announce, *)
(* in any order and any number, and a destination that may fail at every   *)
(* write.                                                                  *)
(***************************************************************************)
EXTENDS Dump, NarPath_proofs, FiniteSetTheorems

(***************************************************************************)
(* The emitter is in a call of emitNode; it is busy with a header it was   *)
(* given, or with the end; it has returned from its outermost call, or     *)
(* given up.                                                               *)
(***************************************************************************)
BusyLabels  == {"finish", "loop", "entryClose"}
NodeLabels  == {"open", "yield", "await"} \cup BusyLabels
EndedLabels == {"closeErrors", "done"}

(***************************************************************************)
(* Where the two goroutines can be together.  Whoever finds the emitter    *)
(* ended has closed, or has its error.                                     *)
(***************************************************************************)
Turns ==
  /\ wpc = "idle" /\ ~closed => epc \in {"first", "await"} \cup EndedLabels
  /\ wpc = "idle" /\ closed => epc \in EndedLabels
  /\ wpc = "send" => ~closed /\ err = "none" /\ offered \in Offers /\ epc \in {"first", "await"}
  /\ wpc = "wait" => /\ ~closed /\ err = "none" /\ offered \in Offers
                     /\ epc \in {"open", "yield", "deposit"} \cup BusyLabels
  /\ wpc = "closing" => closed /\ epc \notin {"open", "yield"}
  /\ epc \in EndedLabels /\ ~closed => err = "err"

\* What has become of the emitter's error.
Verdicts ==
  /\ epc \in {"first"} \cup NodeLabels => verdict = "none"
  /\ epc = "deposit" => verdict = "err"
  /\ epc \in EndedLabels /\ verdict = "err" => err = "err"
  /\ errorsClosed => epc = "done"

\* The header that is passed up is the one that the caller waits for, if it does.
Passed ==
  /\ epc \in {"first", "open", "yield", "await"} => next = NoNode
  /\ epc \in BusyLabels => next = IF wpc = "wait" THEN offered ELSE NoNode

\* There is a call of emitNode to return from, and a new one is for that header.
Frames ==
  /\ epc \in NodeLabels => stack # << >>
  /\ epc \in {"open", "yield"} => Current = offered

Inv == TypeOK /\ Turns /\ Verdicts /\ Passed /\ Frames

----------------------------------------------------------------------------
\* A header that may be announced is not the absence of one.
LEMMA NoNodeIsNone == NoNode \notin Offers
BY OffersAreHeaders DEF NoNode

\* A call of emitNode returns, to its caller or to the goroutine.
LEMMA ReturnStep ==
  ASSUME TypeOK, stack # << >>, Return
  PROVE  /\ stack' \in Seq(Offers)
         /\ \/ epc' = "entryClose" /\ verdict' = verdict /\ stack' # << >>
            \/ epc' = "closeErrors" /\ verdict' = verdict /\ next = NoNode
            \/ epc' = "deposit" /\ verdict' = "err"
<1>1. /\ Len(stack) \in Nat \ {0}
      /\ SubSeq(stack, 1, Len(stack) - 1) \in Seq(Offers)
      /\ Len(SubSeq(stack, 1, Len(stack) - 1)) = Len(stack) - 1
  BY FrontFacts DEF TypeOK
<1>2. stack' = SubSeq(stack, 1, Len(stack) - 1)
  BY DEF Return
<1>3. CASE Len(stack) > 1
  <2>1. epc' = "entryClose" /\ verdict' = verdict
    BY <1>3 DEF Return, Goto
  <2>2. SubSeq(stack, 1, Len(stack) - 1) # << >>
    BY <1>3, FrontFacts DEF TypeOK
  <2>3. stack' # << >>
    BY <1>2, <2>2
  <2> QED
    BY <1>1, <1>2, <2>1, <2>3
<1>4. CASE ~(Len(stack) > 1) /\ next = NoNode
  BY <1>1, <1>2, <1>4 DEF Return, Goto
<1>5. CASE ~(Len(stack) > 1) /\ next # NoNode
  BY <1>1, <1>2, <1>5 DEF Return, Fail
<1> QED
  BY <1>3, <1>4, <1>5

----------------------------------------------------------------------------
LEMMA InitInv == Init => Inv
<1> SUFFICES ASSUME Init PROVE Inv
  OBVIOUS
<1>1. TypeOK
  <2>1. stack \in Seq(Offers) /\ accepted \in Seq(Offers)
    BY DEF Init
  <2>2. odd \in BOOLEAN /\ errorsClosed \in BOOLEAN /\ closed \in BOOLEAN /\ failing \in BOOLEAN
    BY DEF Init
  <2> QED
    BY <2>1, <2>2 DEF Init, TypeOK
<1>2. Turns /\ Verdicts /\ Passed /\ Frames
  BY DEF Init, Turns, Verdicts, Passed, Frames, BusyLabels, NodeLabels, EndedLabels
<1> QED
  BY <1>1, <1>2 DEF Inv

(***************************************************************************)
(* A step of the emitter within its calls: the caller waits for a header   *)
(* to be done, or for the end.                                             *)
(***************************************************************************)
LEMMA BusyStep ==
  ASSUME Inv, epc \in {"open"} \cup BusyLabels, UNCHANGED <<errorsClosed, caller>>,
         left' \in Nat, odd' \in BOOLEAN, failing' \in BOOLEAN, stack' \in Seq(Offers),
         \/ epc' = "deposit" /\ verdict' = "err" /\ next' = next
         \/ epc' \in BusyLabels /\ verdict' = verdict /\ next' = next /\ stack' # << >> /\ epc # "open"
         \/ epc' \in {"open", "yield"} /\ verdict' = verdict /\ next' = NoNode
            /\ stack' # << >> /\ Current' = offered /\ (epc = "open" \/ next # NoNode)
         \/ epc' = "closeErrors" /\ verdict' = verdict /\ next' = next /\ next = NoNode /\ epc # "open"
  PROVE  Inv'
<1>1. UNCHANGED <<errorsClosed, wpc, offered, closed, err, accepted>>
  BY DEF caller
<1>2. TypeOK'
  BY <1>1 DEF Inv, TypeOK, BusyLabels
<1>3. wpc \in {"wait", "closing"} /\ (epc = "open" \/ next # NoNode => wpc = "wait")
  BY DEF Inv, TypeOK, Turns, Passed, BusyLabels, EndedLabels
<1>4. wpc = "wait" => epc = "open" \/ next # NoNode
  BY NoNodeIsNone DEF Inv, Turns, Passed, BusyLabels
<1>5. Turns'
  BY <1>1, <1>3, <1>4 DEF Inv, Turns, BusyLabels, EndedLabels
<1>6. Verdicts'
  BY <1>1 DEF Inv, Verdicts, BusyLabels, NodeLabels, EndedLabels
<1>7. Passed'
  BY <1>1 DEF Inv, Passed, BusyLabels
<1>8. Frames'
  BY <1>1 DEF Frames, BusyLabels, NodeLabels
<1> QED
  BY <1>2, <1>5, <1>6, <1>7, <1>8 DEF Inv

\* The call on top of the stack is for a header that may be announced.
LEMMA CurrentType ==
  ASSUME Inv, epc \in NodeLabels
  PROVE  Current \in Offers /\ Current.path \in Path /\ Current.size \in Nat
BY FrontFacts, OffersAreHeaders DEF Inv, TypeOK, Frames, Current

LEMMA EmitOpeningInv == Inv /\ EmitOpening => Inv'
<1> SUFFICES ASSUME Inv, EmitOpening PROVE Inv'
  OBVIOUS
<1>1. /\ epc = "open" /\ stack' = stack /\ next' = next /\ UNCHANGED <<errorsClosed, caller>>
      /\ stack \in Seq(Offers) /\ stack # << >> /\ next = NoNode
  BY DEF EmitOpening, Inv, TypeOK, Frames, Passed, NodeLabels
<1>2. Current' = offered
  BY <1>1 DEF Inv, Frames, Current
<1>3. CASE Put(Opening(Current)) /\ left' = Current.size /\ odd' = (Current.size % 2 = 1) /\ Goto("yield")
  <2>1. left' \in Nat /\ odd' \in BOOLEAN /\ failing' \in BOOLEAN
    BY <1>1, <1>3, CurrentType DEF NodeLabels, Inv, TypeOK, Put
  <2>2. epc' = "yield" /\ verdict' = verdict
    BY <1>3 DEF Goto
  <2> QED
    BY <1>1, <1>2, <2>1, <2>2, BusyStep
<1>4. CASE PutFails /\ Fail /\ UNCHANGED content
  <2>1. left' \in Nat /\ odd' \in BOOLEAN /\ failing' \in BOOLEAN
    BY <1>4 DEF Inv, TypeOK, PutFails, content
  <2>2. epc' = "deposit" /\ verdict' = "err"
    BY <1>4 DEF Fail
  <2> QED
    BY <1>1, <2>1, <2>2, BusyStep
<1> QED
  BY <1>3, <1>4 DEF EmitOpening

\* What a step of the emitter does to the content writer and the destination.
LEMMA OutputType ==
  ASSUME Inv, UNCHANGED content, failing' = TRUE \/ UNCHANGED failing
  PROVE  left' \in Nat /\ odd' \in BOOLEAN /\ failing' \in BOOLEAN
BY DEF Inv, TypeOK, content

LEMMA FinishInv == Inv /\ Finish => Inv'
<1> SUFFICES ASSUME Inv, Finish PROVE Inv'
  OBVIOUS
<1>1. /\ epc = "finish" /\ stack' = stack /\ next' = next /\ UNCHANGED <<errorsClosed, caller>>
      /\ stack \in Seq(Offers) /\ stack # << >> /\ UNCHANGED content
  BY DEF Finish, Inv, TypeOK, Frames, NodeLabels, BusyLabels
<1>2. /\ failing' = TRUE \/ UNCHANGED failing
      /\ \/ epc' = "deposit" /\ verdict' = "err"
         \/ epc' = "loop" /\ verdict' = verdict
  BY DEF Finish, Put, PutFails, Fail, Goto
<1> QED
  BY <1>1, <1>2, OutputType, BusyStep DEF BusyLabels

LEMMA EmitEntryCloseInv == Inv /\ EmitEntryClose => Inv'
<1> SUFFICES ASSUME Inv, EmitEntryClose PROVE Inv'
  OBVIOUS
<1>1. /\ epc = "entryClose" /\ stack' = stack /\ next' = next /\ UNCHANGED <<errorsClosed, caller>>
      /\ stack \in Seq(Offers) /\ stack # << >> /\ UNCHANGED content
  BY DEF EmitEntryClose, Inv, TypeOK, Frames, NodeLabels, BusyLabels
<1>2. /\ failing' = TRUE \/ UNCHANGED failing
      /\ \/ epc' = "deposit" /\ verdict' = "err"
         \/ epc' = "loop" /\ verdict' = verdict
  BY DEF EmitEntryClose, Put, PutFails, Fail, Goto
<1> QED
  BY <1>1, <1>2, OutputType, BusyStep DEF BusyLabels

LEMMA RefuseNodeInv == Inv /\ RefuseNode => Inv'
<1> SUFFICES ASSUME Inv, RefuseNode PROVE Inv'
  OBVIOUS
<1>1. /\ epc = "loop" /\ stack' = stack /\ next' = next /\ UNCHANGED <<errorsClosed, caller>>
      /\ stack \in Seq(Offers) /\ UNCHANGED content /\ UNCHANGED failing
      /\ epc' = "deposit" /\ verdict' = "err"
  BY DEF RefuseNode, Inv, TypeOK, Fail
<1> QED
  BY <1>1, OutputType, BusyStep DEF BusyLabels

\* NoMore and Bounce: the node is closed, and the call returns.
LEMMA EndNodeInv == Inv /\ (NoMore \/ Bounce) => Inv'
<1> SUFFICES ASSUME Inv, NoMore \/ Bounce PROVE Inv'
  OBVIOUS
<1>1. /\ epc = "loop" /\ next' = next /\ UNCHANGED <<errorsClosed, caller>>
      /\ stack \in Seq(Offers) /\ stack # << >> /\ UNCHANGED content
  BY DEF NoMore, Bounce, Inv, TypeOK, Frames, NodeLabels, BusyLabels
<1>2. \/ Put(Words(<<")">>)) /\ Return
      \/ PutFails /\ Fail /\ UNCHANGED stack
  BY DEF NoMore, Bounce
<1>3. CASE Put(Words(<<")">>)) /\ Return
  <2>1. UNCHANGED failing
    BY <1>3 DEF Put
  <2>2. /\ stack' \in Seq(Offers)
        /\ \/ epc' = "entryClose" /\ verdict' = verdict /\ stack' # << >>
           \/ epc' = "closeErrors" /\ verdict' = verdict /\ next = NoNode
           \/ epc' = "deposit" /\ verdict' = "err"
    BY <1>1, <1>3, ReturnStep DEF Inv
  <2> QED
    BY <1>1, <2>1, <2>2, OutputType, BusyStep DEF BusyLabels
<1>4. CASE PutFails /\ Fail /\ UNCHANGED stack
  <2>1. failing' = TRUE /\ epc' = "deposit" /\ verdict' = "err" /\ stack' = stack
    BY <1>4 DEF PutFails, Fail
  <2> QED
    BY <1>1, <2>1, OutputType, BusyStep DEF BusyLabels
<1> QED
  BY <1>2, <1>3, <1>4

LEMMA EmitEntryInv == Inv /\ EmitEntry => Inv'
<1> SUFFICES ASSUME Inv, EmitEntry PROVE Inv'
  OBVIOUS
<1>1. /\ epc = "loop" /\ next # NoNode /\ UNCHANGED <<errorsClosed, caller>>
      /\ stack \in Seq(Offers) /\ next \in Offers /\ UNCHANGED content
  BY DEF EmitEntry, Inv, TypeOK
<1>2. /\ failing' = TRUE \/ UNCHANGED failing
      /\ \/ epc' = "deposit" /\ verdict' = "err" /\ stack' = stack /\ next' = next
         \/ /\ epc' = "open" /\ verdict' = verdict
            /\ stack' = Append(stack, next) /\ next' = NoNode
  BY DEF EmitEntry, Put, PutFails, Fail, Goto
<1>3. CASE epc' = "deposit" /\ verdict' = "err" /\ stack' = stack /\ next' = next
  BY <1>1, <1>2, <1>3, OutputType, BusyStep DEF BusyLabels
<1>4. CASE epc' = "open" /\ verdict' = verdict /\ stack' = Append(stack, next) /\ next' = NoNode
  <2>1. stack' \in Seq(Offers) /\ stack' # << >> /\ Current' = next
    BY <1>1, <1>4, AppendProperties DEF Current
  <2>2. next = offered
    BY <1>1 DEF Inv, Passed, BusyLabels
  <2> QED
    BY <1>1, <1>2, <1>4, <2>1, <2>2, OutputType, BusyStep DEF BusyLabels
<1> QED
  BY <1>2, <1>3, <1>4

----------------------------------------------------------------------------
(***************************************************************************)
(* The steps at the ends of the emitter, and those of the caller.          *)
(***************************************************************************)
LEMMA CloseErrorsInv == Inv /\ CloseErrors => Inv'
<1> SUFFICES ASSUME Inv, CloseErrors PROVE Inv'
  OBVIOUS
<1>1. /\ epc = "closeErrors" /\ errorsClosed' = TRUE /\ epc' = "done"
      /\ UNCHANGED <<left, odd, stack, next, verdict, wpc, offered, closed, err, accepted, failing>>
  BY DEF CloseErrors, Goto, content, caller
<1>2. TypeOK'
  BY <1>1 DEF Inv, TypeOK
<1>3. Turns' /\ Verdicts'
  BY <1>1 DEF Inv, Turns, Verdicts, BusyLabels, NodeLabels, EndedLabels
<1>4. Passed' /\ Frames'
  BY <1>1 DEF Passed, Frames, BusyLabels, NodeLabels
<1> QED
  BY <1>2, <1>3, <1>4 DEF Inv

LEMMA SeeClosedInv == Inv /\ SeeClosed => Inv'
<1> SUFFICES ASSUME Inv, SeeClosed PROVE Inv'
  OBVIOUS
<1>1. /\ closed /\ next' = NoNode
      /\ \/ epc = "first" /\ epc' = "deposit" /\ verdict' = "err"
         \/ epc = "await" /\ epc' = "finish" /\ verdict' = verdict
      /\ UNCHANGED <<left, odd, stack, errorsClosed, wpc, offered, closed, err, accepted, failing>>
  BY DEF SeeClosed, Goto, Fail, content, caller, Inv, Passed
<1>2. TypeOK'
  BY <1>1 DEF Inv, TypeOK
<1>3. Turns' /\ Verdicts'
  BY <1>1 DEF Inv, TypeOK, Turns, Verdicts, BusyLabels, NodeLabels, EndedLabels
<1>4. wpc # "wait"
  BY <1>1 DEF Inv, Turns
<1>5. Passed' /\ Frames'
  BY <1>1, <1>4 DEF Inv, Passed, Frames, BusyLabels, NodeLabels
<1> QED
  BY <1>2, <1>3, <1>5 DEF Inv

LEMMA WriteHeaderInv == ASSUME NEW h \in Offers, Inv, WriteHeader(h) PROVE Inv'
<1>1. /\ wpc = "idle" /\ ~closed /\ err = "none"
      /\ \/ wpc' = "send" /\ offered' = h /\ err' = err
         \/ wpc' = wpc /\ offered' = offered /\ err' = "err"
      /\ UNCHANGED <<left, odd, epc, stack, next, verdict, errorsClosed, closed, accepted, failing>>
  BY DEF WriteHeader, content, emitter
<1>2. TypeOK'
  BY <1>1 DEF Inv, TypeOK
<1>3. Turns' /\ Verdicts'
  BY <1>1 DEF Inv, TypeOK, Turns, Verdicts, BusyLabels, NodeLabels, EndedLabels
<1>4. epc \in {"first", "await"} \cup EndedLabels
  BY <1>1 DEF Inv, Turns
<1>5. Passed' /\ Frames'
  BY <1>1, <1>4 DEF Inv, Passed, Frames, Current, BusyLabels, NodeLabels, EndedLabels
<1> QED
  BY <1>2, <1>3, <1>5 DEF Inv

LEMMA SendHeaderInv == Inv /\ SendHeader => Inv'
<1> SUFFICES ASSUME Inv, SendHeader PROVE Inv'
  OBVIOUS
<1>1. /\ wpc = "send" /\ wpc' = "wait" /\ offered \in Offers /\ ~closed /\ err = "none"
      /\ next = NoNode
      /\ UNCHANGED <<left, odd, errorsClosed, offered, closed, err, accepted, failing>>
  BY DEF SendHeader, content, Inv, Turns, Passed
<1>2. \/ /\ epc = "await" /\ epc' = "finish" /\ verdict' = verdict
         /\ next' = offered /\ stack' = stack
      \/ /\ epc = "first" /\ epc' = "open" /\ verdict' = verdict
         /\ next' = next /\ stack' = <<offered>>
      \/ /\ epc = "first" /\ epc' = "deposit" /\ verdict' = "err"
         /\ next' = next /\ stack' = stack
  BY DEF SendHeader, Goto, Fail
<1>3. <<offered>> \in Seq(Offers) /\ <<offered>> # << >> /\ <<offered>>[Len(<<offered>>)] = offered
  BY <1>1
<1>4. TypeOK'
  BY <1>1, <1>2, <1>3 DEF Inv, TypeOK
<1>5. Turns' /\ Verdicts'
  BY <1>1, <1>2 DEF Inv, TypeOK, Turns, Verdicts, BusyLabels, NodeLabels, EndedLabels
<1>6. Passed'
  BY <1>1, <1>2 DEF Passed, BusyLabels
<1>7. Frames'
  BY <1>1, <1>2, <1>3 DEF Inv, Frames, Current, BusyLabels, NodeLabels
<1> QED
  BY <1>4, <1>5, <1>6, <1>7 DEF Inv

LEMMA HeaderDoneInv == Inv /\ HeaderDone => Inv'
<1> SUFFICES ASSUME Inv, HeaderDone PROVE Inv'
  OBVIOUS
<1>1. /\ wpc = "wait" /\ wpc' = "idle" /\ epc = "yield" /\ epc' = "await" /\ verdict' = verdict
      /\ accepted' = Append(accepted, offered) /\ offered \in Offers /\ accepted \in Seq(Offers)
      /\ UNCHANGED <<left, odd, stack, next, errorsClosed, offered, closed, err, failing>>
  BY DEF HeaderDone, Goto, content, Inv, TypeOK, Turns
<1>2. accepted' \in Seq(Offers)
  BY <1>1
<1>3. TypeOK'
  BY <1>1, <1>2 DEF Inv, TypeOK
<1>4. Turns' /\ Verdicts'
  BY <1>1 DEF Inv, Turns, Verdicts, BusyLabels, NodeLabels, EndedLabels
<1>5. Passed' /\ Frames'
  BY <1>1 DEF Inv, Passed, Frames, BusyLabels, NodeLabels
<1> QED
  BY <1>3, <1>4, <1>5 DEF Inv

LEMMA ReceiveErrorInv == Inv /\ ReceiveError => Inv'
<1> SUFFICES ASSUME Inv, ReceiveError PROVE Inv'
  OBVIOUS
<1>1. /\ wpc \in {"wait", "closing"} /\ wpc' = "idle" /\ err' = "err"
      /\ epc = "deposit" /\ epc' = "closeErrors" /\ verdict = "err" /\ verdict' = verdict
      /\ UNCHANGED <<left, odd, stack, next, errorsClosed, offered, closed, accepted, failing>>
  BY DEF ReceiveError, Goto, content, Inv, Verdicts
<1>2. TypeOK'
  BY <1>1 DEF Inv, TypeOK
<1>3. Turns' /\ Verdicts'
  BY <1>1 DEF Inv, Turns, Verdicts, BusyLabels, NodeLabels, EndedLabels
<1>4. Passed' /\ Frames'
  BY <1>1 DEF Passed, Frames, BusyLabels, NodeLabels
<1> QED
  BY <1>2, <1>3, <1>4 DEF Inv

LEMMA WriteInv == ASSUME NEW n \in Nat, Inv, Write(n) PROVE Inv'
<1>1. /\ wpc = "idle" /\ ~closed /\ err = "none"
      /\ left' \in Nat /\ failing' \in BOOLEAN /\ err' \in {"none", "err"}
  <2>1. left \in Nat /\ failing \in BOOLEAN /\ wpc = "idle" /\ ~closed /\ err = "none"
    BY DEF Inv, TypeOK, Write
  <2>2. CASE n > left /\ err' = "err" /\ UNCHANGED <<out, left, failing>>
    BY <2>1, <2>2
  <2>3. CASE n <= left /\ failing' = failing /\ left' = left - n /\ UNCHANGED err
    BY <2>1, <2>3
  <2>4. CASE n <= left /\ failing' = TRUE /\ err' = "err" /\ \E m \in 0..(n - 1) : left' = left - m
    BY <2>1, <2>4
  <2> QED
    BY <2>2, <2>3, <2>4 DEF Write, Put, PutFails, TypeOK, Inv
<1>2. UNCHANGED <<odd, epc, stack, next, verdict, errorsClosed, wpc, offered, closed, accepted>>
  BY DEF Write, emitter
<1>3. TypeOK'
  BY <1>1, <1>2 DEF Inv, TypeOK
<1>4. Turns' /\ Verdicts'
  BY <1>1, <1>2 DEF Inv, TypeOK, Turns, Verdicts, BusyLabels, NodeLabels, EndedLabels
<1>5. Passed' /\ Frames'
  BY <1>2 DEF Inv, Passed, Frames, Current
<1> QED
  BY <1>3, <1>4, <1>5 DEF Inv

LEMMA CloseInv == Inv /\ (Close \/ CloseReturns) => Inv'
<1> SUFFICES ASSUME Inv, Close \/ CloseReturns PROVE Inv'
  OBVIOUS
<1>1. /\ \/ wpc = "idle" /\ wpc' = "closing" /\ ~closed /\ closed' = TRUE
         \/ wpc = "closing" /\ wpc' = "idle" /\ closed' = closed /\ closed /\ epc = "done"
      /\ UNCHANGED <<left, odd, epc, stack, next, verdict, errorsClosed, offered, err, accepted, failing>>
  <2>1. wpc = "closing" => closed
    BY DEF Inv, Turns
  <2>2. errorsClosed => epc = "done"
    BY DEF Inv, Verdicts
  <2>3. CASE Close
    BY ONLY <2>3 DEF Close, content, emitter
  <2>4. CASE CloseReturns
    BY ONLY <2>1, <2>2, <2>4 DEF CloseReturns, content, emitter
  <2> QED
    BY ONLY <2>3, <2>4, Close \/ CloseReturns
<1>2. TypeOK'
  <2>1. TypeOK
    BY DEF Inv
  <2>2. wpc' \in {"idle", "closing"} /\ closed' \in BOOLEAN
    BY ONLY <1>1, <2>1 DEF TypeOK
  <2> QED
    BY ONLY <1>1, <2>1, <2>2 DEF TypeOK
<1>3. Turns' /\ Verdicts'
  BY <1>1 DEF Inv, TypeOK, Turns, Verdicts, BusyLabels, NodeLabels, EndedLabels
<1>4. wpc # "wait" /\ wpc' # "wait"
  BY <1>1
<1>5. Passed' /\ Frames'
  BY <1>1, <1>4 DEF Inv, Passed, Frames, Current
<1> QED
  BY <1>2, <1>3, <1>5 DEF Inv

----------------------------------------------------------------------------
LEMMA NextInv == Inv /\ [Next]_vars => Inv'
<1> SUFFICES ASSUME Inv, [Next]_vars PROVE Inv'
  OBVIOUS
<1>1. CASE EmitterStep
  BY <1>1, EmitOpeningInv, FinishInv, EndNodeInv, EmitEntryInv, RefuseNodeInv, EmitEntryCloseInv,
     CloseErrorsInv, SeeClosedInv DEF EmitterStep
<1>2. CASE CallProceeds
  BY <1>2, SendHeaderInv, HeaderDoneInv, ReceiveErrorInv, CloseInv DEF CallProceeds
<1>3. CASE CallerStep
  <2>1. \A n \in 0..2 : n \in Nat
    OBVIOUS
  <2> QED
    BY <1>3, <2>1, WriteHeaderInv, WriteInv, CloseInv DEF CallerStep
<1>4. CASE UNCHANGED vars
  BY <1>4 DEF vars, content, emitter, caller, Inv, TypeOK, Turns, Verdicts, Passed, Frames, Current
<1> QED
  BY <1>1, <1>2, <1>3, <1>4 DEF Next, Finished

(***************************************************************************)
(* The invariant holds of every behaviour of the writer and its caller.    *)
(***************************************************************************)
THEOREM Invariance == Spec => []Inv
<1> QED
  BY InitInv, NextInv, PTL DEF Spec

(***************************************************************************)
(* Every variable keeps to its type: whatever is announced, the emitter    *)
(* knows which calls it is in, and the content writer never owes a         *)
(* negative number of words (writer.go:86-290, 298-329).                   *)
(***************************************************************************)
THEOREM TypeCorrect == Spec => []TypeOK
<1>1. Inv => TypeOK
  BY DEF Inv
<1> QED
  BY Invariance, <1>1, PTL

(***************************************************************************)
(* The caller may Write without a lock: the emitter is not at the output   *)
(* (writer.go:166-175).                                                    *)
(***************************************************************************)
THEOREM ExclusiveWrites == Spec => []WritesAreExclusive
<1>1. Inv => WritesAreExclusive
  BY DEF Inv, Turns, EndedLabels, WritesAreExclusive
<1> QED
  BY Invariance, <1>1, PTL

----------------------------------------------------------------------------
(***************************************************************************)
(* What has been announced.  The emitter compares a header with those of   *)
(* its own calls only: with the directories between the last node and the  *)
(* root, not with all that went before.  That this is enough takes a       *)
(* second invariant.                                                       *)
(***************************************************************************)
LastAccepted == accepted[Len(accepted)]

Below(h, d) == d.type = "directory" /\ (h.path = d.path \/ Parent(h.path) = d.path)

\* A header that may come behind those there are.
Fits(h) ==
  IF accepted = << >> THEN h.path = Root
  ELSE Ordered(LastAccepted.path, h.path) /\ Attached(h, Len(accepted))

\* All headers are in order, not the neighbours only.
Tree ==
  /\ accepted # << >> => accepted[1].path = Root
  /\ \A i, j \in 1..Len(accepted) : i < j => Ordered(accepted[i].path, accepted[j].path)
  /\ \A i \in 1..(Len(accepted) - 1) : Attached(accepted[i + 1], i)

\* A header that is not the last one once more, and comes behind it.
Beyond(h) == Ordered(LastAccepted.path, h.path) /\ h.path # LastAccepted.path

\* Every call of emitNode is for a node that is in the archive, or about to be.
OpenNodes ==
  \A i \in 1..Len(stack) :
    \/ \E j \in 1..Len(accepted) : stack[i] = accepted[j]
    \/ i = Len(stack) /\ epc \in {"open", "yield"}

(***************************************************************************)
(* Where the emitter is among the nodes.  A header that is handed up from  *)
(* call to call has been found to come behind the last node, and not to be *)
(* its path again, by the first of these calls, which was for that node.   *)
(***************************************************************************)
Place ==
  /\ epc \in NodeLabels => OpenNodes
  /\ epc = "first" => accepted = << >>
  /\ epc \in {"open", "yield"} => Fits(offered)
  /\ epc \in {"await"} \cup BusyLabels => accepted # << >>
  /\ epc \in {"await", "finish"} => Current = LastAccepted
  /\ epc \in {"loop", "entryClose"} /\ next # NoNode =>
       \/ Beyond(next)
       \/ epc = "loop" /\ Current = LastAccepted
  /\ epc \in EndedLabels /\ verdict = "none" => accepted # << >>

\* A step that announces nothing leaves the tree as it is.
LEMMA TreeKept == Tree /\ UNCHANGED accepted => Tree'
BY DEF Tree, Attached

\* A node that is one component below a directory is a child of it, or itself.
LEMMA ChildFacts ==
  ASSUME NEW p \in Path, NEW q \in Path, StartsWith(q, p), Len(SubSeq(q, Len(p) + 1, Len(q))) <= 1
  PROVE  q = p \/ Parent(q) = p
<1>1. /\ Len(p) \in Nat /\ Len(q) \in Nat /\ Len(p) <= Len(q)
      /\ \A i \in 1..Len(p) : p[i] = q[i]
  BY PathFacts DEF StartsWith, AgreeUpTo
<1>2. Len(SubSeq(q, Len(p) + 1, Len(q))) = Len(q) - Len(p)
  BY <1>1 DEF Path
<1>3. CASE Len(q) = Len(p)
  BY <1>1, <1>3, PathFacts DEF AgreeUpTo
<1>4. CASE Len(q) = Len(p) + 1
  <2>1. q \in Seq(Name) /\ p \in Seq(Name) /\ q # << >>
    BY <1>1, <1>4 DEF Path
  <2>2. /\ SubSeq(q, 1, Len(q) - 1) \in Seq(Name)
        /\ Len(SubSeq(q, 1, Len(q) - 1)) = Len(q) - 1
        /\ \A i \in 1..(Len(q) - 1) : SubSeq(q, 1, Len(q) - 1)[i] = q[i]
    BY <2>1, FrontFacts
  <2>3. SubSeq(q, 1, Len(q) - 1) = p
    BY <1>1, <1>4, <2>1, <2>2, SeqEqual
  <2> QED
    BY <2>1, <2>3 DEF Parent, Root
<1> QED
  BY <1>1, <1>2, <1>3, <1>4

\* A call returns: those that are left were there before.
LEMMA ReturnPlace ==
  ASSUME Inv, Place, epc = "loop", Return, UNCHANGED accepted, UNCHANGED next, UNCHANGED offered,
         next # NoNode => Beyond(next)
  PROVE  Place'
<1>1. /\ stack \in Seq(Offers) /\ stack # << >> /\ accepted # << >> /\ OpenNodes
  BY DEF Inv, TypeOK, Frames, Place, NodeLabels, BusyLabels
<1>2. \/ epc' = "entryClose"
      \/ epc' = "closeErrors"
      \/ epc' = "deposit"
  BY <1>1, ReturnStep DEF Inv
<1>3. /\ stack' = SubSeq(stack, 1, Len(stack) - 1) /\ Len(stack') = Len(stack) - 1
      /\ Len(stack) \in Nat
      /\ \A i \in 1..(Len(stack) - 1) : stack'[i] = stack[i]
  <2>1. stack' = SubSeq(stack, 1, Len(stack) - 1)
    BY DEF Return
  <2> QED
    BY <1>1, <2>1, FrontFacts
<1>4. OpenNodes'
  BY <1>1, <1>3 DEF OpenNodes
<1> QED
  BY <1>1, <1>2, <1>4 DEF Place, Beyond, LastAccepted, NodeLabels, BusyLabels, EndedLabels

\* A step to a label at which no node is open.
LEMMA LeavePlace ==
  ASSUME Place, UNCHANGED <<stack, accepted>>,
         \/ epc' = "deposit"
         \/ epc = "closeErrors" /\ epc' = "done" /\ verdict' = verdict
         \/ epc = "deposit" /\ epc' = "closeErrors" /\ verdict' = "err"
  PROVE  Place'
BY DEF Place, NodeLabels, BusyLabels, EndedLabels

\* The emitter's steps that neither enter nor leave a call.
LEMMA EmitterPlace ==
  ASSUME Inv, Place,
         \/ EmitOpening \/ Finish \/ RefuseNode \/ EmitEntryClose \/ CloseErrors \/ SeeClosed
  PROVE  Place'
<1>1. CASE EmitOpening
  <2>1. /\ epc = "open" /\ UNCHANGED <<stack, accepted, offered>>
        /\ epc' \in {"yield", "deposit"}
    BY <1>1 DEF EmitOpening, Goto, Fail, caller
  <2>2. OpenNodes /\ Fits(offered)
    BY <2>1 DEF Place, NodeLabels
  <2>3. epc' = "yield" => OpenNodes' /\ Fits(offered)'
    BY <2>1, <2>2 DEF OpenNodes, Fits, LastAccepted, Attached
  <2> QED
    BY <2>1, <2>3 DEF Place, NodeLabels, BusyLabels, EndedLabels
<1>2. CASE Finish
  <2>1. /\ epc = "finish" /\ UNCHANGED <<stack, accepted, next>>
        /\ epc' \in {"loop", "deposit"}
    BY <1>2 DEF Finish, Goto, Fail, caller
  <2>2. OpenNodes /\ Current = LastAccepted /\ accepted # << >>
    BY <2>1 DEF Place, NodeLabels, BusyLabels
  <2>3. epc' = "loop" => OpenNodes' /\ (Current = LastAccepted)'
    BY <2>1, <2>2 DEF OpenNodes, Current, LastAccepted
  <2> QED
    BY <2>1, <2>2, <2>3 DEF Place, NodeLabels, BusyLabels, EndedLabels
<1>3. CASE RefuseNode
  BY <1>3, LeavePlace DEF RefuseNode, Fail, caller
<1>4. CASE EmitEntryClose
  <2>1. /\ epc = "entryClose" /\ UNCHANGED <<stack, accepted, next>>
        /\ epc' \in {"loop", "deposit"}
    BY <1>4 DEF EmitEntryClose, Goto, Fail, caller
  <2>2. /\ OpenNodes /\ accepted # << >>
        /\ next # NoNode => Beyond(next)
    BY <2>1 DEF Place, NodeLabels, BusyLabels
  <2>3. /\ epc' = "loop" => OpenNodes'
        /\ next' # NoNode => Beyond(next)'
    BY <2>1, <2>2 DEF OpenNodes, LastAccepted, Beyond
  <2> QED
    BY <2>1, <2>2, <2>3 DEF Place, NodeLabels, BusyLabels, EndedLabels
<1>5. CASE CloseErrors
  BY <1>5, LeavePlace DEF CloseErrors, Goto, caller
<1>6. CASE SeeClosed
  <2>1. /\ UNCHANGED <<stack, accepted>>
        /\ epc' = "deposit" \/ (epc = "await" /\ epc' = "finish")
    BY <1>6 DEF SeeClosed, Goto, Fail, caller
  <2>2. epc = "await" => OpenNodes /\ Current = LastAccepted /\ accepted # << >>
    BY DEF Place, NodeLabels
  <2>3. epc' = "finish" => OpenNodes' /\ (Current = LastAccepted)' /\ accepted' # << >>
    BY <2>1, <2>2 DEF OpenNodes, Current, LastAccepted
  <2> QED
    BY <2>1, <2>3 DEF Place, NodeLabels, BusyLabels, EndedLabels
<1> QED
  BY <1>1, <1>2, <1>3, <1>4, <1>5, <1>6

\* A node is closed.  The header at hand, if there is one, comes behind the last node.
LEMMA EndNodePlace == ASSUME Inv, Place, NoMore \/ Bounce PROVE Place'
<1>1. /\ epc = "loop" /\ UNCHANGED <<accepted, next, offered>>
      /\ next # NoNode => Ordered(Current.path, next.path) /\ LooksBehind(next)
      /\ Return \/ (Fail /\ UNCHANGED stack)
  BY DEF NoMore, Bounce, caller
<1>2. ASSUME next # NoNode PROVE next.path # Current.path
  <2>1. next.path \in Path
    BY <1>2, OffersAreHeaders DEF Inv, TypeOK
  <2>2. ASSUME next.path = Current.path PROVE Inside(next) /\ Relative(next) = << >>
    <3>1. StartsWith(next.path, next.path) /\ Len(next.path) \in Nat
      BY <2>1, StartsWithFacts, PathFacts
    <3>2. SubSeq(next.path, Len(next.path) + 1, Len(next.path)) = << >>
      BY <2>1, <3>1 DEF Path
    <3> QED
      BY <2>2, <3>1, <3>2 DEF Inside, Relative
  <2> QED
    BY <1>1, <1>2, <2>2 DEF LooksBehind
<1>3. next # NoNode => Beyond(next)
  BY <1>1, <1>2 DEF Place, Beyond
<1> QED
  BY <1>1, <1>3, ReturnPlace, LeavePlace DEF Fail

(***************************************************************************)
(* A node is entered: it is in a directory that is open, hence in the      *)
(* archive, or it is the last node, a directory, once more.  An earlier    *)
(* directory it cannot be: the last node is behind that, and the header    *)
(* behind the last node.                                                   *)
(***************************************************************************)
LEMMA EmitEntryPlace == ASSUME Inv, Place, Tree, EmitEntry PROVE Place'
<1>1. /\ epc = "loop" /\ next # NoNode /\ Belongs(next) /\ Inside(next)
      /\ UNCHANGED <<accepted, offered>> /\ next \in Offers /\ stack \in Seq(Offers) /\ stack # << >>
      /\ accepted \in Seq(Offers) /\ accepted # << >> /\ OpenNodes
  BY DEF EmitEntry, caller, Inv, TypeOK, Frames, Place, NodeLabels, BusyLabels, LooksBehind
<1>2. CASE Fail /\ UNCHANGED stack
  BY <1>1, <1>2, LeavePlace DEF Fail
<1>3. CASE stack' = Append(stack, next) /\ next' = NoNode /\ epc' = "open"
  <2>1. next = offered
    BY <1>1 DEF Inv, Passed, BusyLabels
  <2>2. /\ Len(stack) \in Nat \ {0} /\ Current \in Offers
        /\ \E j \in 1..Len(accepted) : Current = accepted[j]
    BY <1>1, FrontFacts DEF OpenNodes, Current
  <2>3. Below(next, Current)
    <3>1. /\ Current.path \in Path /\ next.path \in Path /\ Current.type = "directory"
          /\ Len(SubSeq(next.path, Len(Current.path) + 1, Len(next.path))) <= 1
          /\ StartsWith(next.path, Current.path)
      BY <1>1, <2>2, OffersAreHeaders DEF Belongs, Inside, Relative
    <3> QED
      BY <3>1, ChildFacts DEF Below
  <2>4. Ordered(LastAccepted.path, next.path)
    BY <1>1 DEF Place, Belongs, Beyond
  <2>5. Attached(next, Len(accepted))
    <3>1. PICK j \in 1..Len(accepted) : Current = accepted[j]
      BY <2>2
    <3>2. CASE Parent(next.path) = Current.path /\ next.path # LastAccepted.path
      BY <2>3, <3>1, <3>2 DEF Attached, Below, LastAccepted
    <3>3. CASE Current = LastAccepted
      BY <2>3, <3>1, <3>3 DEF Attached, Below, LastAccepted
    <3>4. CASE Beyond(next) /\ next.path = Current.path
      <4>1. /\ Len(accepted) \in Nat \ {0} /\ next.path \in Path /\ LastAccepted.path \in Path
        BY <1>1, FrontFacts, OffersAreHeaders DEF LastAccepted
      <4>2. Ordered(next.path, LastAccepted.path)
        <5>1. CASE j = Len(accepted)
          BY <3>1, <3>4, <4>1, <5>1, OrderedReflexive DEF LastAccepted
        <5>2. CASE j # Len(accepted)
          <6>1. j < Len(accepted) /\ Len(accepted) \in 1..Len(accepted)
            BY <3>1, <4>1, <5>2
          <6> QED
            BY <3>1, <3>4, <6>1 DEF Tree, LastAccepted
        <5> QED
          BY <5>1, <5>2
      <4> QED
        BY <3>4, <4>1, <4>2, OrderedAntisymmetric DEF Beyond
    <3>5. Beyond(next) \/ Current = LastAccepted
      BY <1>1 DEF Place
    <3> QED
      BY <2>3, <3>2, <3>3, <3>4, <3>5 DEF Below, Beyond
  <2>6. Fits(offered)'
    <3>1. UNCHANGED <<accepted, offered>> /\ accepted # << >>
      BY <1>1
    <3> QED
      BY <2>1, <2>4, <2>5, <3>1 DEF Fits, LastAccepted, Attached
  <2>7. /\ Len(stack') = Len(stack) + 1
        /\ \A i \in 1..Len(stack) : stack'[i] = stack[i]
    BY <1>1, <1>3, AppendProperties
  <2>8. OpenNodes'
    <3>1. \A i \in 1..Len(stack) : \E j \in 1..Len(accepted) : stack[i] = accepted[j]
      BY <1>1 DEF OpenNodes
    <3>2. \A i \in 1..(Len(stack) + 1) : i \in 1..Len(stack) \/ i = Len(stack) + 1
      BY <2>2
    <3> QED
      BY <1>1, <1>3, <2>7, <3>1, <3>2 DEF OpenNodes
  <2> QED
    BY <1>3, <2>6, <2>8 DEF Place, NodeLabels, BusyLabels, EndedLabels
<1> QED
  BY <1>2, <1>3 DEF EmitEntry, Goto

\* "nw.headers <- hdr": the first header is the root's.
LEMMA SendHeaderPlace == ASSUME Inv, Place, SendHeader PROVE Place'
<1>1. UNCHANGED <<accepted, offered>>
  BY DEF SendHeader
<1>2. CASE epc = "await" /\ epc' = "finish" /\ UNCHANGED stack
  <2>1. OpenNodes /\ Current = LastAccepted /\ accepted # << >>
    BY <1>2 DEF Place, NodeLabels
  <2>2. OpenNodes' /\ (Current = LastAccepted)' /\ accepted' # << >>
    BY <1>1, <1>2, <2>1 DEF OpenNodes, Current, LastAccepted
  <2> QED
    BY <1>2, <2>2 DEF Place, NodeLabels, BusyLabels, EndedLabels
<1>3. CASE epc = "first" /\ epc' = "open" /\ stack' = <<offered>> /\ offered.path = Root
  <2>1. accepted = << >>
    BY <1>3 DEF Place
  <2>2. Fits(offered)'
    BY <1>1, <1>3, <2>1 DEF Fits
  <2>3. OpenNodes'
    BY <1>3 DEF OpenNodes
  <2> QED
    BY <1>3, <2>2, <2>3 DEF Place, NodeLabels, BusyLabels, EndedLabels
<1>4. CASE epc' = "deposit" /\ UNCHANGED stack
  BY <1>1, <1>4, LeavePlace
<1> QED
  BY <1>2, <1>3, <1>4 DEF SendHeader, Goto, Fail

\* WriteHeader returns nil: the header is one more node of the tree.
LEMMA HeaderDonePlace == ASSUME Inv, Place, Tree, HeaderDone PROVE Place' /\ Tree'
<1> DEFINE n == Len(accepted)
<1>1. /\ epc = "yield" /\ epc' = "await" /\ UNCHANGED <<stack, offered>>
      /\ accepted \in Seq(Offers) /\ offered \in Offers /\ stack \in Seq(Offers) /\ stack # << >>
      /\ accepted' = Append(accepted, offered) /\ Current = offered /\ OpenNodes /\ Fits(offered)
  BY DEF HeaderDone, Goto, Inv, TypeOK, Turns, Frames, Place, NodeLabels
<1>2. /\ n \in Nat /\ Len(accepted') = n + 1 /\ accepted'[n + 1] = offered
      /\ \A i \in 1..n : accepted'[i] = accepted[i]
      /\ accepted = << >> <=> n = 0
  BY <1>1, AppendProperties, EmptySeq
<1>3. Len(stack) \in Nat \ {0} /\ stack[Len(stack)] = offered
  BY <1>1, FrontFacts DEF Current
<1> HIDE DEF n
<1>4. accepted' # << >>
  BY <1>1
<1>5. (Current = LastAccepted)'
  BY <1>1, <1>2, <1>3 DEF Current, LastAccepted
<1>6. OpenNodes'
  <2> SUFFICES ASSUME NEW i \in 1..Len(stack)
               PROVE  \E j \in 1..(n + 1) : stack[i] = accepted'[j]
    BY <1>1, <1>2 DEF OpenNodes
  <2>1. CASE i = Len(stack)
    BY <1>2, <1>3, <2>1
  <2>2. CASE i # Len(stack)
    <3>1. PICK j \in 1..n : stack[i] = accepted[j]
      BY <1>1, <2>2 DEF OpenNodes, n
    <3> QED
      BY <1>2, <3>1
  <2> QED
    BY <2>1, <2>2
<1>7. Place'
  BY <1>1, <1>4, <1>5, <1>6 DEF Place, NodeLabels, BusyLabels, EndedLabels
<1>8. accepted'[1].path = Root
  <2>1. CASE n = 0
    BY <1>1, <1>2, <2>1 DEF Fits
  <2>2. CASE n # 0
    BY <1>2, <2>2 DEF Tree
  <2> QED
    BY <2>1, <2>2
<1>9. ASSUME NEW i \in 1..(n + 1), NEW j \in 1..(n + 1), i < j
      PROVE  Ordered(accepted'[i].path, accepted'[j].path)
  <2>1. CASE j \in 1..n
    <3>1. i \in 1..n
      BY <1>2, <1>9, <2>1
    <3> QED
      BY <1>2, <1>9, <2>1, <3>1 DEF Tree, n
  <2>2. CASE j = n + 1
    <3>1. i \in 1..n /\ n \in 1..n /\ n # 0 /\ accepted # << >>
      BY <1>2, <1>9, <2>2
    <3>2. Ordered(accepted[n].path, offered.path)
      BY <1>1, <3>1 DEF Fits, LastAccepted, n
    <3>3. accepted[i].path \in Path /\ accepted[n].path \in Path /\ offered.path \in Path
      BY <1>1, <3>1, OffersAreHeaders DEF n
    <3>4. i = n \/ Ordered(accepted[i].path, accepted[n].path)
      BY <1>2, <3>1 DEF Tree, n
    <3> QED
      BY <1>2, <2>2, <3>1, <3>2, <3>3, <3>4, OrderedTransitive
  <2> QED
    BY <1>2, <1>9, <2>1, <2>2
<1>10. ASSUME NEW i \in 1..n PROVE Attached(accepted[i + 1], i)'
  <2>1. \A j \in 1..i : accepted'[j] = accepted[j]
    BY <1>2, <1>10
  <2>2. i \in 1..i
    BY <1>2, <1>10
  <2>3. CASE i = n
    <3>1. Attached(offered, n) /\ accepted'[i + 1] = offered
      BY <1>1, <1>2, <1>10, <2>3 DEF Fits, n
    <3> QED
      BY <2>1, <2>2, <2>3, <3>1 DEF Attached
  <2>4. CASE i # n
    <3>1. i \in 1..(n - 1) /\ i + 1 \in 1..n
      BY <1>2, <1>10, <2>4
    <3>2. Attached(accepted[i + 1], i) /\ accepted'[i + 1] = accepted[i + 1]
      BY <1>2, <3>1 DEF Tree, n
    <3> QED
      BY <2>1, <2>2, <3>2 DEF Attached
  <2> QED
    BY <2>3, <2>4
<1>11. Tree'
  <2>1. Len(accepted') - 1 = n
    BY <1>2
  <2> QED
    BY <1>2, <1>8, <1>9, <1>10, <2>1 DEF Tree
<1> QED
  BY <1>7, <1>11

\* The caller's other steps announce nothing that the emitter knows of.
LEMMA CallerPlace ==
  ASSUME Inv, Place,
         ReceiveError \/ CloseReturns \/ CallerStep \/ UNCHANGED vars
  PROVE  Place'
<1>1. CASE ReceiveError
  BY <1>1, LeavePlace DEF ReceiveError, Goto, Inv, Verdicts
<1>2. CASE CloseReturns \/ CallerStep \/ UNCHANGED vars
  <2>1. /\ UNCHANGED <<epc, stack, next, verdict, accepted>>
        /\ epc \in {"open", "yield"} => UNCHANGED offered
    BY <1>2 DEF CloseReturns, CallerStep, WriteHeader, Write, Close, vars, content, emitter, caller,
                Inv, Turns, EndedLabels
  <2> QED
    BY <2>1 DEF Place, OpenNodes, Fits, LastAccepted, Attached, Beyond, Current
<1> QED
  BY <1>1, <1>2

LEMMA PlaceNext == Inv /\ Place /\ Tree /\ [Next]_vars => Place' /\ Tree'
<1> SUFFICES ASSUME Inv, Place, Tree, [Next]_vars PROVE Place' /\ Tree'
  OBVIOUS
<1>1. CASE HeaderDone
  BY <1>1, HeaderDonePlace
<1>2. CASE ~HeaderDone
  <2>1. UNCHANGED accepted
    BY <1>2 DEF Next, EmitterStep, CallProceeds, CallerStep, Finished, vars, caller, EmitOpening,
       Finish, NoMore, Bounce, EmitEntry, RefuseNode, EmitEntryClose, CloseErrors, SeeClosed,
       SendHeader, ReceiveError, CloseReturns, WriteHeader, Write, Close
  <2>2. Place'
    BY <1>2, EmitterPlace, EndNodePlace, EmitEntryPlace, SendHeaderPlace, CallerPlace
       DEF Next, EmitterStep, CallProceeds, Finished
  <2> QED
    BY <2>1, <2>2, TreeKept
<1> QED
  BY <1>1, <1>2

(***************************************************************************)
(* Whatever a caller announces, in whatever order: if no call has returned *)
(* an error and Close has returned, what was announced is a tree, in       *)
(* canonical order and with the parent of each node in front of it         *)
(* (writer.go:63-69, 203-245).                                             *)
(***************************************************************************)
THEOREM SoundSuccess == Spec => []SuccessMeansSound
<1>1. Init => Place /\ Tree
  <2> SUFFICES ASSUME Init PROVE Place /\ Tree
    OBVIOUS
  <2>1. epc = "first" /\ accepted = << >> /\ Len(accepted) = 0
    BY DEF Init
  <2> QED
    BY <2>1 DEF Place, Tree, NodeLabels, BusyLabels, EndedLabels
<1>2. Inv /\ Place /\ Tree => SuccessMeansSound
  <2> SUFFICES ASSUME Inv, Place, Tree, Succeeded PROVE SuccessMeansSound
    BY DEF SuccessMeansSound
  <2>1. epc \in EndedLabels /\ verdict = "none"
    BY DEF Succeeded, Inv, TypeOK, Turns, Verdicts
  <2>2. accepted # << >>
    BY <2>1 DEF Place
  <2>3. ASSUME NEW i \in 1..(Len(accepted) - 1)
        PROVE  Ordered(accepted[i].path, accepted[i + 1].path)
    <3>1. i \in 1..Len(accepted) /\ i + 1 \in 1..Len(accepted) /\ i < i + 1
      BY <2>3, LenProperties DEF Inv, TypeOK
    <3> QED
      BY <3>1 DEF Tree
  <2> QED
    BY <2>2, <2>3 DEF Tree, SuccessMeansSound
<1> QED
  BY <1>1, <1>2, Invariance, PlaceNext, PTL DEF Spec

----------------------------------------------------------------------------
(***************************************************************************)
(* The data of an archive.                                                 *)
(***************************************************************************)
\* What is written: packets, lengths and data.
Text ==
  {Magic, "(", ")", "type", "regular", "symlink", "directory", "executable", "", "contents",
   "target", "entry", "name", "node", ".", Padding} \cup Name \cup {h.target : h \in Offers}
Word == [tok : Text \cup {Oversized}, size : Nat, padded : BOOLEAN]

\* The data that is written and the data that is left are those of the files announced.
Counted ==
  /\ out \in Seq(Word) /\ IsFiniteSet(DataOf(accepted))
  /\ failing => verdict = "err" \/ err = "err"
  /\ ~failing =>
       /\ epc \in {"first", "open", "loop", "entryClose"} => left = 0
       /\ epc \in EndedLabels /\ verdict = "none" => left = 0
       /\ epc = "yield" => left = offered.size
       /\ Cardinality(DataIn(out)) + (IF epc = "yield" THEN 0 ELSE left)
            = Cardinality(DataOf(accepted))

\* The data in a sequence of words is that of its parts.
LEMMA DataConcat ==
  ASSUME NEW u \in Seq(Word), NEW v \in Seq(Word)
  PROVE  /\ u \o v \in Seq(Word) /\ Len(u) \in Nat /\ Len(v) \in Nat
         /\ DataIn(u) \subseteq 1..Len(u) /\ IsFiniteSet(DataIn(u))
         /\ DataIn(u \o v) = DataIn(u) \cup {Len(u) + i : i \in DataIn(v)}
<1>1. /\ u \o v \in Seq(Word) /\ Len(u) \in Nat /\ Len(v) \in Nat /\ Len(u \o v) = Len(u) + Len(v)
      /\ \A i \in 1..(Len(u) + Len(v)) : (u \o v)[i] = IF i <= Len(u) THEN u[i] ELSE v[i - Len(u)]
      /\ DOMAIN (u \o v) = 1..(Len(u) + Len(v)) /\ DOMAIN u = 1..Len(u) /\ DOMAIN v = 1..Len(v)
  BY ConcatProperties, LenProperties
<1>2. DataIn(u) \subseteq 1..Len(u) /\ IsFiniteSet(DataIn(u))
  <2>1. DataIn(u) \subseteq 1..Len(u)
    BY <1>1 DEF DataIn
  <2>2. IsFiniteSet(1..Len(u))
    <3>1. 1 \in Int /\ Len(u) \in Int
      BY <1>1
    <3> QED
      BY <3>1, FS_Interval
  <2> QED
    BY <2>1, <2>2, FS_Subset
<1> DEFINE w == u \o v
<1>3. /\ DOMAIN w = 1..(Len(u) + Len(v)) 
      /\ \A i \in 1..(Len(u) + Len(v)) : w[i] = IF i <= Len(u) THEN u[i] ELSE v[i - Len(u)]
  BY <1>1
<1> HIDE DEF w
<1>4. ASSUME NEW i \in DataIn(w) PROVE i \in DataIn(u) \cup {Len(u) + j : j \in DataIn(v)}
  <2>1. i \in 1..(Len(u) + Len(v)) /\ w[i] = W(Oversized)
    BY <1>3 DEF DataIn
  <2>2. CASE i <= Len(u)
    BY <1>1, <1>3, <2>1, <2>2 DEF DataIn
  <2>3. CASE ~(i <= Len(u))
    <3>1. i - Len(u) \in 1..Len(v) /\ Len(u) + (i - Len(u)) = i
      BY <1>1, <2>1, <2>3
    <3>2. v[i - Len(u)] = W(Oversized)
      BY <1>3, <2>1, <2>3
    <3>3. i - Len(u) \in DataIn(v)
      BY <1>1, <3>1, <3>2 DEF DataIn
    <3> QED
      BY <3>1, <3>3
  <2> QED
    BY <2>2, <2>3
<1>5. ASSUME NEW i \in DataIn(u) PROVE i \in DataIn(w)
  <2>1. i \in 1..Len(u) /\ i \in 1..(Len(u) + Len(v)) /\ i <= Len(u) /\ u[i] = W(Oversized)
    BY <1>1 DEF DataIn
  <2> QED
    BY <1>3, <2>1 DEF DataIn
<1>6. ASSUME NEW j \in DataIn(v) PROVE Len(u) + j \in DataIn(w)
  <2>1. /\ j \in 1..Len(v) /\ v[j] = W(Oversized)
        /\ Len(u) + j \in 1..(Len(u) + Len(v)) /\ ~(Len(u) + j <= Len(u)) /\ (Len(u) + j) - Len(u) = j
    BY <1>1 DEF DataIn
  <2> QED
    BY <1>3, <2>1 DEF DataIn
<1>7. DataIn(w) = DataIn(u) \cup {Len(u) + j : j \in DataIn(v)}
  BY <1>4, <1>5, <1>6
<1> QED
  BY <1>1, <1>2, <1>7 DEF w

LEMMA NoDataConcat ==
  ASSUME NEW u \in Seq(Word), NEW v \in Seq(Word), DataIn(v) = {}
  PROVE  u \o v \in Seq(Word) /\ DataIn(u \o v) = DataIn(u)
<1>1. /\ u \o v \in Seq(Word)
      /\ DataIn(u \o v) = DataIn(u) \cup {Len(u) + i : i \in DataIn(v)}
  BY DataConcat
<1>2. {Len(u) + i : i \in DataIn(v)} = {}
  OBVIOUS
<1> QED
  BY <1>1, <1>2

\* Texts are no data.
LEMMA TextIsNoData ==
  ASSUME NEW toks \in Seq(Text)
  PROVE  Words(toks) \in Seq(Word) /\ DataIn(Words(toks)) = {}
<1>1. Len(toks) \in Nat /\ DOMAIN toks = 1..Len(toks) /\ \A i \in 1..Len(toks) : toks[i] \in Text
  BY LenProperties, ElementOfSeq
<1>t. Oversized \notin Text
  BY DataIsNoText DEF Text, Oversized, Magic, Padding
<1>2. ASSUME NEW i \in 1..Len(toks) PROVE W(toks[i]) \in Word /\ W(toks[i]) # W(Oversized)
  <2>1. toks[i] \in Text /\ toks[i] # Oversized
    BY <1>1, <1>t
  <2> QED
    BY <2>1 DEF W, Word
<1>3. Words(toks) \in Seq(Word) 
  BY <1>1, <1>2 DEF Words
<1> QED
  BY <1>1, <1>2, <1>3 DEF Words, DataIn

\* Short sequences.
LEMMA ShortSequences ==
  ASSUME NEW S, NEW a \in S
  PROVE  /\ <<a>> \in Seq(S)
         /\ \A b \in S : <<a, b>> \in Seq(S)
         /\ \A b, c \in S : <<a, b, c>> \in Seq(S)
         /\ \A b, c, d, e \in S : <<a, b, c, d, e>> \in Seq(S)
OBVIOUS

\* What the emitter writes in front of a node is no data.
LEMMA OpeningIsNoData ==
  ASSUME NEW h \in Offers
  PROVE  Opening(h) \in Seq(Word) /\ DataIn(Opening(h)) = {}
<1>1. h.type \in {"regular", "symlink", "directory"} /\ h.size \in Nat
  BY OffersAreHeaders
<1>2. /\ "(" \in Text /\ "type" \in Text /\ h.type \in Text /\ "target" \in Text /\ h.target \in Text
      /\ "executable" \in Text /\ "" \in Text /\ "contents" \in Text
  BY <1>1 DEF Text
<1> DEFINE start == Words(<<"(", "type", h.type>>)
<1>3. start \in Seq(Word) /\ DataIn(start) = {}
  <2>1. <<"(", "type", h.type>> \in Seq(Text)
    BY <1>2, ShortSequences
  <2> QED
    BY <2>1, TextIsNoData
<1> DEFINE toks == IF h.executable THEN <<"executable", "", "contents">> ELSE <<"contents">>
           file == Words(toks) \o <<LengthWord(h)>>
           link == Words(<<"target", h.target>>)
<1>7. Opening(h) = start \o (CASE h.type = "regular" -> file [] h.type = "symlink" -> link
                               [] h.type = "directory" -> << >>)
  BY DEF Opening
<1> HIDE DEF start, file, link
<1>4. CASE h.type = "directory"
  <2>1. Opening(h) = start \o << >>
    BY ONLY <1>4, <1>7
  <2> QED
    BY <1>3, <2>1
<1>5. CASE h.type = "symlink"
  <2>1. Opening(h) = start \o Words(<<"target", h.target>>)
    BY ONLY <1>5, <1>7 DEF link
  <2>2. <<"target", h.target>> \in Seq(Text)
    BY <1>2, ShortSequences
  <2>3. /\ Words(<<"target", h.target>>) \in Seq(Word)
        /\ DataIn(Words(<<"target", h.target>>)) = {}
    BY ONLY <2>2, TextIsNoData
  <2> HIDE DEF toks
  <2> DEFINE more == Words(<<"target", h.target>>)
  <2> HIDE DEF more
  <2>4. Opening(h) = start \o more /\ more \in Seq(Word) /\ DataIn(more) = {}
    BY ONLY <2>1, <2>3 DEF more
  <2> QED
    BY ONLY <1>3, <2>4, NoDataConcat
<1>6. CASE h.type = "regular"
  <2>1. Opening(h) = start \o (Words(toks) \o <<LengthWord(h)>>)
    BY ONLY <1>6, <1>7 DEF file
  <2>2. toks \in Seq(Text)
    <3>1. <<"executable", "", "contents">> \in Seq(Text) /\ <<"contents">> \in Seq(Text)
      BY <1>2, ShortSequences
    <3> QED
      BY <3>1
  <2>3. LengthWord(h) \in Word /\ LengthWord(h) # W(Oversized)
    <3>1. (IF h.size = 0 THEN "" ELSE Oversized) \in Text \cup {Oversized}
      BY <1>2
    <3>2. (h.size % 2 = 1) \in BOOLEAN
      OBVIOUS
    <3>3. LengthWord(h) \in Word
      BY <1>1, <3>1, <3>2 DEF LengthWord, Word
    <3>4. SUFFICES ASSUME LengthWord(h) = W(Oversized) PROVE FALSE
      BY <3>3
    <3>5. LengthWord(h).size = W(Oversized).size /\ LengthWord(h).tok = W(Oversized).tok
      BY <3>4
    <3>6. h.size = 0 /\ (IF h.size = 0 THEN "" ELSE Oversized) = Oversized
      BY <3>5 DEF LengthWord, W
    <3> QED
      BY <3>6 DEF Oversized
  <2> HIDE DEF toks
  <2>4. <<LengthWord(h)>> \in Seq(Word) /\ DataIn(<<LengthWord(h)>>) = {}
    <3> DEFINE x == LengthWord(h)
    <3>1. x \in Word /\ x # W(Oversized)
      BY <2>3
    <3> HIDE DEF x
    <3>2. <<x>> \in Seq(Word) /\ Len(<<x>>) = 1 /\ <<x>>[1] = x
      BY <3>1
    <3>3. DataIn(<<x>>) = {}
      BY <3>1, <3>2 DEF DataIn
    <3> QED
      BY <3>2, <3>3 DEF x
  <2>5. Words(toks) \in Seq(Word) /\ DataIn(Words(toks)) = {}
    BY <2>2, TextIsNoData
  <2>6. Words(toks) \o <<LengthWord(h)>> \in Seq(Word) /\ DataIn(Words(toks) \o <<LengthWord(h)>>) = {}
    BY <2>4, <2>5, NoDataConcat
  <2> DEFINE more == Words(toks) \o <<LengthWord(h)>>
  <2> HIDE DEF more
  <2>7. Opening(h) = start \o more /\ more \in Seq(Word) /\ DataIn(more) = {}
    BY ONLY <2>1, <2>6 DEF more
  <2> QED
    BY ONLY <1>3, <2>7, NoDataConcat
<1> QED
  BY <1>1, <1>4, <1>5, <1>6

\* What Write writes is.
LEMMA DataAdded ==
  ASSUME NEW n \in Nat, NEW u \in Seq(Word), NEW v, v = [i \in 1..n |-> W(Oversized)]
  PROVE  u \o v \in Seq(Word) /\ Cardinality(DataIn(u \o v)) = Cardinality(DataIn(u)) + n
<1>1. v \in Seq(Word) /\ DataIn(v) = 1..n
  <2>1. W(Oversized) \in Word
    BY DEF W, Word
  <2> QED
    BY <2>1 DEF DataIn
<1>2. /\ u \o v \in Seq(Word) /\ Len(u) \in Nat /\ DataIn(u) \subseteq 1..Len(u) /\ IsFiniteSet(DataIn(u))
      /\ DataIn(u \o v) = DataIn(u) \cup {Len(u) + i : i \in 1..n}
  BY <1>1, DataConcat
<1>3. {Len(u) + i : i \in 1..n} = (Len(u) + 1)..(Len(u) + n)
  <2>1. ASSUME NEW j \in (Len(u) + 1)..(Len(u) + n) PROVE j \in {Len(u) + i : i \in 1..n}
    <3>1. j - Len(u) \in 1..n /\ Len(u) + (j - Len(u)) = j
      BY <1>2
    <3> QED
      BY <3>1
  <2>2. ASSUME NEW i \in 1..n PROVE Len(u) + i \in (Len(u) + 1)..(Len(u) + n)
    BY <1>2
  <2> QED
    BY <2>1, <2>2
<1>4. /\ IsFiniteSet((Len(u) + 1)..(Len(u) + n))
      /\ Cardinality((Len(u) + 1)..(Len(u) + n)) = n
  <2>1. Len(u) + 1 \in Int /\ Len(u) + n \in Int
    BY <1>2
  <2>2. (IF Len(u) + 1 > Len(u) + n THEN 0 ELSE (Len(u) + n) - (Len(u) + 1) + 1) = n
    BY <1>2
  <2> QED
    BY <2>1, <2>2, FS_Interval
<1>5. DataIn(u) \cap ((Len(u) + 1)..(Len(u) + n)) = {}
  BY <1>2
<1>6. Cardinality(DataIn(u)) \in Nat
  BY <1>2, FS_CardinalityType
<1> DEFINE more == (Len(u) + 1)..(Len(u) + n)
<1>7. IsFiniteSet(more) /\ Cardinality(more) = n /\ DataIn(u) \cap more = {}
      /\ DataIn(u \o v) = DataIn(u) \cup more
  BY <1>2, <1>3, <1>4, <1>5
<1> HIDE DEF more
<1>8. Cardinality(DataIn(u) \cup more) = Cardinality(DataIn(u)) + Cardinality(more) - Cardinality({})
  <2>1. IsFiniteSet(DataIn(u)) /\ IsFiniteSet(more)
    BY <1>2, <1>7
  <2>2. Cardinality(DataIn(u) \cup more)
          = Cardinality(DataIn(u)) + Cardinality(more) - Cardinality(DataIn(u) \cap more)
    BY ONLY <2>1, FS_Union
  <2> QED
    BY <1>7, <2>2
<1>9. Cardinality({}) = 0
  BY FS_EmptySet
<1>10. Cardinality(DataIn(u \o v)) = Cardinality(DataIn(u)) + n
  <2> DEFINE before == Cardinality(DataIn(u))
  <2>1. before \in Nat /\ Cardinality(DataIn(u \o v)) = before + n - 0
    BY <1>6, <1>7, <1>8, <1>9
  <2> HIDE DEF before
  <2>2. before + n - 0 = before + n
    BY <2>1
  <2> QED
    BY <2>1, <2>2 DEF before
<1> QED
  BY <1>2, <1>10

\* The data of one more file.
LEMMA DataAnnounced ==
  ASSUME NEW hs \in Seq(Offers), NEW h \in Offers, IsFiniteSet(DataOf(hs))
  PROVE  /\ IsFiniteSet(DataOf(Append(hs, h)))
         /\ Cardinality(DataOf(Append(hs, h))) = Cardinality(DataOf(hs)) + h.size
<1> DEFINE k == Len(hs) + 1
           more == {k} \X (1..h.size)
           longer == Append(hs, h)
<1>1. h.size \in Nat /\ Len(hs) \in Nat /\ DOMAIN hs = 1..Len(hs)
  BY OffersAreHeaders, LenProperties
<1>2. /\ DOMAIN longer = 1..k /\ longer[k] = h /\ \A i \in 1..Len(hs) : longer[i] = hs[i]
  BY <1>1, AppendProperties, LenProperties
<1>3. IsFiniteSet(more) /\ Cardinality(more) = h.size
  <2>1. IsFiniteSet({k}) /\ Cardinality({k}) = 1
    BY FS_Singleton
  <2>2. IsFiniteSet(1..h.size) /\ Cardinality(1..h.size) = h.size
    <3>1. 1 \in Int /\ h.size \in Int /\ (IF 1 > h.size THEN 0 ELSE h.size - 1 + 1) = h.size
      BY <1>1
    <3> QED
      BY <3>1, FS_Interval
  <2>3. 1 * h.size = h.size
    BY <1>1
  <2>4. IsFiniteSet(more) /\ Cardinality(more) = Cardinality({k}) * Cardinality(1..h.size)
    BY <2>1, <2>2, FS_Product
  <2> QED
    BY <2>1, <2>2, <2>3, <2>4
<1> HIDE DEF longer
<1>4. DataOf(longer) = DataOf(hs) \cup more
  <2>1. \A i \in 1..k : i \in 1..Len(hs) \/ i = k
    BY <1>1
  <2>2. 1..Len(hs) \subseteq 1..k /\ k \in 1..k
    BY <1>1
  <2> QED
    BY <1>1, <1>2, <2>1, <2>2 DEF DataOf
<1>5. DataOf(hs) \cap more = {}
  <2>1. k \notin 1..Len(hs)
    BY <1>1
  <2> QED
    BY <1>1, <2>1 DEF DataOf
<1>6. Cardinality(DataOf(hs)) \in Nat
  BY FS_CardinalityType
<1> HIDE DEF more
<1>7. /\ IsFiniteSet(DataOf(hs) \cup more)
      /\ Cardinality(DataOf(hs) \cup more)
           = Cardinality(DataOf(hs)) + Cardinality(more) - Cardinality({})
  <2>1. IsFiniteSet(DataOf(hs)) /\ IsFiniteSet(more) /\ DataOf(hs) \cap more = {}
    BY <1>3, <1>5
  <2>2. /\ IsFiniteSet(DataOf(hs) \cup more)
        /\ Cardinality(DataOf(hs) \cup more)
             = Cardinality(DataOf(hs)) + Cardinality(more) - Cardinality(DataOf(hs) \cap more)
    BY ONLY <2>1, FS_Union
  <2> QED
    BY <2>1, <2>2
<1>8. Cardinality({}) = 0
  BY FS_EmptySet
<1>9. IsFiniteSet(DataOf(longer)) /\ Cardinality(DataOf(longer)) = Cardinality(DataOf(hs)) + h.size
  BY <1>1, <1>3, <1>4, <1>6, <1>7, <1>8
<1> QED
  BY <1>9 DEF longer

(***************************************************************************)
(* A step that writes no data, or that fails, and that leaves what is      *)
(* left of the file at hand.                                               *)
(***************************************************************************)
LEMMA CountKept ==
  ASSUME Counted, UNCHANGED <<left, accepted>>, epc # "yield", epc' # "yield",
         out' \in Seq(Word), failing => verdict' = "err" \/ err' = "err",
         \/ failing' = TRUE /\ (verdict' = "err" \/ err' = "err")
         \/ /\ UNCHANGED failing /\ DataIn(out') = DataIn(out)
            /\ ~failing =>
                 /\ epc' \in {"first", "open", "loop", "entryClose"} => left = 0
                 /\ epc' \in EndedLabels /\ verdict' = "none" => left = 0
  PROVE  Counted'
BY DEF Counted

\* A step that hands out nothing and writes nothing.
LEMMA QuietCount ==
  ASSUME Counted, UNCHANGED <<out, left, accepted, failing>>, epc # "yield", epc' # "yield",
         failing => verdict' = "err" \/ err' = "err",
         ~failing =>
           /\ epc' \in {"first", "open", "loop", "entryClose"} => left = 0
           /\ epc' \in EndedLabels /\ verdict' = "none" => left = 0
  PROVE  Counted'
<1>1. out' \in Seq(Word) /\ DataIn(out') = DataIn(out)
  BY DEF Counted
<1> QED
  BY <1>1, CountKept

\* A packet that is written, or a failing write.
LEMMA PutCount ==
  ASSUME Counted, NEW toks \in Seq(Text), UNCHANGED <<left, accepted, err>>,
         epc # "yield", epc' # "yield",
         \/ /\ Put(Words(toks)) /\ (verdict' = verdict \/ verdict' = "err")
            /\ ~failing /\ verdict' # "err" => left = 0
            /\ epc' = "deposit" \/ verdict' = verdict
            /\ epc' # "deposit" => left = 0 \/ failing
         \/ PutFails /\ Fail
  PROVE  Counted'
<1>1. CASE PutFails /\ Fail
  <2>1. out' \in Seq(Word) /\ failing' = TRUE /\ verdict' = "err"
    BY <1>1 DEF Counted, PutFails, Fail
  <2> QED
    BY <2>1, CountKept
<1>2. CASE ~(PutFails /\ Fail)
  <2>1. Words(toks) \in Seq(Word) /\ DataIn(Words(toks)) = {}
    BY TextIsNoData
  <2>2. out \in Seq(Word) /\ out' = out \o Words(toks) /\ UNCHANGED failing
    BY <1>2 DEF Put, Counted
  <2>3. out' \in Seq(Word) /\ DataIn(out') = DataIn(out)
    BY <2>1, <2>2, NoDataConcat
  <2>4. failing => verdict' = "err" \/ err' = "err"
    BY <1>2 DEF Counted
  <2> QED
    BY <1>2, <2>2, <2>3, <2>4, CountKept DEF EndedLabels
<1> QED
  BY <1>1, <1>2

LEMMA InitCounted == Init => Counted
<1> SUFFICES ASSUME Init PROVE Counted
  OBVIOUS
<1>1. out \in Seq(Word) /\ DataIn(out) = {}
  <2>1. Magic \in Text /\ <<Magic>> \in Seq(Text)
    BY ShortSequences DEF Text
  <2> QED
    BY <2>1, TextIsNoData DEF Init
<1>2. DataOf(accepted) = {}
  BY DEF Init, DataOf
<1>3. IsFiniteSet({}) /\ Cardinality({}) = 0
  BY FS_EmptySet
<1>4. left = 0 /\ ~failing /\ epc = "first" /\ 0 + 0 = 0
  BY DEF Init
<1> QED
  BY <1>1, <1>2, <1>3, <1>4 DEF Counted

LEMMA EmitOpeningCount == Inv /\ Counted /\ EmitOpening => Counted'
<1> SUFFICES ASSUME Inv, Counted, EmitOpening PROVE Counted'
  OBVIOUS
<1>1. epc = "open" /\ accepted' = accepted /\ offered' = offered /\ err' = err
  BY DEF EmitOpening, caller
<1>2. Current \in Offers /\ Current.size \in Nat /\ Current = offered
  BY <1>1, CurrentType DEF Inv, Frames, NodeLabels
<1>3. CASE PutFails /\ Fail /\ UNCHANGED content
  <2>1. /\ out' \in Seq(Word) /\ failing' = TRUE /\ verdict' = "err" /\ left' = left
        /\ epc' = "deposit"
    BY <1>3 DEF Counted, PutFails, Fail, content
  <2> QED
    BY <1>1, <2>1, CountKept
<1>4. CASE Put(Opening(Current)) /\ left' = Current.size /\ Goto("yield")
  <2>1. Opening(Current) \in Seq(Word) /\ DataIn(Opening(Current)) = {}
    BY <1>2, OpeningIsNoData
  <2>2. out \in Seq(Word) /\ out' = out \o Opening(Current) /\ failing' = failing
    BY <1>4 DEF Put, Counted
  <2>3. out' \in Seq(Word) /\ DataIn(out') = DataIn(out)
    BY <2>1, <2>2, NoDataConcat
  <2>4. epc' = "yield" /\ verdict' = verdict /\ left' = offered'.size
    BY <1>1, <1>2, <1>4 DEF Goto
  <2>5. ~failing => left = 0
    BY <1>1 DEF Counted
  <2> QED
    BY <1>1, <2>2, <2>3, <2>4, <2>5 DEF Counted, EndedLabels
<1> QED
  BY <1>3, <1>4 DEF EmitOpening

\* The emitter closes a file, a node or an entry, or begins an entry.
LEMMA EmitterCount ==
  Inv /\ Counted /\ (Finish \/ NoMore \/ Bounce \/ EmitEntry \/ EmitEntryClose) => Counted'
<1> SUFFICES ASSUME Inv, Counted, Finish \/ NoMore \/ Bounce \/ EmitEntry \/ EmitEntryClose
             PROVE Counted'
  OBVIOUS
<1>1. /\ UNCHANGED <<left, accepted, err>> /\ epc # "yield" 
  BY DEF Finish, NoMore, Bounce, EmitEntry, EmitEntryClose, content, caller
<1>2. << >> \in Seq(Text) /\ <<Padding>> \in Seq(Text) /\ <<")">> \in Seq(Text)
  <2>1. Padding \in Text /\ ")" \in Text
    BY DEF Text
  <2> QED
    BY <2>1, ShortSequences
<1>3. epc \in {"loop", "entryClose"} => left = 0 \/ failing
  BY DEF Counted
<1>4. CASE Finish
  <2>1. CASE left > 0 /\ Fail /\ UNCHANGED <<out, failing>>
    BY <1>1, <2>1, QuietCount DEF Fail, EndedLabels
  <2> DEFINE toks == IF odd THEN <<Padding>> ELSE << >>
  <2>2. toks \in Seq(Text)
    BY <1>2
  <2> HIDE DEF toks
  <2>3. CASE left = 0 /\ Put(Words(toks)) /\ Goto("loop")
    <3>1. epc' = "loop" /\ verdict' = verdict
      BY <2>3 DEF Goto
    <3> QED
      BY <1>1, <2>2, <2>3, <3>1, PutCount
  <2>4. CASE PutFails /\ Fail
    BY <1>1, <2>2, <2>4, PutCount DEF Fail
  <2> QED
    BY <1>4, <2>1, <2>3, <2>4 DEF Finish, toks
<1>5. CASE NoMore \/ Bounce
  <2>1. epc = "loop" /\ stack # << >>
    BY <1>5 DEF NoMore, Bounce, Inv, Frames, NodeLabels, BusyLabels
  <2>2. CASE Put(Words(<<")">>)) /\ Return
    <3>1. \/ epc' \in {"entryClose", "closeErrors"} /\ verdict' = verdict
          \/ epc' = "deposit" /\ verdict' = "err"
      BY <2>1, <2>2, ReturnStep DEF Inv
    <3> QED
      BY <1>1, <1>2, <1>3, <2>1, <2>2, <3>1, PutCount
  <2>3. CASE PutFails /\ Fail
    BY <1>1, <1>2, <2>3, PutCount DEF Fail
  <2> QED
    BY <1>5, <2>2, <2>3 DEF NoMore, Bounce
<1>6. CASE EmitEntryClose
  <2>1. CASE Put(Words(<<")">>)) /\ Goto("loop")
    <3>1. epc' = "loop" /\ verdict' = verdict /\ epc = "entryClose"
      BY <1>6, <2>1 DEF Goto, EmitEntryClose
    <3> QED
      BY <1>1, <1>2, <1>3, <2>1, <3>1, PutCount
  <2>2. CASE PutFails /\ Fail
    BY <1>1, <1>2, <2>2, PutCount DEF Fail
  <2> QED
    BY <1>6, <2>1, <2>2 DEF EmitEntryClose
<1>7. CASE EmitEntry
  <2> DEFINE toks == <<"entry", "(", "name", NodeName(next), "node">>
  <2>1. epc = "loop" /\ next \in Offers /\ ~LooksBehind(next)
    BY <1>7 DEF EmitEntry, Inv, TypeOK
  <2>2. NodeName(next) \in Text
    <3>1. Current.path \in Path /\ next.path \in Path
      BY <2>1, CurrentType, OffersAreHeaders DEF NodeLabels, BusyLabels
    <3>2. StartsWith(next.path, Current.path)
      BY <2>1 DEF LooksBehind, Inside
    <3>3. Relative(next) # << >> => Relative(next)[1] \in Name
      <4> DEFINE m == Len(Current.path) + 1
                 n == Len(next.path)
      <4>1. m \in Nat \ {0} /\ n \in Nat
        BY <3>1, PathFacts
      <4>2. SubSeq(next.path, m, n) \in Seq(Name)
        <5>1. m >= 1 /\ n <= Len(next.path)
          BY <4>1
        <5> QED
          BY <3>1, <4>1, <5>1, SubSeqProperties DEF Path
      <4>3. Relative(next) \in Seq(Name)
        BY <4>2 DEF Relative
      <4> QED
        BY <4>3, EmptySeq, ElementOfSeq
    <3> QED
      BY <3>3 DEF NodeName, Text
  <2>3. toks \in Seq(Text)
    <3>1. "entry" \in Text /\ "(" \in Text /\ "name" \in Text /\ "node" \in Text
      BY DEF Text
    <3> QED
      BY <2>2, <3>1, ShortSequences
  <2> HIDE DEF toks
  <2>4. CASE Put(Words(toks)) /\ Goto("open")
    <3>1. epc' = "open" /\ verdict' = verdict
      BY <2>4 DEF Goto
    <3> QED
      BY <1>1, <1>3, <2>1, <2>3, <2>4, <3>1, PutCount
  <2>5. CASE PutFails /\ Fail
    BY <1>1, <2>3, <2>5, PutCount DEF Fail
  <2> QED
    BY <1>7, <2>4, <2>5 DEF EmitEntry, toks
<1> QED
  BY <1>4, <1>5, <1>6, <1>7

LEMMA HeaderDoneCount == Inv /\ Counted /\ HeaderDone => Counted'
<1> SUFFICES ASSUME Inv, Counted, HeaderDone PROVE Counted'
  OBVIOUS
<1>1. /\ wpc = "wait" /\ epc = "yield" /\ epc' = "await" /\ verdict' = verdict
      /\ accepted' = Append(accepted, offered)
      /\ UNCHANGED <<out, left, err, failing>>
  BY DEF HeaderDone, Goto, content
<1>2. offered \in Offers /\ accepted \in Seq(Offers) /\ offered.size \in Nat
  BY <1>1, OffersAreHeaders DEF Inv, TypeOK, Turns
<1>3. /\ IsFiniteSet(DataOf(accepted'))
      /\ Cardinality(DataOf(accepted')) = Cardinality(DataOf(accepted)) + offered.size
  BY <1>1, <1>2, DataAnnounced DEF Counted
<1>4. Cardinality(DataIn(out)) \in Nat
  BY DataConcat, FS_CardinalityType DEF Counted
<1>5. ~failing => Cardinality(DataIn(out)) + left = Cardinality(DataOf(accepted)) + offered.size
  <2> SUFFICES ASSUME ~failing
               PROVE Cardinality(DataIn(out)) + left = Cardinality(DataOf(accepted)) + offered.size
    OBVIOUS
  <2>1. left = offered.size /\ Cardinality(DataIn(out)) + 0 = Cardinality(DataOf(accepted))
    BY <1>1 DEF Counted
  <2>2. Cardinality(DataIn(out)) + 0 = Cardinality(DataIn(out))
    BY <1>4
  <2> QED
    BY <2>1, <2>2
<1>6. DataIn(out') = DataIn(out)
  BY <1>1
<1> QED
  BY <1>1, <1>3, <1>5, <1>6 DEF Counted, EndedLabels

\* Write has the emitter wait for a header, and writes what is left or fails.
LEMMA WriteCount == ASSUME NEW n \in Nat, Inv, Counted, Write(n) PROVE Counted'
<1>1. /\ wpc = "idle" /\ ~closed /\ err = "none"
      /\ UNCHANGED <<epc, verdict, accepted, offered>>
  BY DEF Write, emitter
<1>2. epc \in {"first", "await"}
  BY <1>1 DEF Inv, Turns
<1>3. CASE UNCHANGED <<out, left, failing>>
  BY <1>1, <1>2, <1>3, QuietCount DEF Counted, EndedLabels, Write
<1>4. CASE PutFails /\ err' = "err"
  <2>1. out' = out /\ failing' = TRUE
    BY <1>4 DEF PutFails
  <2> QED
    BY <1>1, <1>4, <2>1 DEF Counted
<1>5. CASE n <= left /\ Put([i \in 1..n |-> W(Oversized)]) /\ left' = left - n /\ UNCHANGED err
  <2>1. out' = out \o [i \in 1..n |-> W(Oversized)] /\ failing' = failing
    BY <1>5 DEF Put
  <2>2. /\ out' \in Seq(Word)
        /\ Cardinality(DataIn(out')) = Cardinality(DataIn(out)) + n
    BY <2>1, DataAdded DEF Counted
  <2>3. Cardinality(DataIn(out)) \in Nat /\ left \in Nat
    BY DataConcat, FS_CardinalityType DEF Counted, Inv, TypeOK
  <2>4. Cardinality(DataIn(out')) + left' = Cardinality(DataIn(out)) + left
    BY <1>5, <2>2, <2>3
  <2>5. epc = "first" => left' = 0 \/ failing
    BY <1>5, <2>3 DEF Counted
  <2> QED
    BY <1>1, <1>2, <1>5, <2>1, <2>2, <2>4, <2>5 DEF Counted, EndedLabels
<1> QED
  BY <1>3, <1>4, <1>5 DEF Write

LEMMA CountedNext == Inv /\ Counted /\ [Next]_vars => Counted'
<1> SUFFICES ASSUME Inv, Counted, [Next]_vars PROVE Counted'
  OBVIOUS
<1>1. CASE RefuseNode \/ CloseErrors \/ SeeClosed \/ SendHeader \/ ReceiveError
  <2>1. UNCHANGED <<out, left, accepted, failing>> /\ epc # "yield" /\ epc' # "yield"
    BY <1>1 DEF RefuseNode, CloseErrors, SeeClosed, SendHeader, ReceiveError, Goto, Fail, content,
       caller
  <2>2. verdict' = verdict \/ verdict' = "err"
    BY <1>1 DEF RefuseNode, CloseErrors, SeeClosed, SendHeader, ReceiveError, Goto, Fail
  <2>3. UNCHANGED err \/ (epc = "deposit" /\ err' = verdict)
    BY <1>1 DEF RefuseNode, CloseErrors, SeeClosed, SendHeader, ReceiveError, caller
  <2>4. failing => verdict' = "err" \/ err' = "err"
    BY <2>2, <2>3 DEF Counted, Inv, Verdicts
  <2>5. /\ epc' \in {"first", "open", "loop", "entryClose"} => epc = "first"
        /\ epc' \in EndedLabels => epc \in {"closeErrors", "deposit"} /\ verdict' = verdict
    BY <1>1 DEF RefuseNode, CloseErrors, SeeClosed, SendHeader, ReceiveError, Goto, Fail,
                EndedLabels
  <2>6. epc = "deposit" => verdict = "err"
    BY DEF Inv, Verdicts
  <2> QED
    BY <2>1, <2>4, <2>5, <2>6, QuietCount DEF Counted, EndedLabels
<1>2. CASE \/ CloseReturns \/ Close \/ UNCHANGED vars
           \/ \E h \in Offers : WriteHeader(h)
  <2>1. UNCHANGED <<out, left, accepted, failing, epc, verdict>> /\ (UNCHANGED err \/ err' = "err")
    BY <1>2 DEF CloseReturns, Close, WriteHeader, vars, content, emitter, caller
  <2>2. epc = "yield" => UNCHANGED offered
    BY <1>2 DEF CloseReturns, Close, WriteHeader, vars, caller, Inv, Turns, EndedLabels
  <2> QED
    BY <2>1, <2>2 DEF Counted
<1>3. CASE \E n \in 0..2 : Write(n)
  BY <1>3, WriteCount
<1> QED
  BY <1>1, <1>2, <1>3, EmitOpeningCount, EmitterCount, HeaderDoneCount
     DEF Next, EmitterStep, CallProceeds, CallerStep, Finished

(***************************************************************************)
(* Whatever a caller announces and writes: if no call has returned an      *)
(* error and Close has returned, no write has failed, and what was written *)
(* of the files is what was announced of them (writer.go:118-177, 311-313).*)
(***************************************************************************)
THEOREM AllDataWritten ==
  Spec => [](Succeeded => /\ ~failing /\ left = 0
                          /\ Cardinality(DataIn(out)) = Cardinality(DataOf(accepted)))
<1> DEFINE Written == /\ ~failing /\ left = 0
                      /\ Cardinality(DataIn(out)) = Cardinality(DataOf(accepted))
<1>1. Inv /\ Counted => (Succeeded => Written)
  <2> SUFFICES ASSUME Inv, Counted, Succeeded PROVE Written
    OBVIOUS
  <2>1. epc \in EndedLabels /\ verdict = "none"
    BY DEF Succeeded, Inv, TypeOK, Turns, Verdicts
  <2>2. ~failing /\ left = 0 /\ epc # "yield"
    BY <2>1 DEF Succeeded, Counted, EndedLabels
  <2>3. Cardinality(DataIn(out)) + 0 = Cardinality(DataOf(accepted))
    BY <2>2 DEF Counted
  <2>4. Cardinality(DataIn(out)) \in Nat
    BY DataConcat, FS_CardinalityType DEF Counted
  <2> QED
    BY <2>2, <2>3, <2>4
<1> HIDE DEF Written
<1>2. Spec => [](Succeeded => Written)
  BY <1>1, InitCounted, CountedNext, Invariance, PTL DEF Spec
<1> QED
  BY <1>2 DEF Written

----------------------------------------------------------------------------
(***************************************************************************)
(* DumpPath is a caller of the writer.  Where it is when the writer is in  *)
(* a call, and when it is closed:                                          *)
(***************************************************************************)
Calls ==
  /\ wpc \in {"send", "wait"} => dpc = "announced"
  /\ wpc = "closing" => dpc = "closing"
  /\ closed <=> dpc \in {"closing", "end"}
  /\ dpc = "end" => wpc = "idle" /\ (result = "nil" => err = "none")

HandLabels == {"readlink", "announce", "announced", "readdir", "open", "copy"}

Announceable(p, node) ==
  \/ node = Absent \/ node.type = "other"
  \/ HeaderOf(p, node) \in Offers /\ Valid(HeaderOf(p, node))

(***************************************************************************)
(* The node at hand, the one that is announced, and all that have been,    *)
(* were there.                                                             *)
(***************************************************************************)
Known ==
  /\ IsFiniteSet(DOMAIN fs) /\ Facts(fs) \subseteq known
  /\ \A p \in DOMAIN fs : \A node \in Node : Announceable(p, node)
  /\ \A fact \in known : Announceable(fact[1], fact[2])
  /\ todo \in Seq(DOMAIN fs)
  /\ dpc \in HandLabels =>
       todo # << >> /\ <<Head(todo), fi>> \in known /\ fi.type \notin {"none", "other"}
  /\ wpc \in {"send", "wait"} => offered = HeaderOf(Head(todo), fi)
  /\ \A i \in 1..Len(accepted) :
       \E fact \in known : accepted[i] = HeaderOf(fact[1], fact[2])

DumpInv == Inv /\ Calls /\ Known

LEMMA DumpInitInv == DumpInit => DumpInv
<1> SUFFICES ASSUME DumpInit PROVE Calls /\ Known
  BY InitInv DEF DumpInit, DumpInv
<1>1. /\ wpc = "idle" /\ ~closed /\ dpc = "lstat" /\ accepted = << >>
      /\ fs \in Trees /\ known = Facts(fs) /\ todo = <<Root>>
  BY DEF DumpInit, Init
<1>2. /\ IsFiniteSet(DOMAIN fs) /\ Root \in DOMAIN fs
      /\ \A p \in DOMAIN fs : \A node \in Node \cup {fs[p]} : Announceable(p, node)
  BY <1>1, TreesAreOffered DEF Announceable
<1>3. \A fact \in known : Announceable(fact[1], fact[2])
  BY <1>1, <1>2 DEF Facts
<1>4. todo \in Seq(DOMAIN fs)
  BY <1>1, <1>2, ShortSequences
<1>5. Len(accepted) = 0
  BY <1>1
<1> QED
  BY <1>1, <1>2, <1>3, <1>4, <1>5 DEF Calls, Known, HandLabels

\* What is found at a path, if anything, was there.
LEMMA FoundIsKnown ==
  ASSUME Known, NEW p \in DOMAIN fs, Lookup(p).type # "none"
  PROVE  <<p, Lookup(p)>> \in known
<1>1. Lookup(p) = fs[p]
  BY DEF Lookup, Absent
<1> QED
  BY <1>1 DEF Known, Facts

\* What the goroutine does meanwhile.
LEMMA WriterFacts ==
  ASSUME EmitterStep \/ CallProceeds
  PROVE  /\ UNCHANGED <<closed, offered>>
         /\ wpc' = wpc \/ (wpc # "idle" /\ wpc' = "idle") \/ (wpc = "send" /\ wpc' = "wait")
         /\ wpc = "idle" => UNCHANGED err
         /\ \/ UNCHANGED accepted
            \/ wpc = "wait" /\ accepted' = Append(accepted, offered)
<1>1. CASE EmitterStep
  BY <1>1 DEF EmitterStep, EmitOpening, Finish, NoMore, Bounce, EmitEntry, RefuseNode,
     EmitEntryClose, CloseErrors, SeeClosed, caller
<1>2. CASE CallProceeds
  BY <1>2 DEF CallProceeds, SendHeader, HeaderDone, ReceiveError, CloseReturns, caller
<1> QED
  BY <1>1, <1>2

\* A dump uses the writer as a caller may.
LEMMA DumpStepUses == DumpInv /\ [DumpNext]_<<vars, dumpVars>> => [Next]_vars
<1> SUFFICES ASSUME DumpInv, [DumpNext]_<<vars, dumpVars>> PROVE [Next]_vars
  OBVIOUS
<1>1. CASE Announce
  <2>1. /\ dpc = "announce" /\ WriteHeader(HeaderOf(Head(todo), fi))
    BY <1>1 DEF Announce, At
  <2>2. <<Head(todo), fi>> \in known /\ fi.type \notin {"none", "other"}
    BY <2>1 DEF DumpInv, Known, HandLabels
  <2>3. HeaderOf(Head(todo), fi) \in Offers
    <3>1. Announceable(Head(todo), fi)
      <4>1. \A fact \in known : Announceable(fact[1], fact[2])
        BY DEF DumpInv, Known
      <4> QED
        BY <2>2, <4>1
    <3>2. Absent.type = "none"
      BY DEF Absent
    <3>3. fi # Absent /\ fi.type # "other"
      BY <2>2, <3>2
    <3> QED
      BY <3>1, <3>3 DEF Announceable
  <2> QED
    BY <2>1, <2>3 DEF Next, CallerStep
<1>2. CASE CopyChunk
  <2>1. PICK n \in 1..2 : Write(n)
    BY <1>2 DEF CopyChunk
  <2>2. n \in 0..2
    OBVIOUS
  <2> QED
    BY <2>1, <2>2 DEF Next, CallerStep
<1>3. CASE StartClose
  BY <1>3 DEF StartClose, Next, CallerStep
<1>4. CASE WriterStep
  BY <1>4 DEF WriterStep, Next
<1>5. CASE \/ Lstat \/ Readlink \/ Announced \/ ReadDir \/ Open \/ CopyEnds \/ EndDump \/ Ended
           \/ (\E p \in DOMAIN fs, node \in Node : Change(p, node))
           \/ UNCHANGED <<vars, dumpVars>>
  BY <1>5 DEF Lstat, Readlink, Announced, ReadDir, Open, CopyEnds, EndDump, Ended, Change
<1> QED
  BY <1>1, <1>2, <1>3, <1>4, <1>5 DEF DumpNext, DumpStep

----------------------------------------------------------------------------
\* A step of dumpPath on its own: the writer is in no call, or dumpPath waits for it.
LEMMA DumpStepCalls == DumpInv /\ [DumpNext]_<<vars, dumpVars>> => Calls'
<1> SUFFICES ASSUME DumpInv, [DumpNext]_<<vars, dumpVars>> PROVE Calls'
  OBVIOUS
<1>1. CASE WriterStep
  <2>1. UNCHANGED <<dpc, result>>
    BY <1>1 DEF WriterStep, dumpVars, dumpPath
  <2> QED
    BY <1>1, <2>1, WriterFacts DEF WriterStep, DumpInv, Calls
<1>2. CASE Announce
  BY <1>2 DEF Announce, At, WriteHeader, DumpInv, Calls
<1>3. CASE CopyChunk
  BY <1>3 DEF CopyChunk, At, Write, DumpInv, Calls
<1>4. CASE StartClose
  BY <1>4 DEF StartClose, Close, DumpInv, Calls
<1>5. CASE EndDump
  BY <1>5 DEF EndDump, vars, caller, DumpInv, Calls, Inv, TypeOK
<1>6. CASE Announced
  <2>1. UNCHANGED <<wpc, closed>> /\ wpc = "idle" /\ dpc = "announced"
        /\ dpc' \in {"lstat", "readdir", "open", "close"}
    BY <1>6 DEF Announced, At, GiveUp, GoOn, vars, caller
  <2> QED
    BY <2>1 DEF DumpInv, Calls
<1>7. CASE Lstat \/ Readlink \/ ReadDir \/ Open \/ CopyEnds
  <2>1. UNCHANGED <<wpc, closed>> /\ dpc \in {"lstat", "readlink", "readdir", "open", "copy"}
        /\ dpc' \in {"lstat", "readlink", "announce", "copy", "close"}
    BY <1>7 DEF Lstat, Readlink, ReadDir, Open, CopyEnds, At, GiveUp, GoOn, vars, caller
  <2> QED
    BY <2>1 DEF DumpInv, Calls
<1>8. CASE \/ Ended \/ (\E p \in DOMAIN fs, node \in Node : Change(p, node))
           \/ UNCHANGED <<vars, dumpVars>>
  <2>1. UNCHANGED <<wpc, closed, err, dpc, result>>
    BY <1>8 DEF Ended, Change, vars, caller, dumpVars, dumpPath
  <2> QED
    BY <2>1 DEF DumpInv, Calls
<1> QED
  BY <1>1, <1>2, <1>3, <1>4, <1>5, <1>6, <1>7, <1>8 DEF DumpNext, DumpStep

\* dumpPath goes on, or gives up, with the file system as it is.
LEMMA KnownKept ==
  ASSUME DumpInv, UNCHANGED <<fs, known, accepted, offered, wpc>>, wpc = "idle",
         todo' \in Seq(DOMAIN fs),
         dpc' \in HandLabels =>
           todo' # << >> /\ <<Head(todo'), fi'>> \in known /\ fi'.type \notin {"none", "other"}
  PROVE  Known'
<1>1. Facts(fs)' = Facts(fs)
  BY DEF Facts
<1>2. \A p, node : Announceable(p, node)' <=> Announceable(p, node)
  BY DEF Announceable
<1> QED
  BY <1>1, <1>2 DEF DumpInv, Known

\* Where dumpPath gives up, or goes on to what is left.
LEMMA KnownOnward ==
  ASSUME DumpInv, UNCHANGED <<fs, known, vars>>, wpc = "idle", todo # << >>,
         GiveUp \/ GoOn(Tail(todo)) \/ (UNCHANGED <<todo, fi>> /\ dpc \in HandLabels)
  PROVE  Known'
<1>1. todo \in Seq(DOMAIN fs) /\ Tail(todo) \in Seq(DOMAIN fs)
  BY HeadTailProperties DEF DumpInv, Known
<1>2. todo' \in Seq(DOMAIN fs)
  BY <1>1 DEF GiveUp, GoOn
<1>3. UNCHANGED <<accepted, offered, wpc>>
  BY DEF vars, caller
<1>4. dpc' \in HandLabels => dpc \in HandLabels /\ todo' = todo /\ fi' = fi
  BY DEF GiveUp, GoOn, HandLabels
<1>5. dpc' \in HandLabels =>
        todo' # << >> /\ <<Head(todo'), fi'>> \in known /\ fi'.type \notin {"none", "other"}
  BY <1>4 DEF DumpInv, Known
<1> QED
  BY <1>2, <1>3, <1>5, KnownKept

LEMMA LstatKnown == ASSUME DumpInv, Lstat \/ Readlink PROVE Known'
<1> DEFINE node == Lookup(Head(todo))
<1>1. /\ dpc \in {"lstat", "readlink"} /\ todo # << >> /\ UNCHANGED <<fs, known, vars>>
      /\ \/ GiveUp \/ GoOn(Tail(todo))
         \/ node.type \notin {"none", "other"} /\ fi' = node /\ todo' = todo
  BY DEF Lstat, Readlink, At, world
<1>2. wpc = "idle"
  BY <1>1 DEF DumpInv, Calls, Inv, TypeOK
<1>3. CASE GiveUp \/ GoOn(Tail(todo))
  BY <1>1, <1>2, <1>3, KnownOnward
<1>4. CASE node.type \notin {"none", "other"} /\ fi' = node /\ todo' = todo
  <2>1. Head(todo) \in DOMAIN fs /\ todo \in Seq(DOMAIN fs)
    BY <1>1, HeadTailProperties DEF DumpInv, Known
  <2>2. <<Head(todo), node>> \in known
    BY <1>4, <2>1, FoundIsKnown DEF DumpInv
  <2>3. UNCHANGED <<accepted, offered, wpc>>
    BY <1>1 DEF vars, caller
  <2> QED
    BY <1>1, <1>2, <1>4, <2>1, <2>2, <2>3, KnownKept
<1> QED
  BY <1>1, <1>3, <1>4

LEMMA ReadDirKnown == ASSUME DumpInv, ReadDir PROVE Known'
<1>1. /\ dpc = "readdir" /\ todo # << >> /\ UNCHANGED <<fs, known, vars>>
      /\ GiveUp \/ \E children \in Children(Head(todo)) : GoOn(children \o Tail(todo))
  BY DEF ReadDir, At, world
<1>2. wpc = "idle"
  BY <1>1 DEF DumpInv, Calls, Inv, TypeOK
<1>3. CASE GiveUp
  BY <1>1, <1>2, <1>3, KnownOnward
<1>4. ASSUME NEW children \in Children(Head(todo)), GoOn(children \o Tail(todo)) PROVE Known'
  <2> DEFINE found == Found(Head(todo))
  <2>1. found \subseteq DOMAIN fs /\ IsFiniteSet(DOMAIN fs)
    BY DEF Found, DumpInv, Known
  <2>2. IsFiniteSet(found)
    BY <2>1, FS_Subset
  <2>3. Cardinality(found) \in Nat
    BY <2>2, FS_CardinalityType
  <2>4. children \in [1..Cardinality(found) -> found]
    BY <1>4 DEF Children
  <2> HIDE DEF found
  <2>5. children \in Seq(DOMAIN fs)
    BY <2>1, <2>3, <2>4
  <2>6. Tail(todo) \in Seq(DOMAIN fs)
    BY <1>1, HeadTailProperties DEF DumpInv, Known
  <2>7. todo' \in Seq(DOMAIN fs) /\ dpc' = "lstat"
    BY <1>4, <2>5, <2>6, ConcatProperties DEF GoOn
  <2>8. UNCHANGED <<accepted, offered, wpc>>
    BY <1>1 DEF vars, caller
  <2> QED
    BY <1>1, <1>2, <2>7, <2>8, KnownKept DEF HandLabels
<1> QED
  BY <1>1, <1>3, <1>4

\* The others make changes; what has been said is remembered.
LEMMA ChangeKnown ==
  ASSUME DumpInv, NEW p \in DOMAIN fs, NEW node \in Node, Change(p, node) PROVE Known'
<1>1. /\ fs' = [fs EXCEPT ![p] = node] /\ known' = known \cup Facts(fs)'
      /\ UNCHANGED <<dpc, todo, fi, wpc, offered, accepted>>
  BY DEF Change, vars, caller, Facts
<1>2. DOMAIN fs' = DOMAIN fs /\ \A q \in DOMAIN fs : fs'[q] = IF q = p THEN node ELSE fs[q]
  BY <1>1
<1>3. ASSUME NEW fact \in known' PROVE Announceable(fact[1], fact[2])
  <2>1. CASE fact \in known
    BY <2>1 DEF DumpInv, Known
  <2>2. CASE fact \in Facts(fs)'
    <3>1. PICK q \in DOMAIN fs : fact = <<q, fs'[q]>>
      BY <1>2, <2>2 DEF Facts
    <3>2. CASE q = p
      BY <1>2, <3>1, <3>2 DEF DumpInv, Known
    <3>3. CASE q # p
      <4>1. <<q, fs[q]>> \in known
        BY DEF DumpInv, Known, Facts
      <4>2. fact = <<q, fs[q]>>
        BY <1>2, <3>1, <3>3
      <4> QED
        BY <4>1, <4>2, <2>1
    <3> QED
      BY <3>2, <3>3
  <2> QED
    BY <1>1, <2>1, <2>2
<1>4. \A q, n : Announceable(q, n)' <=> Announceable(q, n)
  BY DEF Announceable
<1>5. known \subseteq known' /\ Facts(fs)' \subseteq known'
  BY <1>1
<1>6. dpc' \in HandLabels =>
        todo' # << >> /\ <<Head(todo'), fi'>> \in known' /\ fi'.type \notin {"none", "other"}
  BY <1>1, <1>5 DEF DumpInv, Known
<1>7. \A i \in 1..Len(accepted') :
        \E fact \in known' : accepted'[i] = HeaderOf(fact[1], fact[2])
  BY <1>1, <1>5 DEF DumpInv, Known
<1>8. wpc' \in {"send", "wait"} => offered' = HeaderOf(Head(todo'), fi')
  BY <1>1 DEF DumpInv, Known
<1>9. todo' \in Seq(DOMAIN fs') /\ IsFiniteSet(DOMAIN fs')
  BY <1>1, <1>2 DEF DumpInv, Known
<1>10. \A q \in DOMAIN fs' : \A n \in Node : Announceable(q, n)
  BY <1>2 DEF DumpInv, Known
<1> QED
  BY <1>3, <1>4, <1>5, <1>6, <1>7, <1>8, <1>9, <1>10 DEF Known

\* The header that is accepted is that of the node at hand.
LEMMA WriterKnown == ASSUME DumpInv, WriterStep PROVE Known'
<1>1. UNCHANGED <<fs, known, dpc, todo, fi, offered>>
  BY WriterFacts DEF WriterStep, dumpVars, dumpPath, world
<1>2. Facts(fs)' = Facts(fs) /\ \A p, node : Announceable(p, node)' <=> Announceable(p, node)
  BY <1>1 DEF Facts, Announceable
<1>3. wpc' \in {"send", "wait"} => wpc \in {"send", "wait"}
  BY WriterFacts DEF WriterStep
<1>4. \A i \in 1..Len(accepted') :
        \E fact \in known : accepted'[i] = HeaderOf(fact[1], fact[2])
  <2>1. CASE UNCHANGED accepted
    BY <2>1 DEF DumpInv, Known
  <2>2. CASE wpc = "wait" /\ accepted' = Append(accepted, offered)
    <3>1. dpc = "announced" /\ offered = HeaderOf(Head(todo), fi)
      BY <2>2 DEF DumpInv, Calls, Known
    <3>2. <<Head(todo), fi>> \in known
      BY <3>1 DEF DumpInv, Known, HandLabels
    <3>3. \E fact \in known : offered = HeaderOf(fact[1], fact[2])
      BY <3>1, <3>2
    <3>4. accepted \in Seq(Offers) /\ offered \in Offers
      BY <2>2 DEF DumpInv, Inv, TypeOK, Turns
    <3>5. /\ Len(accepted) \in Nat /\ Len(accepted') = Len(accepted) + 1
          /\ accepted'[Len(accepted) + 1] = offered
          /\ \A i \in 1..Len(accepted) : accepted'[i] = accepted[i]
      BY <2>2, <3>4, AppendProperties, LenProperties
    <3>6. \A i \in 1..Len(accepted') : i \in 1..Len(accepted) \/ i = Len(accepted) + 1
      BY <3>5
    <3>7. \A i \in 1..Len(accepted) : \E fact \in known : accepted[i] = HeaderOf(fact[1], fact[2])
      BY DEF DumpInv, Known
    <3> QED
      BY <3>3, <3>5, <3>6, <3>7
  <2> QED
    BY <2>1, <2>2, WriterFacts DEF WriterStep
<1> QED
  BY <1>1, <1>2, <1>3, <1>4 DEF DumpInv, Known

LEMMA DumpStepKnown == DumpInv /\ [DumpNext]_<<vars, dumpVars>> => Known'
<1> SUFFICES ASSUME DumpInv, [DumpNext]_<<vars, dumpVars>> PROVE Known'
  OBVIOUS
<1>1. CASE Announced \/ Open \/ CopyEnds
  <2>1. /\ UNCHANGED <<fs, known, vars>> /\ todo # << >>
        /\ GiveUp \/ GoOn(Tail(todo)) \/ (UNCHANGED <<todo, fi>> /\ dpc \in HandLabels)
    BY <1>1 DEF Announced, Open, CopyEnds, At, HandLabels, world
  <2>2. wpc = "idle"
    BY <1>1 DEF Announced, Open, CopyEnds, At, DumpInv, Calls, Inv, TypeOK
  <2> QED
    BY <2>1, <2>2, KnownOnward
<1>2. CASE Announce
  <2>1. /\ dpc = "announce" /\ dpc' = "announced" /\ wpc = "idle"
        /\ UNCHANGED <<fs, known, todo, fi, accepted>>
        /\ \/ wpc' = "send" /\ offered' = HeaderOf(Head(todo), fi)
           \/ wpc' = wpc
    BY <1>2 DEF Announce, At, WriteHeader, world
  <2>2. Facts(fs)' = Facts(fs) /\ \A p, node : Announceable(p, node)' <=> Announceable(p, node)
    BY <2>1 DEF Facts, Announceable
  <2>3. wpc' \in {"send", "wait"} => offered' = HeaderOf(Head(todo'), fi')
    BY <2>1
  <2>4. dpc \in HandLabels
    BY <2>1 DEF HandLabels
  <2> QED
    BY <2>1, <2>2, <2>3, <2>4 DEF DumpInv, Known
<1>3. CASE \/ CopyChunk \/ StartClose \/ EndDump \/ Ended \/ UNCHANGED <<vars, dumpVars>>
  <2>1. /\ UNCHANGED <<fs, known, todo, fi, accepted, offered>>
        /\ dpc' \in HandLabels => dpc \in HandLabels
        /\ wpc' \in {"send", "wait"} => wpc \in {"send", "wait"}
    BY <1>3 DEF CopyChunk, StartClose, EndDump, Ended, Write, Close, HandLabels, vars, caller,
                dumpVars, dumpPath, world
  <2>2. Facts(fs)' = Facts(fs) /\ \A p, node : Announceable(p, node)' <=> Announceable(p, node)
    BY <2>1 DEF Facts, Announceable
  <2> QED
    BY <2>1, <2>2 DEF DumpInv, Known
<1> QED
  BY <1>1, <1>2, <1>3, LstatKnown, ReadDirKnown, ChangeKnown, WriterKnown DEF DumpNext, DumpStep

----------------------------------------------------------------------------
THEOREM DumpInvariance == DumpSpec => []DumpInv
<1>1. DumpInv /\ [DumpNext]_<<vars, dumpVars>> => DumpInv'
  BY DumpStepUses, NextInv, DumpStepCalls, DumpStepKnown DEF DumpInv
<1> QED
  BY <1>1, DumpInitInv, PTL DEF DumpSpec

(***************************************************************************)
(* DumpPathFilter uses the writer as a caller may (dump.go:25-150), so     *)
(* that all that holds of the writer holds of a dump.                      *)
(***************************************************************************)
THEOREM DumpUsesWriter == DumpSpec => Spec
<1>1. DumpInit => Init
  BY DEF DumpInit
<1> QED
  BY <1>1, DumpInvariance, DumpStepUses, PTL DEF DumpSpec, Spec

(***************************************************************************)
(* Whatever others do to the file system during the dump, and wherever the *)
(* destination fails: where DumpPathFilter returns no error, the archive   *)
(* is closed and has all the data it announces, and every header in it was *)
(* true at some moment (dump.go:25-41, 114-146).                           *)
(***************************************************************************)
THEOREM NilIsWhole == DumpSpec => []NilMeansWhole
<1> DEFINE Written == /\ ~failing /\ left = 0
                      /\ Cardinality(DataIn(out)) = Cardinality(DataOf(accepted))
<1>1. DumpInv /\ (Succeeded => Written) => NilMeansWhole
  <2> SUFFICES ASSUME DumpInv, Succeeded => Written, dpc = "end", result = "nil"
               PROVE  NilMeansWhole
    BY DEF NilMeansWhole
  <2>1. Succeeded
    BY DEF DumpInv, Calls, Succeeded
  <2>2. DOMAIN accepted = 1..Len(accepted)
    BY LenProperties DEF DumpInv, Inv, TypeOK
  <2>3. \A i \in DOMAIN accepted :
          \E fact \in known : accepted[i] = HeaderOf(fact[1], fact[2])
    BY <2>2 DEF DumpInv, Known
  <2> QED
    BY <2>1, <2>3 DEF NilMeansWhole
<1>2. Spec => [](Succeeded => Written)
  BY AllDataWritten
<1> HIDE DEF Written
<1> QED
  BY <1>1, <1>2, DumpInvariance, DumpUsesWriter, PTL

----------------------------------------------------------------------------
(***************************************************************************)
(* The walk of a file system that nobody changes, onto a destination that  *)
(* does not fail.                                                          *)
(***************************************************************************)
Quiet == changes = 0 /\ ~failing

(***************************************************************************)
(* q is visited some time after p: it is a child of p or of a directory    *)
(* above, and neither p nor anything above it.                             *)
(***************************************************************************)
Follows(p, q) == q # Root /\ StartsWith(p, Parent(q)) /\ Ordered(p, q) /\ ~StartsWith(p, q)

\* What is left to visit is there (of the root, Lstat is the first to know), and in order.
Todo ==
  /\ fs \in Trees /\ todo \in Seq(Reached \cup {Root})
  /\ \A i, j \in 1..Len(todo) :
       i < j => Follows(todo[i], todo[j]) /\ ~StartsWith(todo[j], todo[i])

\* What dumpPath believes of the node at hand is so.
Hand ==
  /\ dpc \in HandLabels => Head(todo) \in Wanted /\ fi = fs[Head(todo)]
  /\ dpc = "readlink" => fi.type = "symlink"
  /\ dpc = "readdir" => fi.type = "directory"
  /\ dpc \in {"open", "copy"} => fi.type = "regular"
  /\ dpc = "copy" => opened = fi
  /\ dpc \in {"lstat", "readlink", "announce", "readdir", "open"} => err = "none"
  /\ result \in {"nil", "err"} /\ (dpc = "close" => result = "err")
  /\ result = "nil" /\ dpc \in {"closing", "end"} => todo = << >>

\* The node at hand has been announced.
HeadTaken == dpc \in {"readdir", "open", "copy"} \/ (dpc = "announced" /\ wpc = "idle")

\* What is left comes behind the last node announced, or begins with the root.
Behind ==
  /\ accepted = << >> => \A i \in 1..Len(todo) : todo[i] = Root
  /\ err = "none" /\ HeadTaken => accepted # << >> /\ LastAccepted.path = Head(todo)
  /\ err = "none" /\ accepted # << >> =>
       \A i \in 1..Len(todo) : (i = 1 /\ HeadTaken) \/ Follows(LastAccepted.path, todo[i])

\* The writer waits for what is left of the file at hand, and for nothing of any other node.
Owed ==
  err = "none" =>
    /\ dpc = "copy" => copied \in Nat /\ copied + left = fi.size
    /\ HeadTaken /\ dpc # "copy" => left = fi.size
    /\ dpc \in {"lstat", "readlink", "announce"} => left = 0
    /\ wpc = "send" \/ (wpc = "wait" /\ epc = "finish") => left = 0
    /\ result = "nil" /\ dpc = "closing" => left = 0

\* Nothing is announced but what is wanted, as it is, and none of it is refused.
Faithful ==
  \A i \in 1..Len(accepted) :
    /\ accepted[i].path \in Wanted
    /\ accepted[i] = HeaderOf(accepted[i].path, fs[accepted[i].path])
    /\ accepted[i].path # Root => Last(accepted[i].path) \notin DotDotNames

\* Whatever is there is still to come, below what is left to visit, or has been dealt with.
Under(p) == \E i \in 1..Len(todo) : StartsWith(p, todo[i])
Taken(p) == \E i \in 1..Len(accepted) : accepted[i].path = p

Complete ==
  result = "nil" /\ err = "none" =>
    \A p \in Reached : Under(p) \/ (fs[p].type # "other" /\ (p \in Wanted => Taken(p)))

\* No error without a reason.
Blame == result = "err" \/ err = "err" \/ verdict = "err" => ~Dumpable

(***************************************************************************)
(* The emitter's calls are for the directories from the root down to the   *)
(* node announced last, or to the one that is being announced; and it does *)
(* not leave a call before the next node is looked at by its parent's.     *)
(***************************************************************************)
ChainTo(p) == \A i \in 1..Len(stack) : Len(stack[i].path) = i - 1 /\ StartsWith(p, stack[i].path)
Refusable(p) == p # Root /\ Last(p) \in DotDotNames

Chain ==
  /\ epc \in {"await"} \cup BusyLabels => ChainTo(LastAccepted.path)
  /\ epc \in {"open", "yield"} => ChainTo(offered.path) /\ ~Refusable(offered.path)
  /\ wpc = "wait" /\ epc \in BusyLabels =>
       Len(stack) >= Len(offered.path) \/ Refusable(offered.path)

Walk == Todo /\ Hand /\ Behind /\ Owed /\ Faithful /\ Complete /\ Blame /\ Chain

----------------------------------------------------------------------------
\* The children of a directory follow it, ...
LEMMA ChildFollows == ASSUME NEW q \in Path, q # Root PROVE Follows(Parent(q), q)
<1>1. /\ Parent(q) \in Path /\ StartsWith(q, Parent(q)) /\ ~StartsWith(Parent(q), q)
  BY ParentFacts
<1>2. StartsWith(Parent(q), Parent(q))
  BY <1>1, StartsWithFacts
<1> QED
  BY <1>1, <1>2 DEF Follows, Ordered

\* ... one after the other, ...
LEMMA SiblingsFollow ==
  ASSUME NEW p \in Path, NEW q \in Path, p # Root, q # Root, p # q, Parent(p) = Parent(q),
         Ordered(p, q)
  PROVE  Follows(p, q) /\ ~StartsWith(q, p)
<1>1. /\ Len(p) \in Nat \ {0} /\ Len(Parent(p)) = Len(p) - 1 /\ StartsWith(p, Parent(p))
  BY ParentFacts
<1>2. /\ Len(q) \in Nat \ {0} /\ Len(Parent(q)) = Len(q) - 1
  BY ParentFacts
<1>3. Len(p) = Len(q)
  BY <1>1, <1>2
<1>4. ~StartsWith(p, q) /\ ~StartsWith(q, p)
  BY <1>3, StartsWithFacts
<1> QED
  BY <1>1, <1>4 DEF Follows

\* ... and in front of what follows the directory.
LEMMA BelowFollows ==
  ASSUME NEW p \in Path, NEW q \in Path, Follows(p, q), ~StartsWith(q, p),
         NEW r \in Path, r # Root, Parent(r) = p
  PROVE  Follows(r, q) /\ ~StartsWith(q, r)
<1>1. StartsWith(r, p) /\ Parent(q) \in Path /\ (StartsWith(r, q) /\ q # r => StartsWith(p, q))
  BY ParentFacts DEF Follows
<1>2. Ordered(r, q) /\ ~StartsWith(q, r)
  BY <1>1, OrderedApart DEF Follows
<1>3. StartsWith(r, Parent(q))
  BY <1>1, StartsWithFacts DEF Follows
<1>4. ~StartsWith(r, q)
  BY <1>1 DEF Follows
<1> QED
  BY <1>2, <1>3, <1>4 DEF Follows

(***************************************************************************)
(* Of the directories above a node, the parent of the one that follows it  *)
(* is the only one to take that.  The ones below see a node further up, or *)
(* a sibling (writer.go:228-232).                                          *)
(***************************************************************************)
LEMMA AboveFollows ==
  ASSUME NEW p \in Path, NEW q \in Path, Follows(p, q), NEW c \in Path, StartsWith(p, c)
  PROVE  /\ Len(c) \in Nat /\ Len(q) \in Nat \ {0} /\ Len(p) \in Nat /\ Len(p) >= Len(q) - 1
         /\ Len(c) >= Len(q) => Ordered(c, q) /\ ~StartsWith(q, c)
         /\ Len(c) = Len(q) - 1 =>
              /\ c = Parent(q) /\ StartsWith(q, c) /\ Ordered(c, q)
              /\ Len(SubSeq(q, Len(c) + 1, Len(q))) = 1 /\ SubSeq(q, Len(c) + 1, Len(q))[1] = Last(q)
<1>1. /\ Len(q) \in Nat \ {0} /\ Parent(q) \in Path /\ Len(Parent(q)) = Len(q) - 1
      /\ StartsWith(q, Parent(q)) /\ StartsWith(p, Parent(q))
  BY ParentFacts DEF Follows
<1>2. Len(c) \in Nat /\ Len(p) \in Nat /\ Len(Parent(q)) <= Len(p)
  BY <1>1, PathFacts, StartsWithFacts
<1>3. Len(c) >= Len(q) => Ordered(c, q) /\ ~StartsWith(q, c)
  BY OrderedApart DEF Follows
<1>4. ASSUME Len(c) = Len(q) - 1
      PROVE  /\ c = Parent(q) /\ StartsWith(q, c) /\ Ordered(c, q)
             /\ Len(SubSeq(q, Len(c) + 1, Len(q))) = 1 /\ SubSeq(q, Len(c) + 1, Len(q))[1] = Last(q)
  <2>1. c = Parent(q)
    <3>1. c = SubSeq(p, 1, Len(c)) /\ Parent(q) = SubSeq(p, 1, Len(Parent(q)))
      BY <1>1, StartsWithFacts
    <3> QED
      BY <1>1, <1>4, <3>1
  <2>2. StartsWith(q, c) /\ Ordered(c, q)
    BY <1>1, <2>1 DEF Ordered
  <2>3. Len(c) + 1 = Len(q)
    BY <1>1, <1>4
  <2>4. Len(q) \in 1..Len(q) /\ q[Len(q)] \in Name /\ \A k \in Len(q)..Len(q) : q[k] \in Name
    BY <1>1, PathFacts
  <2>5. Len(SubSeq(q, Len(q), Len(q))) = 1 /\ SubSeq(q, Len(q), Len(q))[1] = q[Len(q)]
    <3>1. q \in Seq(Name)
      BY DEF Path
    <3> QED
      BY <1>1, <2>4, <3>1, SubSeqProperties
  <2> QED
    BY <2>1, <2>2, <2>3, <2>5 DEF Last
<1> QED
  BY <1>1, <1>2, <1>3, <1>4

----------------------------------------------------------------------------
\* All above what is there is there, is a directory, and is wanted.
LEMMA ReachedFacts ==
  ASSUME fs \in Trees, NEW p \in Reached
  PROVE  /\ p \in Path /\ p \in DOMAIN fs /\ Lookup(p) = fs[p] /\ fs[p] # Absent
         /\ \A q \in Path : StartsWith(p, q) /\ q # p => q \in Wanted /\ fs[q].type = "directory"
<1>1. /\ p \in DOMAIN fs /\ Lookup(p) # Absent /\ Ancestors(p) \cap refused = {}
  BY DEF Reached
<1>2. p \in Path /\ Len(p) \in Nat
  BY <1>1, TreesAreOffered, PathFacts
<1>3. Lookup(p) = fs[p] /\ \A i \in 0..(Len(p) - 1) : fs[SubSeq(p, 1, i)].type = "directory"
  BY <1>1 DEF Lookup
<1>4. ASSUME NEW q \in Path, StartsWith(p, q), q # p PROVE q \in Wanted /\ fs[q].type = "directory"
  <2>1. Len(q) \in Nat /\ Len(q) <= Len(p) /\ Len(q) # Len(p) /\ q = SubSeq(p, 1, Len(q))
    <3>1. Len(q) \in Nat
      BY <1>4, PathFacts
    <3>2. /\ Len(q) <= Len(p) /\ (Len(q) = Len(p) => q = p) /\ q = SubSeq(p, 1, Len(q))
      BY <1>2, <1>4, StartsWithFacts
    <3> QED
      BY <1>4, <3>1, <3>2
  <2>2. Len(q) \in 0..(Len(p) - 1) /\ Len(q) \in 0..Len(p)
    BY ONLY <1>2, <2>1
  <2>3. q \in Ancestors(p) /\ fs[q].type = "directory" /\ q \in DOMAIN fs
    <3>1. q = SubSeq(p, 1, Len(q)) /\ Len(q) \in 0..(Len(p) - 1)
      BY ONLY <2>1, <2>2
    <3>2. fs[q].type = "directory"
      BY ONLY <1>3, <3>1
    <3>3. q \in Ancestors(p)
      BY <2>1, <2>2 DEF Ancestors
    <3>4. q \in DOMAIN fs
      BY <1>1, <2>1, <2>2, TreesAreOffered
    <3> QED
      BY ONLY <3>2, <3>3, <3>4
  <2>4. ASSUME NEW i \in 0..(Len(q) - 1)
        PROVE  SubSeq(q, 1, i) = SubSeq(p, 1, i) /\ i \in 0..(Len(p) - 1)
    <3>1. i \in 0..Len(q) /\ i \in 0..(Len(p) - 1)
      BY <1>2, <2>1, <2>4
    <3>2. /\ SubSeq(q, 1, i) \in Path /\ Len(SubSeq(q, 1, i)) = i
          /\ StartsWith(q, SubSeq(q, 1, i))
      BY <3>1, PrefixFacts
    <3>3. StartsWith(p, SubSeq(q, 1, i))
      BY <1>2, <1>4, <3>2, StartsWithFacts
    <3>4. \A s \in Path : StartsWith(p, s) => s = SubSeq(p, 1, Len(s))
      BY <1>2, StartsWithFacts
    <3>5. SubSeq(q, 1, i) = SubSeq(p, 1, Len(SubSeq(q, 1, i)))
      BY ONLY <3>2, <3>3, <3>4
    <3> QED
      BY ONLY <3>1, <3>2, <3>5
  <2>5. Lookup(q) = fs[q]
    BY <1>3, <2>4 DEF Lookup
  <2>6. fs[q] # Absent
    <3>1. Absent.type = "none"
      BY DEF Absent
    <3> QED
      BY <2>3, <3>1
  <2>7. Ancestors(q) \cap refused = {}
    BY <1>1, <2>4 DEF Ancestors
  <2> QED
    BY <1>1, <2>3, <2>5, <2>6, <2>7 DEF Reached, Wanted
<1> QED
  BY <1>1, <1>2, <1>3, <1>4

\* What is found in a directory that is wanted is there.
LEMMA FoundReached ==
  ASSUME fs \in Trees, NEW p \in Wanted, fs[p].type = "directory", NEW q \in Found(p)
  PROVE  q \in Reached /\ q \in Path /\ q # Root /\ Parent(q) = p
<1>1. q \in DOMAIN fs /\ q # Root /\ Parent(q) = p /\ fs[q] # Absent /\ p \in Reached /\ p \notin refused
  BY DEF Found, Wanted
<1>2. q \in Path /\ Len(q) \in Nat \ {0}
  BY <1>1, TreesAreOffered, ParentFacts
<1>3. ASSUME NEW i \in 0..(Len(q) - 1)
      PROVE  fs[SubSeq(q, 1, i)].type = "directory" /\ SubSeq(q, 1, i) \notin refused
  <2> DEFINE s == SubSeq(q, 1, i)
  <2>1. i \in 0..Len(q) /\ i # Len(q)
    BY <1>2, <1>3
  <2>2. s \in Path /\ Len(s) = i /\ StartsWith(q, s)
    BY <1>2, <2>1, PrefixFacts
  <2>3. s # q
    BY <2>1, <2>2
  <2> HIDE DEF s
  <2>4. StartsWith(p, s)
    BY <1>1, <1>2, <2>2, <2>3, ParentFacts
  <2>5. CASE s = p
    BY <1>1, <2>5 DEF s
  <2>6. CASE s # p
    <3>1. s \in Wanted /\ fs[s].type = "directory"
      BY <1>1, <2>2, <2>4, <2>6, ReachedFacts
    <3> QED
      BY <3>1 DEF Wanted, s
  <2> QED
    BY <2>5, <2>6
<1>4. Lookup(q) = fs[q]
  BY <1>3 DEF Lookup
<1>5. Ancestors(q) \cap refused = {}
  BY <1>3 DEF Ancestors
<1> QED
  BY <1>1, <1>2, <1>4, <1>5 DEF Reached

\* What is there can be announced, or is nothing any archive can hold.
LEMMA NodeFacts ==
  ASSUME fs \in Trees, NEW p \in Reached, fs[p].type # "other"
  PROVE  /\ HeaderOf(p, fs[p]) \in Offers /\ Valid(HeaderOf(p, fs[p]))
         /\ fs[p].type \in {"regular", "symlink", "directory"} /\ fs[p].size \in Nat
         /\ fs[p].type # "regular" => fs[p].size = 0
<1>1. p \in DOMAIN fs /\ fs[p] # Absent
  BY ReachedFacts
<1>2. HeaderOf(p, fs[p]) \in Offers /\ Valid(HeaderOf(p, fs[p]))
  BY <1>1, TreesAreOffered
<1>3. HeaderOf(p, fs[p]).type = fs[p].type /\ HeaderOf(p, fs[p]).size = fs[p].size
  BY DEF HeaderOf
<1> QED
  BY <1>2, <1>3, OffersAreHeaders DEF Valid

\* While nobody changes a file, all this stays as it is.
LEMMA WorldKept ==
  ASSUME UNCHANGED <<fs, refused>>
  PROVE  /\ Reached' = Reached /\ Wanted' = Wanted /\ Dumpable' = Dumpable
<1>1. \A p : Lookup(p)' = Lookup(p)
  BY DEF Lookup
<1>2. Reached' = Reached
  BY <1>1 DEF Reached
<1>3. Wanted' = Wanted
  BY <1>2 DEF Wanted
<1>4. Dumpable' = Dumpable
  BY <1>2, <1>3 DEF Dumpable
<1> QED
  BY <1>2, <1>3, <1>4

----------------------------------------------------------------------------
LEMMA TodoFacts ==
  ASSUME Todo, todo # << >>
  PROVE  /\ Len(todo) \in Nat \ {0} /\ 1 \in 1..Len(todo) /\ Head(todo) = todo[1]
         /\ \A i \in 1..Len(todo) : todo[i] \in Path
         /\ Tail(todo) \in Seq(Reached \cup {Root}) /\ Len(Tail(todo)) = Len(todo) - 1
         /\ \A i \in 1..Len(Tail(todo)) : i + 1 \in 2..Len(todo) /\ Tail(todo)[i] = todo[i + 1]
<1>1. todo \in Seq(Reached \cup {Root}) /\ fs \in Trees
  BY DEF Todo
<1>2. Len(todo) \in Nat \ {0}
  BY <1>1, EmptySeq, LenProperties
<1>3. \A i \in 1..Len(todo) : todo[i] \in Path
  <2>1. Reached \cup {Root} \subseteq Path
    <3>1. Root \in Path
      BY DEF Path, Root
    <3>2. \A p \in Reached : p \in Path
      BY <1>1, ReachedFacts
    <3> QED
      BY <3>1, <3>2
  <2> QED
    BY <1>1, <2>1, ElementOfSeq
<1>4. /\ Tail(todo) \in Seq(Reached \cup {Root}) /\ Len(Tail(todo)) = Len(todo) - 1
      /\ \A i \in 1..Len(Tail(todo)) : Tail(todo)[i] = todo[i + 1]
  BY <1>1, HeadTailProperties
<1>5. Head(todo) = todo[1]
  BY <1>1
<1>6. \A i \in 1..Len(Tail(todo)) : i + 1 \in 2..Len(todo)
  BY <1>2, <1>4
<1> QED
  BY <1>2, <1>3, <1>4, <1>5, <1>6

\* A node that is announced is wanted, and comes behind the last.
LEMMA WaitFacts ==
  ASSUME DumpInv, Walk, wpc \in {"send", "wait"}
  PROVE  /\ dpc = "announced" /\ err = "none" /\ ~closed /\ todo # << >> /\ offered \in Offers
         /\ offered = HeaderOf(Head(todo), fi) /\ offered.path = Head(todo)
         /\ Head(todo) = todo[1] /\ 1 \in 1..Len(todo)
         /\ offered.path \in Path /\ offered.path \in Wanted /\ offered.path \in Reached
         /\ offered = HeaderOf(offered.path, fs[offered.path])
         /\ accepted # << >> =>
              LastAccepted.path \in Path /\ Follows(LastAccepted.path, offered.path)
         /\ Refusable(offered.path) => ~Dumpable
<1>1. /\ dpc = "announced" /\ err = "none" /\ ~closed /\ offered \in Offers
      /\ offered = HeaderOf(Head(todo), fi) /\ todo # << >> /\ dpc \in HandLabels
  BY DEF DumpInv, Inv, Turns, Calls, Known, HandLabels
<1>2. Head(todo) = todo[1] /\ 1 \in 1..Len(todo) /\ todo[1] \in Path
  BY <1>1, TodoFacts DEF Walk
<1>3. offered.path = Head(todo)
  BY <1>1 DEF HeaderOf
<1>4. Head(todo) \in Wanted /\ fi = fs[Head(todo)]
  BY <1>1 DEF Walk, Hand
<1>5. Head(todo) \in Reached
  BY <1>4 DEF Wanted
<1>6. ASSUME accepted # << >>
      PROVE  LastAccepted.path \in Path /\ Follows(LastAccepted.path, offered.path)
  <2>1. LastAccepted \in Offers
    BY <1>6, FrontFacts DEF DumpInv, Inv, TypeOK, LastAccepted
  <2>2. ~HeadTaken
    BY <1>1 DEF HeadTaken
  <2>3. Follows(LastAccepted.path, todo[1])
    BY <1>1, <1>2, <1>6, <2>2 DEF Walk, Behind
  <2> QED
    BY <1>2, <1>3, <2>1, <2>3, OffersAreHeaders
<1>7. Refusable(offered.path) => ~Dumpable
  BY <1>3, <1>4 DEF Refusable, Dumpable
<1> QED
  BY <1>1, <1>2, <1>3, <1>4, <1>5, <1>6, <1>7

\* A step that leaves alone what the walk has done and what it has in hand.
LEMMA WalkKept ==
  ASSUME Walk, UNCHANGED <<fs, refused, dumpPath, wpc, err, accepted>>
  PROVE  Todo' /\ Hand' /\ Behind' /\ Faithful' /\ Complete'
<1>1. Reached' = Reached /\ Wanted' = Wanted
  BY WorldKept
<1>2. UNCHANGED <<dpc, todo, fi, opened, copied, result>>
  BY DEF dumpPath
<1>3. Todo'
  BY <1>1, <1>2 DEF Walk, Todo
<1>4. Hand'
  BY <1>1, <1>2 DEF Walk, Hand
<1>5. Behind'
  BY <1>2 DEF Walk, Behind, HeadTaken, LastAccepted
<1>6. Faithful'
  BY <1>1 DEF Walk, Faithful
<1>7. Complete'
  BY <1>1, <1>2 DEF Walk, Complete, Under, Taken
<1> QED
  BY <1>3, <1>4, <1>5, <1>6, <1>7

----------------------------------------------------------------------------
(***************************************************************************)
(* The emitter, while the walk goes on.                                    *)
(***************************************************************************)
\* What a call of emitNode is for: a node above the last, and in the archive.
LEMMA OpenFacts ==
  ASSUME DumpInv, Place, Walk, epc \in {"await"} \cup BusyLabels
  PROVE  /\ stack \in Seq(Offers) /\ stack # << >> /\ Len(stack) \in Nat \ {0}
         /\ accepted # << >> /\ LastAccepted.path \in Path
         /\ \A i \in 1..Len(stack) :
              /\ stack[i].path \in Path /\ Len(stack[i].path) = i - 1
              /\ StartsWith(LastAccepted.path, stack[i].path)
         /\ Current.path \in Path /\ Len(Current.path) = Len(stack) - 1
         /\ StartsWith(LastAccepted.path, Current.path)
<1>1. /\ stack \in Seq(Offers) /\ stack # << >> /\ accepted \in Seq(Offers) /\ accepted # << >>
  BY DEF DumpInv, Inv, TypeOK, Frames, NodeLabels, Place
<1>2. Len(stack) \in Nat \ {0} /\ \A i \in 1..Len(stack) : stack[i] \in Offers
  BY <1>1, FrontFacts
<1>3. LastAccepted \in Offers
  BY <1>1, FrontFacts DEF LastAccepted
<1>4. ChainTo(LastAccepted.path)
  BY DEF Walk, Chain
<1>5. Len(stack) \in 1..Len(stack) /\ Current = stack[Len(stack)]
  BY <1>2 DEF Current
<1> QED
  BY <1>1, <1>2, <1>3, <1>4, <1>5, OffersAreHeaders DEF ChainTo

\* The call that looks at a node, while the caller waits for that.
LEMMA LoopFacts ==
  ASSUME DumpInv, Place, Walk, epc = "loop", next # NoNode
  PROVE  /\ wpc = "wait" /\ next = offered
         /\ LooksBehind(next)
              => Len(Current.path) >= Len(offered.path) \/ Refusable(offered.path)
         /\ Belongs(next) /\ ~LooksBehind(next)
              => /\ Current.path = Parent(offered.path) /\ Len(offered.path) = Len(stack)
                 /\ ~Refusable(offered.path)
         /\ ~Ordered(Current.path, next.path) \/ ~(LooksBehind(next) \/ Belongs(next))
              => Refusable(offered.path)
<1>1. wpc = "wait" /\ next = offered
  BY DEF DumpInv, Inv, Passed, BusyLabels
<1> DEFINE c == Current.path
           q == offered.path
<1>2. /\ q \in Path /\ c \in Path /\ StartsWith(LastAccepted.path, c) /\ q \in Reached
      /\ LastAccepted.path \in Path /\ Follows(LastAccepted.path, q)
      /\ Len(c) = Len(stack) - 1 /\ Len(stack) \in Nat \ {0}
  BY <1>1, OpenFacts, WaitFacts DEF BusyLabels
<1>3. /\ Len(c) \in Nat /\ Len(q) \in Nat \ {0} /\ q # Root /\ ~StartsWith(LastAccepted.path, q)
      /\ Len(c) >= Len(q) => Ordered(c, q) /\ ~StartsWith(q, c)
      /\ Len(c) = Len(q) - 1 =>
           /\ c = Parent(q) /\ StartsWith(q, c) /\ Ordered(c, q)
           /\ Len(SubSeq(q, Len(c) + 1, Len(q))) = 1 /\ SubSeq(q, Len(c) + 1, Len(q))[1] = Last(q)
  BY <1>2, AboveFollows DEF Follows
<1>4. Len(stack) >= Len(q) \/ Refusable(q)
  BY <1>1 DEF Walk, Chain, BusyLabels
<1>5. Inside(next) <=> StartsWith(q, c)
  BY <1>1 DEF Inside
<1>6. Relative(next) = SubSeq(q, Len(c) + 1, Len(q))
  BY <1>1 DEF Relative
<1>7. Len(c) = Len(q) - 1 => /\ Inside(next) /\ Ordered(c, q)
                             /\ Len(Relative(next)) = 1 /\ Relative(next)[1] = Last(q)
  BY <1>3, <1>5, <1>6
<1>8. Len(c) = Len(q) - 1 => (LooksBehind(next) <=> Refusable(q))
  <2>1. Len(Relative(next)) = 1 => Relative(next) # << >>
    OBVIOUS
  <2> QED
    BY <1>3, <1>7, <2>1 DEF LooksBehind, Refusable
<1>9. Len(c) >= Len(q) => LooksBehind(next) /\ Ordered(c, q)
  BY <1>3, <1>5 DEF LooksBehind
<1>10. Len(c) >= Len(q) \/ Len(c) = Len(q) - 1 \/ Refusable(q)
  BY <1>2, <1>3, <1>4
<1>11. ASSUME LooksBehind(next) PROVE Len(c) >= Len(q) \/ Refusable(q)
  BY <1>8, <1>10, <1>11
<1>12. ASSUME Belongs(next), ~LooksBehind(next)
       PROVE  c = Parent(q) /\ Len(q) = Len(stack) /\ ~Refusable(q)
  <2>1. StartsWith(q, c) /\ Len(SubSeq(q, Len(c) + 1, Len(q))) <= 1
    BY <1>5, <1>6, <1>12 DEF LooksBehind, Belongs
  <2>2. q = c \/ Parent(q) = c
    BY <1>2, <2>1, ChildFacts
  <2>3. q # c
    BY <1>2, <1>3
  <2>4. Len(c) = Len(q) - 1
    BY <1>2, <1>3, <2>2, <2>3, ParentFacts
  <2> QED
    BY <1>2, <1>3, <1>8, <1>12, <2>2, <2>3, <2>4
<1>13. ASSUME ~Refusable(q) PROVE Ordered(c, q) /\ (LooksBehind(next) \/ Belongs(next))
  <2>1. CASE Len(c) >= Len(q)
    BY <1>9, <2>1
  <2>2. CASE Len(c) = Len(q) - 1
    <3>1. StartsWith(q, c) /\ Len(Relative(next)) <= 1 /\ Ordered(c, q) /\ c # q
      <4>1. Len(Relative(next)) <= 1
        <5>1. \A n \in {1} : n <= 1
          OBVIOUS
        <5>2. Len(Relative(next)) \in {1}
          BY <1>7, <2>2
        <5> QED
          BY <5>1, <5>2
      <4>2. c # q
        BY <1>3, <2>2
      <4> QED
        BY <1>3, <2>2, <4>1, <4>2
    <3>2. fs[c].type = "directory"
      BY <1>2, <3>1, ReachedFacts DEF Walk, Todo
    <3>3. PICK j \in 1..Len(accepted) : Current = accepted[j]
      <4>1. OpenNodes /\ Len(stack) \in 1..Len(stack) /\ Current = stack[Len(stack)]
        BY <1>2 DEF Place, NodeLabels, BusyLabels, Current
      <4> QED
        BY <4>1 DEF OpenNodes
    <3>4. Current = HeaderOf(c, fs[c])
      BY <3>3 DEF Walk, Faithful
    <3>5. Current.type = "directory"
      BY <3>2, <3>4 DEF HeaderOf
    <3> QED
      BY <1>1, <3>1, <3>5 DEF Belongs
  <2> QED
    BY <1>10, <1>13, <2>1, <2>2
<1> QED
  BY <1>1, <1>11, <1>12, <1>13

\* A call returns: those that are left are as they were.
LEMMA ReturnChain ==
  ASSUME DumpInv, Place, Walk, epc = "loop", Return, UNCHANGED accepted
  PROVE  ChainTo(LastAccepted.path)' /\ Len(stack') = Len(stack) - 1
<1>1. stack \in Seq(Offers) /\ stack # << >> /\ ChainTo(LastAccepted.path)
  BY OpenFacts DEF BusyLabels, Walk, Chain
<1>2. stack' = SubSeq(stack, 1, Len(stack) - 1)
  BY DEF Return
<1>3. /\ Len(stack) \in Nat \ {0} /\ Len(stack') = Len(stack) - 1
      /\ \A i \in 1..(Len(stack) - 1) : stack'[i] = stack[i]
  BY <1>1, <1>2, FrontFacts
<1>4. LastAccepted' = LastAccepted
  BY DEF LastAccepted
<1> QED
  BY <1>1, <1>3, <1>4 DEF ChainTo

\* What the emitter fails with is not the destination's: it was given what it cannot take.
LEMMA EmitterBlame ==
  ASSUME DumpInv, Place, Walk, EmitterStep, ~failing'
  PROVE  verdict' = verdict \/ ~Dumpable
<1>1. ~PutFails
  BY DEF PutFails
<1>2. CASE EmitOpening \/ EmitEntry \/ EmitEntryClose \/ CloseErrors
  BY <1>1, <1>2 DEF EmitOpening, EmitEntry, EmitEntryClose, CloseErrors, Goto
<1>3. CASE Finish
  <2>1. CASE left = 0
    BY <1>1, <1>3, <2>1 DEF Finish, Goto
  <2>2. CASE left # 0
    <3>1. epc = "finish" /\ left > 0
      BY <1>3, <2>2 DEF Finish
    <3>2. \/ wpc = "wait" /\ err = "none"
          \/ wpc = "closing" /\ dpc = "closing"
      BY <3>1 DEF DumpInv, Inv, TypeOK, Turns, Calls, EndedLabels
    <3>3. err = "none" \/ err = "err"
      BY DEF DumpInv, Inv, TypeOK
    <3>4. wpc # "wait"
      BY <2>2, <3>1, <3>2 DEF Walk, Owed
    <3>5. result = "err" \/ err = "err"
      BY <2>2, <3>2, <3>3, <3>4 DEF Walk, Owed, Hand
    <3> QED
      BY <3>5 DEF Walk, Blame
  <2> QED
    BY <2>1, <2>2
<1>4. CASE NoMore
  BY <1>1, <1>4 DEF NoMore, Return, Goto
<1>5. CASE Bounce
  <2>1. epc = "loop" /\ next # NoNode /\ LooksBehind(next) /\ Return
    BY <1>1, <1>5 DEF Bounce
  <2>2. CASE Len(stack) > 1
    BY <2>1, <2>2 DEF Return, Goto
  <2>3. CASE ~(Len(stack) > 1)
    <3>1. Len(stack) \in Nat \ {0} /\ Len(Current.path) = Len(stack) - 1 /\ accepted # << >>
          /\ LastAccepted.path \in Path /\ Current.path \in Path
          /\ StartsWith(LastAccepted.path, Current.path)
      BY <2>1, OpenFacts DEF BusyLabels
    <3>2. wpc = "wait" /\ (Len(Current.path) >= Len(offered.path) \/ Refusable(offered.path))
      BY <2>1, LoopFacts
    <3>3. /\ offered.path \in Path /\ Follows(LastAccepted.path, offered.path)
          /\ Refusable(offered.path) => ~Dumpable
      BY <3>1, <3>2, WaitFacts
    <3>4. Len(offered.path) \in Nat \ {0}
      BY <3>1, <3>3, AboveFollows
    <3>5. ~(Len(Current.path) >= Len(offered.path))
      BY <2>3, <3>1, <3>4
    <3> QED
      BY <3>2, <3>3, <3>5
  <2> QED
    BY <2>2, <2>3
<1>6. CASE RefuseNode
  <2>1. wpc = "wait" /\ Refusable(offered.path)
    BY <1>6, LoopFacts DEF RefuseNode
  <2> QED
    BY <2>1, WaitFacts
<1>7. CASE SeeClosed
  <2>1. CASE epc = "await"
    BY <1>7, <2>1 DEF SeeClosed, Goto
  <2>2. CASE epc # "await"
    <3>1. epc = "first" /\ closed /\ accepted = << >>
      BY <1>7, <2>2 DEF SeeClosed, Place
    <3>2. dpc \in {"closing", "end"} /\ result \in {"nil", "err"} /\ err \in {"none", "err"}
      BY <3>1 DEF DumpInv, Calls, Inv, TypeOK, Walk, Hand
    <3>3. CASE result = "nil" /\ err = "none"
      <4>1. Len(todo) = 0 /\ Len(accepted) = 0
        BY <3>1, <3>2, <3>3 DEF Walk, Hand
      <4>2. \A p \in Reached : p \notin Wanted
        BY <3>3, <4>1 DEF Walk, Complete, Under, Taken
      <4> QED
        BY <4>2 DEF Dumpable, Wanted
    <3> QED
      BY <3>2, <3>3 DEF Walk, Blame
  <2> QED
    BY <2>1, <2>2
<1> QED
  BY <1>2, <1>3, <1>4, <1>5, <1>6, <1>7 DEF EmitterStep

LEMMA EmitterChain ==
  ASSUME DumpInv, Place, Walk, EmitterStep, ~failing'
  PROVE  Chain'
<1>1. UNCHANGED <<wpc, offered, closed, accepted>>
  BY DEF EmitterStep, EmitOpening, Finish, NoMore, Bounce, EmitEntry, RefuseNode, EmitEntryClose,
         CloseErrors, SeeClosed, caller
<1>2. ~PutFails /\ LastAccepted' = LastAccepted
  BY <1>1 DEF PutFails, LastAccepted
<1>3. CASE UNCHANGED stack /\ epc' \in {"deposit", "closeErrors", "done"}
  BY <1>3 DEF Chain, BusyLabels
<1>4. CASE \/ UNCHANGED stack /\ epc \in BusyLabels /\ epc' \in BusyLabels
           \/ UNCHANGED stack /\ epc = "await" /\ epc' = "finish" /\ wpc # "wait"
           \/ UNCHANGED stack /\ epc = "open" /\ epc' = "yield"
  BY <1>1, <1>2, <1>4 DEF Walk, Chain, ChainTo, Refusable, BusyLabels
<1>5. CASE Bounce \/ NoMore
  <2>1. epc = "loop" /\ Return
    BY <1>2, <1>5 DEF Bounce, NoMore
  <2>2. ChainTo(LastAccepted.path)' /\ Len(stack') = Len(stack) - 1
    BY <1>1, <2>1, ReturnChain
  <2>3. epc' \in {"entryClose", "closeErrors", "deposit"}
    BY <2>1 DEF Return, Goto, Fail
  <2>4. wpc = "wait" => Len(stack') >= Len(offered.path) \/ Refusable(offered.path)
    <3> SUFFICES ASSUME wpc = "wait" PROVE Len(stack') >= Len(offered.path) \/ Refusable(offered.path)
      OBVIOUS
    <3>1. next # NoNode
      BY <2>1, NoNodeIsNone DEF DumpInv, Inv, Turns, Passed, BusyLabels
    <3>2. LooksBehind(next)
      BY <1>5, <3>1 DEF Bounce, NoMore
    <3>3. Len(Current.path) >= Len(offered.path) \/ Refusable(offered.path)
      BY <2>1, <3>1, <3>2, LoopFacts
    <3>4. Len(Current.path) = Len(stack) - 1
      BY <2>1, OpenFacts DEF BusyLabels
    <3> QED
      BY <2>2, <3>3, <3>4
  <2> QED
    BY <1>1, <2>2, <2>3, <2>4 DEF Chain, BusyLabels, Refusable
<1>6. CASE EmitEntry
  <2>1. /\ epc = "loop" /\ next # NoNode /\ ~LooksBehind(next) /\ Belongs(next)
        /\ stack' = Append(stack, next) /\ epc' = "open"
    BY <1>2, <1>6 DEF EmitEntry, Goto
  <2>2. /\ wpc = "wait" /\ next = offered /\ Current.path = Parent(offered.path)
        /\ Len(offered.path) = Len(stack) /\ ~Refusable(offered.path)
    BY <2>1, LoopFacts
  <2>3. /\ stack \in Seq(Offers) /\ Len(stack) \in Nat \ {0} /\ LastAccepted.path \in Path
        /\ \A i \in 1..Len(stack) :
             /\ stack[i].path \in Path /\ Len(stack[i].path) = i - 1
             /\ StartsWith(LastAccepted.path, stack[i].path)
        /\ Current.path \in Path /\ Len(Current.path) = Len(stack) - 1
        /\ StartsWith(LastAccepted.path, Current.path) /\ accepted # << >>
    BY <2>1, OpenFacts DEF BusyLabels
  <2>4. /\ offered \in Offers /\ offered.path \in Path /\ offered.path # Root
    BY <2>2, <2>3, WaitFacts DEF Follows
  <2>5. /\ Len(stack') = Len(stack) + 1 /\ stack'[Len(stack) + 1] = offered
        /\ \A i \in 1..Len(stack) : stack'[i] = stack[i]
    BY <2>1, <2>2, <2>3, <2>4, AppendProperties
  <2>6. ASSUME NEW i \in 1..Len(stack) PROVE StartsWith(offered.path, stack[i].path)
    <3>1. Len(stack[i].path) <= Len(Current.path)
      BY <2>3
    <3>2. StartsWith(Current.path, stack[i].path)
      BY <2>3, <3>1, StartsWithFacts
    <3>3. StartsWith(offered.path, Current.path)
      BY <2>2, <2>4, ParentFacts
    <3> QED
      BY <2>3, <2>4, <3>2, <3>3, StartsWithFacts
  <2>7. StartsWith(offered.path, offered.path)
    BY <2>4, StartsWithFacts
  <2>8. ASSUME NEW i \in 1..(Len(stack) + 1)
        PROVE  Len(stack'[i].path) = i - 1 /\ StartsWith(offered.path, stack'[i].path)
    <3>1. CASE i = Len(stack) + 1
      BY <2>2, <2>3, <2>5, <2>7, <3>1
    <3>2. CASE i # Len(stack) + 1
      <4>1. i \in 1..Len(stack)
        BY <2>3, <2>8, <3>2
      <4> QED
        BY <2>3, <2>5, <2>6, <4>1
    <3> QED
      BY <3>1, <3>2
  <2>9. ChainTo(offered.path)'
    BY <1>1, <2>5, <2>8 DEF ChainTo
  <2> QED
    BY <1>1, <2>1, <2>2, <2>9 DEF Chain, Refusable, BusyLabels
<1>7. CASE EmitOpening \/ Finish \/ RefuseNode \/ EmitEntryClose \/ CloseErrors \/ SeeClosed
  <2>1. closed => wpc # "wait"
    BY DEF DumpInv, Inv, Turns
  <2> QED
    BY <1>2, <1>3, <1>4, <1>7, <2>1 DEF EmitOpening, Finish, RefuseNode, EmitEntryClose, CloseErrors,
       SeeClosed, Goto, Fail, BusyLabels
<1> QED
  BY <1>5, <1>6, <1>7 DEF EmitterStep

LEMMA EmitterWalk ==
  ASSUME DumpInv, Place, Walk, EmitterStep, UNCHANGED dumpVars, ~failing'
  PROVE  Walk'
<1>1. /\ UNCHANGED <<wpc, offered, closed, err, accepted>>
      /\ \/ UNCHANGED left
         \/ epc = "open" /\ epc' = "yield"
      /\ epc' = "finish" => closed
  BY DEF EmitterStep, EmitOpening, Finish, NoMore, Bounce, EmitEntry, RefuseNode, EmitEntryClose,
         CloseErrors, SeeClosed, caller, content, Goto, Fail, PutFails, Return
<1>2. UNCHANGED <<fs, refused, dumpPath, dpc, todo, fi, opened, copied, result>>
  BY DEF dumpVars, world, dumpPath
<1>3. Todo' /\ Hand' /\ Behind' /\ Faithful' /\ Complete'
  BY <1>1, <1>2, WalkKept
<1>4. Owed'
  <2>1. CASE UNCHANGED left
    <3>1. ~(wpc = "wait" /\ epc' = "finish")
      BY <1>1 DEF DumpInv, Inv, Turns
    <3> QED
      BY <1>1, <1>2, <2>1, <3>1 DEF Walk, Owed, HeadTaken
  <2>2. CASE epc = "open" /\ epc' = "yield"
    <3>1. wpc = "wait" /\ dpc = "announced"
      BY <2>2 DEF DumpInv, Inv, TypeOK, Turns, Calls, EndedLabels
    <3> QED
      BY <1>1, <1>2, <2>2, <3>1 DEF Owed, HeadTaken
  <2> QED
    BY <1>1, <2>1, <2>2
<1>5. Blame'
  <2>1. verdict' = verdict \/ ~Dumpable
    BY EmitterBlame
  <2>2. Dumpable' = Dumpable
    BY <1>2, WorldKept
  <2> QED
    BY <1>1, <1>2, <2>1, <2>2 DEF Walk, Blame
<1> QED
  BY <1>3, <1>4, <1>5, EmitterChain DEF Walk

----------------------------------------------------------------------------
(***************************************************************************)
(* A call of the writer, while the walk goes on.                           *)
(***************************************************************************)
LEMMA SendHeaderWalk ==
  ASSUME DumpInv, Place, Walk, SendHeader, UNCHANGED dumpVars
  PROVE  Walk'
<1>1. UNCHANGED <<fs, refused, dumpPath, dpc, todo, fi, opened, copied, result>>
  BY DEF dumpVars, world, dumpPath
<1>2. /\ wpc = "send" /\ wpc' = "wait" /\ UNCHANGED <<left, offered, closed, err, accepted>>
  BY DEF SendHeader, content
<1>3. /\ dpc = "announced" /\ err = "none" /\ offered.path \in Path /\ ~HeadTaken /\ ~HeadTaken'
      /\ accepted # << >> => /\ LastAccepted.path \in Path
                             /\ Follows(LastAccepted.path, offered.path)
      /\ Head(todo) = todo[1] /\ 1 \in 1..Len(todo) /\ offered.path = Head(todo)
  BY <1>1, <1>2, WaitFacts DEF HeadTaken
<1>4. Reached' = Reached /\ Wanted' = Wanted /\ Dumpable' = Dumpable
  BY <1>1, WorldKept
<1>5. Todo' /\ Hand'
  BY <1>1, <1>2, <1>4 DEF Walk, Todo, Hand
<1>6. Behind'
  BY <1>1, <1>2, <1>3 DEF Walk, Behind, LastAccepted
<1>7. Faithful' /\ Complete'
  BY <1>1, <1>2, <1>4 DEF Walk, Faithful, Complete, Under, Taken
<1>8. Owed'
  BY <1>1, <1>2, <1>3 DEF Walk, Owed
<1>9. CASE epc = "await"
  <2>1. epc' = "finish" /\ UNCHANGED <<stack, verdict>>
    BY <1>9 DEF SendHeader, Goto
  <2>2. /\ accepted # << >> /\ LastAccepted.path \in Path /\ Current.path \in Path
        /\ Len(Current.path) = Len(stack) - 1 /\ Len(stack) \in Nat \ {0}
        /\ StartsWith(LastAccepted.path, Current.path)
    BY <1>9, OpenFacts
  <2>3. Current = LastAccepted
    BY <1>9 DEF Place
  <2>4. Len(stack) >= Len(offered.path)
    <3>1. /\ Len(LastAccepted.path) >= Len(offered.path) - 1 /\ Len(offered.path) \in Nat
      BY <1>3, <2>2, AboveFollows
    <3> QED
      BY <2>2, <2>3, <3>1
  <2>5. Chain'
    BY <1>2, <1>9, <2>1, <2>4 DEF Walk, Chain, ChainTo, LastAccepted, BusyLabels
  <2>6. Blame'
    BY <1>1, <1>2, <1>4, <2>1 DEF Walk, Blame
  <2> QED
    BY <1>5, <1>6, <1>7, <1>8, <2>5, <2>6 DEF Walk
<1>10. CASE epc = "first"
  <2>1. accepted = << >>
    BY <1>10 DEF Place
  <2>2. offered.path = Root
    BY <1>3, <2>1 DEF Walk, Behind
  <2>3. epc' = "open" /\ stack' = <<offered>> /\ UNCHANGED verdict
    BY <1>10, <2>2 DEF SendHeader, Goto
  <2>4. Len(Root) = 0 /\ StartsWith(Root, Root)
    BY <1>3, <2>2, StartsWithFacts DEF Root
  <2>5. Len(stack') = 1 /\ stack'[1] = offered
    BY <2>3
  <2>6. ChainTo(offered.path)'
    BY <1>2, <2>2, <2>4, <2>5 DEF ChainTo
  <2>7. Chain'
    BY <1>2, <2>2, <2>3, <2>6 DEF Chain, Refusable, BusyLabels
  <2>8. Blame'
    BY <1>1, <1>2, <1>4, <2>3 DEF Walk, Blame
  <2> QED
    BY <1>5, <1>6, <1>7, <1>8, <2>7, <2>8 DEF Walk
<1> QED
  BY <1>9, <1>10 DEF SendHeader

\* The node at hand is the last one announced.
LEMMA HeaderDoneWalk ==
  ASSUME DumpInv, Place, Counted, Walk, ~failing, HeaderDone, UNCHANGED dumpVars
  PROVE  Walk'
<1>1. UNCHANGED <<fs, refused, dumpPath, dpc, todo, fi, opened, copied, result>>
  BY DEF dumpVars, world, dumpPath
<1>2. /\ wpc = "wait" /\ wpc' = "idle" /\ epc = "yield" /\ epc' = "await"
      /\ accepted' = Append(accepted, offered)
      /\ UNCHANGED <<left, offered, err, stack, verdict>>
  BY DEF HeaderDone, content, Goto
<1>3. /\ dpc = "announced" /\ err = "none" /\ todo # << >> /\ offered \in Offers
      /\ offered = HeaderOf(Head(todo), fi) /\ offered.path = Head(todo)
      /\ Head(todo) = todo[1] /\ 1 \in 1..Len(todo)
      /\ offered.path \in Path /\ offered.path \in Wanted
      /\ offered = HeaderOf(offered.path, fs[offered.path])
  BY <1>2, WaitFacts
<1>4. Reached' = Reached /\ Wanted' = Wanted /\ Dumpable' = Dumpable
  BY <1>1, WorldKept
<1> DEFINE n == Len(accepted)
<1>5. /\ n \in Nat /\ Len(accepted') = n + 1 /\ accepted'[n + 1] = offered
      /\ \A i \in 1..n : accepted'[i] = accepted[i]
      /\ accepted' # << >>
  BY <1>2, <1>3, AppendProperties, LenProperties DEF DumpInv, Inv, TypeOK
<1> HIDE DEF n
<1>6. LastAccepted' = offered
  BY <1>5 DEF LastAccepted
<1>7. Todo' /\ Hand'
  BY <1>1, <1>2, <1>4 DEF Walk, Todo, Hand
<1>8. Behind'
  <2>1. HeadTaken'
    BY <1>1, <1>2, <1>3 DEF HeadTaken
  <2>2. \A i \in 1..Len(todo) : i = 1 \/ (1 < i /\ Follows(todo[1], todo[i]))
    <3>1. Len(todo) \in Nat
      BY <1>3, TodoFacts DEF Walk
    <3>2. \A i \in 1..Len(todo) : i = 1 \/ 1 < i
      BY <3>1
    <3> QED
      BY <1>3, <3>2 DEF Walk, Todo
  <2> QED
    BY <1>1, <1>3, <1>5, <1>6, <2>1, <2>2 DEF Behind
<1>9. Faithful'
  <2>1. \A i \in 1..(n + 1) : i \in 1..n \/ i = n + 1
    BY <1>5
  <2>2. offered.path # Root => Last(offered.path) \notin DotDotNames
    BY <1>2 DEF Walk, Chain, Refusable
  <2>3. \A i \in 1..n : /\ accepted[i].path \in Wanted
                        /\ accepted[i] = HeaderOf(accepted[i].path, fs[accepted[i].path])
                        /\ accepted[i].path # Root => Last(accepted[i].path) \notin DotDotNames
    BY DEF Walk, Faithful, n
  <2>4. \A i \in 1..(n + 1) :
          /\ accepted'[i].path \in Wanted
          /\ accepted'[i] = HeaderOf(accepted'[i].path, fs[accepted'[i].path])
          /\ accepted'[i].path # Root => Last(accepted'[i].path) \notin DotDotNames
    BY <1>3, <1>5, <2>1, <2>2, <2>3
  <2> QED
    BY <1>1, <1>4, <1>5, <2>4 DEF Faithful
<1>10. Complete'
  <2>1. \A p : Taken(p) => Taken(p)'
    <3>1. \A i \in 1..n : i \in 1..(n + 1)
      BY <1>5
    <3> QED
      BY <1>5, <3>1 DEF Taken, n
  <2>2. \A p : Under(p)' <=> Under(p)
    BY <1>1 DEF Under
  <2> QED
    BY <1>1, <1>2, <1>4, <2>1, <2>2 DEF Walk, Complete
<1>11. Owed'
  <2>1. left = offered.size
    BY <1>2 DEF Counted
  <2>2. offered.size = fi.size
    BY <1>3 DEF HeaderOf
  <2> QED
    BY <1>1, <1>2, <1>3, <2>1, <2>2 DEF Owed
<1>12. Blame'
  BY <1>1, <1>2, <1>4 DEF Walk, Blame
<1>13. Chain'
  <2>1. ChainTo(offered.path)
    BY <1>2 DEF Walk, Chain
  <2>2. ChainTo(LastAccepted.path)'
    BY <1>2, <1>6, <2>1 DEF ChainTo
  <2> QED
    BY <1>2, <2>2 DEF Chain, BusyLabels
<1> QED
  BY <1>7, <1>8, <1>9, <1>10, <1>11, <1>12, <1>13 DEF Walk

\* The call has the emitter's error, or finds that it has ended.
LEMMA CallEndsWalk ==
  ASSUME DumpInv, Walk, ReceiveError \/ CloseReturns, UNCHANGED dumpVars
  PROVE  Walk'
<1>1. UNCHANGED <<fs, refused, dumpPath, dpc, todo, fi, opened, copied, result>>
  BY DEF dumpVars, world, dumpPath
<1>2. /\ wpc \in {"wait", "closing"} /\ wpc' = "idle" /\ dpc \in {"announced", "closing"}
      /\ UNCHANGED <<left, offered, accepted, stack, verdict>>
      /\ \/ verdict = "err" /\ err' = "err"
         \/ wpc = "closing" /\ UNCHANGED err
      /\ epc' \in EndedLabels
  BY DEF ReceiveError, CloseReturns, content, emitter, Goto, DumpInv, Calls, Inv, Verdicts, EndedLabels
<1>3. Reached' = Reached /\ Wanted' = Wanted /\ Dumpable' = Dumpable
  BY <1>1, WorldKept
<1>4. Todo' /\ Hand'
  BY <1>1, <1>2, <1>3 DEF Walk, Todo, Hand
<1>5. dpc = "closing" \/ err' # "none"
  BY <1>2 DEF DumpInv, Calls
<1>6. HeadTaken' => err' # "none"
  BY <1>1, <1>5 DEF HeadTaken
<1>7. wpc = "closing" => dpc = "closing" /\ ~HeadTaken
  BY DEF DumpInv, Calls, HeadTaken
<1>8. Behind'
  BY <1>1, <1>2, <1>6, <1>7 DEF Walk, Behind, LastAccepted
<1>9. Owed'
  BY <1>1, <1>2, <1>6, <1>7 DEF Walk, Owed, HeadTaken
<1>10. Faithful' /\ Complete'
  BY <1>1, <1>2, <1>3 DEF Walk, Faithful, Complete, Under, Taken
<1>11. Blame'
  BY <1>1, <1>2, <1>3 DEF Walk, Blame
<1>12. Chain'
  BY <1>2 DEF Chain, BusyLabels, EndedLabels
<1> QED
  BY <1>4, <1>8, <1>9, <1>10, <1>11, <1>12 DEF Walk

----------------------------------------------------------------------------
(***************************************************************************)
(* The steps of dumpPath, on a file system that nobody changes.            *)
(***************************************************************************)
\* A step between two calls leaves alone what has been announced.
LEMMA AsideKept ==
  ASSUME Walk, UNCHANGED <<vars, fs, refused>>
  PROVE  /\ Faithful' /\ Chain' /\ Reached' = Reached /\ Wanted' = Wanted /\ Dumpable' = Dumpable
         /\ UNCHANGED <<left, epc, stack, verdict, wpc, offered, err, accepted, LastAccepted>>
<1>1. UNCHANGED <<left, epc, stack, verdict, wpc, offered, err, accepted, LastAccepted>>
  BY DEF vars, content, emitter, caller, LastAccepted
<1>2. Reached' = Reached /\ Wanted' = Wanted /\ Dumpable' = Dumpable
  BY WorldKept
<1>3. Faithful'
  BY <1>1, <1>2 DEF Walk, Faithful
<1>4. Chain'
  BY <1>1 DEF Walk, Chain, ChainTo
<1> QED
  BY <1>1, <1>2, <1>3, <1>4

\* dumpPath gives up.
LEMMA GiveUpWalk ==
  ASSUME Walk, UNCHANGED <<vars, fs, refused>>, wpc = "idle", GiveUp, ~Dumpable,
         err = "err" \/ dpc = "lstat"
  PROVE  Walk'
<1>1. /\ dpc' = "close" /\ result' = "err" /\ UNCHANGED <<todo, fi, opened, copied>>
  BY DEF GiveUp
<1>2. /\ Faithful' /\ Chain' /\ Reached' = Reached /\ Wanted' = Wanted /\ Dumpable' = Dumpable
      /\ UNCHANGED <<left, epc, stack, verdict, wpc, offered, err, accepted, LastAccepted>>
  BY AsideKept
<1>3. Todo'
  BY <1>1, <1>2 DEF Walk, Todo
<1>4. Hand'
  BY <1>1, <1>2 DEF Walk, Hand, HandLabels
<1>5. Behind'
  BY <1>1, <1>2 DEF Walk, Behind, HeadTaken
<1>6. Owed'
  BY <1>1, <1>2 DEF Owed, HeadTaken
<1>7. Complete' /\ Blame'
  BY <1>1, <1>2 DEF Complete, Blame
<1> QED
  BY <1>2, <1>3, <1>4, <1>5, <1>6, <1>7 DEF Walk

\* dumpPath is through with a node, and with all below it.
LEMMA OnwardWalk ==
  ASSUME Walk, UNCHANGED <<vars, fs, refused>>, wpc = "idle", todo # << >>, GoOn(Tail(todo)),
         err = "none", left = 0,
         \A p \in Reached :
           StartsWith(p, Head(todo)) => fs[p].type # "other" /\ (p \in Wanted => Taken(p))
  PROVE  Walk'
<1>1. dpc' = "lstat" /\ todo' = Tail(todo) /\ UNCHANGED <<fi, opened, copied, result>>
  BY DEF GoOn
<1>2. /\ Faithful' /\ Chain' /\ Reached' = Reached /\ Wanted' = Wanted /\ Dumpable' = Dumpable
      /\ UNCHANGED <<left, epc, stack, verdict, wpc, offered, err, accepted, LastAccepted>>
  BY AsideKept
<1>3. /\ Len(todo) \in Nat \ {0} /\ 1 \in 1..Len(todo) /\ Head(todo) = todo[1]
      /\ todo' \in Seq(Reached \cup {Root}) /\ Len(todo') = Len(todo) - 1
      /\ \A i \in 1..Len(todo') : i + 1 \in 2..Len(todo) /\ todo'[i] = todo[i + 1]
  BY <1>1, TodoFacts DEF Walk
<1>4. Todo'
  <2>1. \A i, j \in 1..Len(todo') :
          i < j => Follows(todo'[i], todo'[j]) /\ ~StartsWith(todo'[j], todo'[i])
    <3> SUFFICES ASSUME NEW i \in 1..Len(todo'), NEW j \in 1..Len(todo'), i < j
                 PROVE  Follows(todo'[i], todo'[j]) /\ ~StartsWith(todo'[j], todo'[i])
      OBVIOUS
    <3>1. i + 1 \in 1..Len(todo) /\ j + 1 \in 1..Len(todo) /\ i + 1 < j + 1
      BY <1>3
    <3> QED
      BY <1>3, <3>1 DEF Walk, Todo
  <2> QED
    BY <1>2, <1>3, <2>1 DEF Walk, Todo
<1>5. Hand'
  BY <1>1, <1>2 DEF Walk, Hand, HandLabels
<1>6. Behind'
  <2>1. ~HeadTaken'
    BY <1>1 DEF HeadTaken
  <2>2. \A i \in 1..Len(todo') : i + 1 \in 1..Len(todo) /\ i + 1 # 1 /\ todo'[i] = todo[i + 1]
    BY <1>3
  <2> QED
    BY <1>2, <2>1, <2>2 DEF Walk, Behind
<1>7. Owed'
  BY <1>1, <1>2, <1>6 DEF Owed, HeadTaken
<1>8. Complete'
  <2>1. \A i \in 1..Len(todo) : i = 1 \/ (i - 1 \in 1..Len(todo') /\ todo'[i - 1] = todo[i])
    BY <1>3
  <2>2. \A p : Under(p) => StartsWith(p, Head(todo)) \/ Under(p)'
    BY <1>3, <2>1 DEF Under
  <2>3. \A p : Taken(p)' <=> Taken(p)
    BY <1>2 DEF Taken
  <2> QED
    BY <1>1, <1>2, <2>2, <2>3 DEF Walk, Complete
<1>9. Blame'
  BY <1>1, <1>2 DEF Walk, Blame
<1> QED
  BY <1>2, <1>4, <1>5, <1>6, <1>7, <1>8, <1>9 DEF Walk

\* dumpPath goes on with the node at hand, of which it may have learnt more.
LEMMA ProceedWalk ==
  ASSUME Walk, UNCHANGED <<vars, fs, refused, todo, result>>, wpc = "idle", Hand', Owed',
         HeadTaken' <=> HeadTaken
  PROVE  Walk'
<1>1. /\ Faithful' /\ Chain' /\ Reached' = Reached /\ Wanted' = Wanted /\ Dumpable' = Dumpable
      /\ UNCHANGED <<left, epc, stack, verdict, wpc, offered, err, accepted, LastAccepted>>
  BY AsideKept
<1>2. Todo'
  BY <1>1 DEF Walk, Todo
<1>3. Behind'
  BY <1>1 DEF Walk, Behind
<1>4. Complete'
  BY <1>1 DEF Walk, Complete, Under, Taken
<1>5. Blame'
  BY <1>1 DEF Walk, Blame
<1> QED
  BY <1>1, <1>2, <1>3, <1>4, <1>5 DEF Walk

\* A node that is taken, and below which there is nothing, has been dealt with.
LEMMA TakenFacts ==
  ASSUME DumpInv, Walk, HeadTaken, err = "none"
  PROVE  /\ todo # << >> /\ Head(todo) = todo[1] /\ 1 \in 1..Len(todo)
         /\ Head(todo) \in Wanted /\ Head(todo) \in Reached /\ Head(todo) \in Path
         /\ fi = fs[Head(todo)] /\ fi.type # "other" /\ Lookup(Head(todo)) = fi
         /\ fi.type \in {"regular", "symlink", "directory"} /\ fi.size \in Nat
         /\ fi.type # "regular" => fi.size = 0
         /\ Taken(Head(todo))
         /\ fi.type # "directory" =>
              \A p \in Reached :
                StartsWith(p, Head(todo)) => fs[p].type # "other" /\ (p \in Wanted => Taken(p))
<1>1. dpc \in HandLabels
  BY DEF HeadTaken, HandLabels
<1>2. todo # << >> /\ fi.type # "other" /\ Head(todo) \in Wanted /\ fi = fs[Head(todo)]
  BY <1>1 DEF DumpInv, Known, Walk, Hand
<1>3. Head(todo) = todo[1] /\ 1 \in 1..Len(todo) /\ Head(todo) \in Path
  BY <1>2, TodoFacts DEF Walk
<1>4. Head(todo) \in Reached /\ fs \in Trees
  BY <1>2 DEF Wanted, Walk, Todo
<1>5. /\ fi.type \in {"regular", "symlink", "directory"} /\ fi.size \in Nat
      /\ fi.type # "regular" => fi.size = 0
  BY <1>2, <1>4, NodeFacts
<1>6. Taken(Head(todo))
  <2>1. accepted # << >> /\ LastAccepted.path = Head(todo)
    BY DEF Walk, Behind
  <2>2. Len(accepted) \in 1..Len(accepted)
    BY <2>1, FrontFacts DEF DumpInv, Inv, TypeOK
  <2> QED
    BY <2>1, <2>2 DEF Taken, LastAccepted
<1>7. ASSUME fi.type # "directory", NEW p \in Reached, StartsWith(p, Head(todo))
      PROVE  fs[p].type # "other" /\ (p \in Wanted => Taken(p))
  <2>1. p = Head(todo)
    BY <1>2, <1>3, <1>4, <1>7, ReachedFacts
  <2> QED
    BY <1>2, <1>6, <2>1
<1>8. Lookup(Head(todo)) = fi
  BY <1>2, <1>4, ReachedFacts
<1> QED
  BY <1>2, <1>3, <1>4, <1>5, <1>6, <1>7, <1>8

LEMMA LstatWalk == ASSUME DumpInv, Walk, Lstat PROVE Walk'
<1> DEFINE h == Head(todo)
           node == Lookup(h)
<1>1. /\ dpc = "lstat" /\ todo # << >> /\ UNCHANGED <<vars, fs, refused>> /\ wpc = "idle"
      /\ err = "none" /\ left = 0 /\ fs \in Trees
  BY DEF Lstat, At, world, DumpInv, Calls, Inv, TypeOK, Walk, Hand, Owed, Todo
<1>2. h \in Path /\ h = todo[1] /\ h \in Reached \cup {Root}
  BY <1>1, TodoFacts, HeadTailProperties DEF Walk, Todo
<1>3. h \in Reached => node = fs[h]
  BY <1>1, ReachedFacts
<1>4. node.type # "none" => h \in Reached
  <2> SUFFICES ASSUME node.type # "none", h = Root PROVE h \in Reached
    BY <1>2
  <2>1. Root \in DOMAIN fs /\ Len(Root) = 0
    BY <1>1, TreesAreOffered DEF Root
  <2>2. Ancestors(Root) = {}
    BY <2>1 DEF Ancestors
  <2>3. node # Absent
    <3>1. Absent.type = "none"
      BY DEF Absent
    <3> QED
      BY <3>1
  <2> QED
    BY <2>1, <2>2, <2>3 DEF Reached
<1> HIDE DEF node
<1>5. CASE node.type \in {"none", "other"}
  <2>1. GiveUp
    BY <1>5 DEF Lstat, node
  <2>2. ~Dumpable
    <3>1. CASE h \in Reached
      <4>1. fs[h].type # "other" => fs[h].type # "none"
        BY <1>1, <3>1, NodeFacts
      <4> QED
        BY <1>3, <1>5, <3>1, <4>1 DEF Dumpable
    <3>2. CASE h \notin Reached
      BY <1>2, <3>2 DEF Dumpable, Wanted
    <3> QED
      BY <3>1, <3>2
  <2> QED
    BY <1>1, <2>1, <2>2, GiveUpWalk
<1>6. CASE node.type \notin {"none", "other"} /\ h \in refused
  <2>1. GoOn(Tail(todo))
    BY <1>6 DEF Lstat, node
  <2>2. ASSUME NEW p \in Reached, StartsWith(p, h)
        PROVE  fs[p].type # "other" /\ (p \in Wanted => Taken(p))
    <3>1. p = h
      <4>1. p # h => h \in Wanted
        BY <1>1, <1>2, <2>2, ReachedFacts
      <4> QED
        BY <1>6, <4>1 DEF Wanted
    <3> QED
      BY <1>3, <1>6, <2>2, <3>1 DEF Wanted
  <2> QED
    BY <1>1, <2>1, <2>2, OnwardWalk
<1>7. CASE node.type \notin {"none", "other"} /\ h \notin refused
  <2>1. /\ fi' = node /\ UNCHANGED <<todo, opened, copied, result>>
        /\ dpc' = IF node.type = "symlink" THEN "readlink" ELSE "announce"
    BY <1>7 DEF Lstat, node
  <2>2. h \in Wanted /\ node = fs[h]
    BY <1>3, <1>4, <1>7 DEF Wanted
  <2>3. Wanted' = Wanted /\ UNCHANGED <<err, left, wpc>>
    BY <1>1, WorldKept DEF vars, content, caller
  <2>4. Hand'
    BY <1>1, <2>1, <2>2, <2>3 DEF Walk, Hand
  <2>5. ~HeadTaken /\ ~HeadTaken'
    BY <1>1, <2>1 DEF HeadTaken
  <2>6. Owed'
    BY <1>1, <2>1, <2>3, <2>5 DEF Owed
  <2> QED
    BY <1>1, <2>1, <2>4, <2>5, <2>6, ProceedWalk
<1> QED
  BY <1>5, <1>6, <1>7

LEMMA ReadlinkWalk == ASSUME DumpInv, Walk, Readlink PROVE Walk'
<1>1. /\ dpc = "readlink" /\ todo # << >> /\ UNCHANGED <<vars, fs, refused>> /\ wpc = "idle"
      /\ err = "none" /\ left = 0 /\ fs \in Trees
  BY DEF Readlink, At, world, DumpInv, Calls, Inv, TypeOK, Walk, Hand, Owed, Todo
<1>2. Head(todo) \in Wanted /\ fi = fs[Head(todo)] /\ fi.type = "symlink"
  BY <1>1 DEF Walk, Hand, HandLabels
<1>3. Lookup(Head(todo)) = fi
  BY <1>1, <1>2, ReachedFacts DEF Wanted
<1>4. fi' = fi /\ dpc' = "announce" /\ UNCHANGED <<todo, opened, copied, result>>
  BY <1>2, <1>3 DEF Readlink
<1>5. Wanted' = Wanted /\ UNCHANGED <<err, left, wpc>>
  BY <1>1, WorldKept DEF vars, content, caller
<1>6. Hand'
  BY <1>1, <1>2, <1>4, <1>5 DEF Walk, Hand
<1>7. ~HeadTaken /\ ~HeadTaken'
  BY <1>1, <1>4 DEF HeadTaken
<1>8. Owed'
  BY <1>1, <1>4, <1>5, <1>7 DEF Owed
<1> QED
  BY <1>1, <1>4, <1>6, <1>7, <1>8, ProceedWalk

LEMMA AnnouncedWalk == ASSUME DumpInv, Walk, Announced PROVE Walk'
<1>1. /\ dpc = "announced" /\ wpc = "idle" /\ todo # << >> /\ UNCHANGED <<vars, fs, refused>>
      /\ HeadTaken /\ err \in {"none", "err"}
  BY DEF Announced, At, world, HeadTaken, DumpInv, Inv, TypeOK
<1>2. CASE err # "none"
  <2>1. GiveUp /\ err = "err"
    BY <1>1, <1>2 DEF Announced
  <2> QED
    BY <1>1, <2>1, GiveUpWalk DEF Walk, Blame
<1>3. CASE err = "none" /\ fi.type = "symlink"
  <2>1. GoOn(Tail(todo)) /\ fi.type # "directory" /\ fi.type # "regular"
    BY <1>3 DEF Announced
  <2>2. left = fi.size
    BY <1>1, <1>3 DEF Walk, Owed
  <2>3. /\ left = 0
        /\ \A p \in Reached :
             StartsWith(p, Head(todo)) => fs[p].type # "other" /\ (p \in Wanted => Taken(p))
    BY <1>1, <1>3, <2>1, <2>2, TakenFacts
  <2> QED
    BY <1>1, <1>3, <2>1, <2>3, OnwardWalk
<1>4. CASE err = "none" /\ fi.type # "symlink"
  <2>1. /\ dpc' = IF fi.type = "directory" THEN "readdir" ELSE "open"
        /\ UNCHANGED <<todo, fi, opened, copied, result>>
    BY <1>4 DEF Announced
  <2>2. /\ Head(todo) \in Wanted /\ fi = fs[Head(todo)]
        /\ fi.type # "directory" => fi.type = "regular"
    BY <1>1, <1>4, TakenFacts
  <2>3. Wanted' = Wanted /\ UNCHANGED <<err, left, wpc>>
    BY <1>1, WorldKept DEF vars, content, caller
  <2>4. Hand'
    BY <1>1, <1>4, <2>1, <2>2, <2>3 DEF Walk, Hand
  <2>5. HeadTaken'
    BY <2>1 DEF HeadTaken
  <2>6. Owed'
    BY <1>1, <1>4, <2>1, <2>3 DEF Walk, Owed
  <2> QED
    BY <1>1, <2>1, <2>4, <2>5, <2>6, ProceedWalk
<1> QED
  BY <1>2, <1>3, <1>4

LEMMA OpenWalk == ASSUME DumpInv, Walk, Open PROVE Walk'
<1>1. /\ dpc = "open" /\ todo # << >> /\ UNCHANGED <<vars, fs, refused>> /\ wpc = "idle"
      /\ err = "none" /\ HeadTaken /\ fi.type = "regular"
  BY DEF Open, At, world, HeadTaken, DumpInv, Calls, Inv, TypeOK, Walk, Hand
<1>2. /\ Head(todo) \in Wanted /\ fi = fs[Head(todo)] /\ Lookup(Head(todo)) = fi
      /\ fi.size \in Nat
  BY <1>1, TakenFacts
<1>3. Followed(Head(todo)) = fi
  BY <1>1, <1>2 DEF Followed
<1>4. opened' = fi /\ copied' = 0 /\ dpc' = "copy" /\ UNCHANGED <<todo, fi, result>>
  BY <1>1, <1>3 DEF Open
<1>5. Wanted' = Wanted /\ UNCHANGED <<err, left, wpc>>
  BY <1>1, WorldKept DEF vars, content, caller
<1>6. Hand'
  BY <1>1, <1>2, <1>4, <1>5 DEF Walk, Hand
<1>7. HeadTaken'
  BY <1>4 DEF HeadTaken
<1>8. Owed'
  <2>1. left = fi.size
    BY <1>1 DEF Walk, Owed
  <2>2. copied' \in Nat /\ copied' + left' = fi'.size
    BY <1>2, <1>4, <1>5, <2>1
  <2> QED
    BY <1>1, <1>4, <1>5, <2>2 DEF Owed
<1> QED
  BY <1>1, <1>4, <1>6, <1>7, <1>8, ProceedWalk

LEMMA CopyEndsWalk == ASSUME DumpInv, Walk, CopyEnds PROVE Walk'
<1>1. /\ dpc = "copy" /\ todo # << >> /\ UNCHANGED <<vars, fs, refused>> /\ wpc = "idle"
      /\ HeadTaken /\ fi.type = "regular" /\ opened = fi /\ left \in Nat
  BY DEF CopyEnds, At, world, HeadTaken, DumpInv, Calls, Inv, TypeOK, Walk, Hand
<1>2. CASE err = "err"
  <2>1. GiveUp
    BY <1>2 DEF CopyEnds
  <2> QED
    BY <1>1, <1>2, <2>1, GiveUpWalk DEF Walk, Blame
<1>3. CASE err = "none"
  <2>1. fi.size \in Nat /\ fi.type # "directory"
    BY <1>1, <1>3, TakenFacts
  <2>2. copied \in Nat /\ copied + left = fi.size
    BY <1>1, <1>3 DEF Walk, Owed
  <2>3. fi.size <= copied
    BY <1>1, <1>3 DEF CopyEnds
  <2>4. copied = fi.size /\ left = 0
    BY <1>1, <2>1, <2>2, <2>3
  <2>5. GoOn(Tail(todo))
    BY <1>1, <1>3, <2>4 DEF CopyEnds
  <2>6. \A p \in Reached :
          StartsWith(p, Head(todo)) => fs[p].type # "other" /\ (p \in Wanted => Taken(p))
    BY <1>1, <1>3, <2>1, TakenFacts
  <2> QED
    BY <1>1, <1>3, <2>4, <2>5, <2>6, OnwardWalk
<1> QED
  BY <1>2, <1>3 DEF CopyEnds

\* os.ReadDir finds each of the children once, one behind the other.
LEMMA ChildrenFacts ==
  ASSUME NEW h, IsFiniteSet(Found(h)), NEW s \in Children(h)
  PROVE  /\ s \in Seq(Found(h)) /\ Len(s) \in Nat
         /\ \A q \in Found(h) : \E i \in 1..Len(s) : s[i] = q
         /\ \A i, j \in 1..Len(s) : i < j => s[i] # s[j] /\ Ordered(s[i], s[j])
<1> DEFINE found == Found(h)
           n     == Cardinality(found)
<1>1. n \in Nat
  BY FS_CardinalityType
<1>2. s \in [1..n -> found] /\ \A i, j \in 1..n : i < j => s[i] # s[j] /\ Ordered(s[i], s[j])
  BY DEF Children
<1>3. IsFiniteSet(found)
  OBVIOUS
<1> HIDE DEF found
<1>4. Cardinality(1..n) = n
  BY <1>1, FS_Interval
<1> HIDE DEF n
<1>5. s \in Injection(1..n, found)
  <2>1. \A i, j \in 1..n : i < j \/ i = j \/ j < i
    BY <1>1
  <2>2. \A i, j \in 1..n : s[i] = s[j] => i = j
    BY <1>2, <2>1
  <2> QED
    BY <1>2, <2>2 DEF Injection, IsInjective
<1>6. Cardinality(1..n) = Cardinality(found) <=> s \in Surjection(1..n, found)
  BY <1>3, <1>5, FS_Injection
<1>7. \A q \in found : \E i \in 1..n : s[i] = q
  BY <1>4, <1>6 DEF Surjection, n
<1>8. s \in Seq(found) /\ Len(s) = n
  BY <1>1, <1>2
<1> QED
  BY <1>1, <1>2, <1>7, <1>8 DEF found

(***************************************************************************)
(* The children come in front of what is left: all that was below the      *)
(* directory is below one of them.                                         *)
(***************************************************************************)
LEMMA ReadDirWalk == ASSUME DumpInv, Walk, ReadDir PROVE Walk'
<1> DEFINE h    == Head(todo)
           rest == Tail(todo)
<1>1. /\ dpc = "readdir" /\ todo # << >> /\ UNCHANGED <<vars, fs, refused>> /\ wpc = "idle"
      /\ err = "none" /\ HeadTaken /\ fi.type = "directory" /\ fs \in Trees
  BY DEF ReadDir, At, world, HeadTaken, DumpInv, Calls, Inv, TypeOK, Walk, Hand, Todo
<1>2. /\ h \in Wanted /\ h \in Reached /\ h \in Path /\ fi = fs[h] /\ Lookup(h) = fi
      /\ fi.size = 0 /\ Taken(h) /\ h = todo[1]
  BY <1>1, TakenFacts
<1>3. Followed(h) = fi
  BY <1>1, <1>2 DEF Followed
<1>4. PICK s \in Children(h) : GoOn(s \o rest)
  BY <1>1, <1>3 DEF ReadDir
<1>5. IsFiniteSet(Found(h))
  <2>1. Found(h) \subseteq DOMAIN fs
    BY DEF Found
  <2> QED
    BY <2>1, FS_Subset DEF DumpInv, Known
<1>6. /\ s \in Seq(Found(h)) /\ Len(s) \in Nat
      /\ \A q \in Found(h) : \E i \in 1..Len(s) : s[i] = q
      /\ \A i, j \in 1..Len(s) : i < j => s[i] # s[j] /\ Ordered(s[i], s[j])
  BY <1>4, <1>5, ChildrenFacts
<1>7. /\ Len(todo) \in Nat \ {0} /\ \A i \in 1..Len(todo) : todo[i] \in Path
      /\ rest \in Seq(Reached \cup {Root}) /\ Len(rest) = Len(todo) - 1
      /\ \A i \in 1..Len(rest) : i + 1 \in 2..Len(todo) /\ rest[i] = todo[i + 1]
  BY <1>1, TodoFacts DEF Walk
<1>8. \A q \in Found(h) : q \in Reached /\ q \in Path /\ q # Root /\ Parent(q) = h
  BY <1>1, <1>2, FoundReached
<1>9. dpc' = "lstat" /\ todo' = s \o rest /\ UNCHANGED <<fi, opened, copied, result>>
  BY <1>4 DEF GoOn
<1> HIDE DEF rest
<1> DEFINE n == Len(s)
           m == Len(rest)
<1>10. \A i \in 1..n : s[i] \in Found(h)
  BY <1>6, ElementOfSeq
<1>11. /\ \A i \in 1..n : s[i] \in Path /\ Follows(h, s[i])
       /\ \A i, j \in 1..n : i < j => Follows(s[i], s[j]) /\ ~StartsWith(s[j], s[i])
  BY <1>6, <1>8, <1>10, ChildFollows, SiblingsFollow
<1>12. /\ m \in Nat /\ \A i \in 1..m : rest[i] \in Path /\ Follows(h, rest[i]) /\ ~StartsWith(rest[i], h)
       /\ \A i, j \in 1..m : i < j => Follows(rest[i], rest[j]) /\ ~StartsWith(rest[j], rest[i])
  <2>1. m \in Nat /\ \A i \in 1..m : i + 1 \in 1..Len(todo) /\ 1 < i + 1 /\ 1 \in 1..Len(todo)
    BY <1>7
  <2>2. \A i, j \in 1..m : i < j => i + 1 < j + 1
    BY <2>1
  <2>3. \A i \in 1..m : Follows(h, rest[i]) /\ ~StartsWith(rest[i], h)
    BY <1>2, <1>7, <2>1 DEF Walk, Todo
  <2>4. \A i, j \in 1..m : i < j => Follows(rest[i], rest[j]) /\ ~StartsWith(rest[j], rest[i])
    BY <1>7, <2>1, <2>2 DEF Walk, Todo
  <2>5. \A i \in 1..m : rest[i] \in Path
    BY <1>7, <2>1
  <2> QED
    BY ONLY <2>1, <2>3, <2>4, <2>5
<1>13. \A i \in 1..n : \A j \in 1..m : Follows(s[i], rest[j]) /\ ~StartsWith(rest[j], s[i])
  BY <1>2, <1>8, <1>10, <1>12, BelowFollows
<1>14. /\ todo' \in Seq(Reached \cup {Root}) /\ Len(todo') = n + m /\ Len(todo') \in Nat
       /\ \A i \in 1..(n + m) : todo'[i] = IF i <= n THEN s[i] ELSE rest[i - n]
  <2>1. s \in Seq(Reached \cup {Root})
    <3>1. \A i \in 1..n : s[i] \in Reached \cup {Root}
      BY <1>8, <1>10
    <3> QED
      BY <1>6, <3>1
  <2>2. /\ s \o rest \in Seq(Reached \cup {Root}) /\ Len(s \o rest) = Len(s) + Len(rest)
        /\ \A i \in 1..(Len(s) + Len(rest)) : (s \o rest)[i] = IF i <= Len(s) THEN s[i] ELSE rest[i - Len(s)]
    BY <1>7, <2>1, ConcatProperties
  <2> QED
    BY <1>6, <1>9, <1>12, <2>2
<1> HIDE DEF n, m
<1>15. n \in Nat /\ m \in Nat
  BY <1>6, <1>12 DEF n
<1>16. \A i \in 1..(n + m) : \/ i \in 1..n /\ todo'[i] = s[i]
                             \/ i - n \in 1..m /\ ~(i <= n) /\ todo'[i] = rest[i - n]
  BY <1>14, <1>15
<1>17. /\ \A i \in 1..n : i \in 1..(n + m) /\ todo'[i] = s[i]
       /\ \A i \in 1..m : i + n \in 1..(n + m) /\ todo'[i + n] = rest[i]
  <2>1. \A i \in 1..m : i + n \in 1..(n + m) /\ ~(i + n <= n) /\ (i + n) - n = i
    BY <1>15
  <2>2. \A i \in 1..n : i \in 1..(n + m) /\ i <= n
    BY <1>15
  <2> QED
    BY <1>14, <2>1, <2>2
<1>18. /\ Faithful' /\ Chain' /\ Reached' = Reached /\ Wanted' = Wanted /\ Dumpable' = Dumpable
       /\ UNCHANGED <<left, epc, stack, verdict, wpc, offered, err, accepted, LastAccepted>>
  BY <1>1, AsideKept
<1>19. Todo'
  <2>1. ASSUME NEW i \in 1..(n + m), NEW j \in 1..(n + m), i < j
        PROVE  Follows(todo'[i], todo'[j]) /\ ~StartsWith(todo'[j], todo'[i])
    <3>1. CASE i \in 1..n /\ j \in 1..n
      BY <1>11, <1>17, <2>1, <3>1 DEF n
    <3>2. CASE i \in 1..n /\ j \notin 1..n
      BY <1>13, <1>16, <1>17, <2>1, <3>2 DEF n, m
    <3>3. CASE i \notin 1..n
      <4>1. i - n \in 1..m /\ j - n \in 1..m /\ i - n < j - n
        BY <1>15, <2>1, <3>3
      <4>2. todo'[i] = rest[i - n] /\ todo'[j] = rest[j - n]
        BY <1>14, <1>15, <2>1, <3>3
      <4> QED
        BY <1>12, <4>1, <4>2 DEF m
    <3> QED
      BY <3>1, <3>2, <3>3
  <2> QED
    BY <1>1, <1>14, <1>18, <2>1 DEF Todo
<1>20. Hand'
  BY <1>1, <1>9, <1>18 DEF Walk, Hand, HandLabels
<1>21. ~HeadTaken'
  BY <1>9 DEF HeadTaken
<1>22. Behind'
  <2>1. accepted # << >> /\ LastAccepted.path = h
    BY <1>1 DEF Walk, Behind
  <2>2. \A i \in 1..(n + m) : Follows(h, todo'[i])
    BY <1>11, <1>12, <1>16 DEF n, m
  <2> QED
    BY <1>14, <1>18, <1>21, <2>1, <2>2 DEF Behind
<1>23. Owed'
  <2>1. left = 0
    BY <1>1, <1>2 DEF Walk, Owed
  <2> QED
    BY <1>1, <1>9, <1>18, <1>21, <2>1 DEF Owed
<1>24. Complete'
  <2>1. ASSUME NEW p \in Reached, StartsWith(p, h), p # h PROVE Under(p)'
    <3> DEFINE c == SubSeq(p, 1, Len(h) + 1)
    <3>1. p \in Path /\ p \in DOMAIN fs /\ Len(p) \in Nat /\ Len(h) \in Nat
      BY <1>1, <1>2, ReachedFacts, PathFacts
    <3>2. Len(h) + 1 \in 0..Len(p)
      <4>1. Len(h) <= Len(p) /\ Len(h) # Len(p)
        BY <1>2, <2>1, <3>1, StartsWithFacts
      <4> QED
        BY <3>1, <4>1
    <3>3. c \in Path /\ Len(c) = Len(h) + 1 /\ StartsWith(p, c) /\ c \in DOMAIN fs
      BY <1>1, <3>1, <3>2, PrefixFacts, TreesAreOffered
    <3> HIDE DEF c
    <3>4. StartsWith(c, h)
      <4>1. Len(h) <= Len(c)
        BY <3>1, <3>3
      <4> QED
        BY <1>2, <2>1, <3>1, <3>3, <4>1, StartsWithFacts
    <3>5. c # Root
      BY <3>1, <3>3 DEF Root
    <3>6. h = Parent(c)
      <4>1. Len(h) = Len(c) - 1
        BY <3>1, <3>3
      <4> QED
        BY <1>2, <3>3, <3>4, <3>5, <4>1, ParentFacts
    <3>7. fs[c] # Absent
      <4>1. CASE c = p
        BY <1>1, <4>1, ReachedFacts
      <4>2. CASE c # p
        <5>1. fs[c].type = "directory"
          BY <1>1, <3>3, <4>2, ReachedFacts
        <5>2. Absent.type = "none"
          BY DEF Absent
        <5> QED
          BY <5>1, <5>2
      <4> QED
        BY <4>1, <4>2
    <3>8. c \in Found(h)
      BY <3>3, <3>5, <3>6, <3>7 DEF Found
    <3>9. PICK i \in 1..n : s[i] = c
      BY <1>6, <3>8 DEF n
    <3> QED
      BY <1>14, <1>17, <3>3, <3>9 DEF Under
  <2>2. ASSUME NEW p \in Reached, Under(p), ~StartsWith(p, h) PROVE Under(p)'
    <3>1. PICK i \in 1..Len(todo) : StartsWith(p, todo[i])
      BY <2>2 DEF Under
    <3>2. i # 1
      BY <1>2, <2>2, <3>1
    <3>3. i - 1 \in 1..m /\ (i - 1) + 1 = i
      BY <1>7, <3>1, <3>2 DEF m
    <3>4. rest[i - 1] = todo[i]
      BY <1>7, <3>3 DEF m
    <3> QED
      BY <1>14, <1>17, <3>1, <3>3, <3>4 DEF Under
  <2>3. \A p : Taken(p)' <=> Taken(p)
    BY <1>18 DEF Taken
  <2>4. fs[h].type # "other"
    BY <1>1, <1>2
  <2> QED
    BY <1>1, <1>2, <1>9, <1>18, <2>1, <2>2, <2>3, <2>4 DEF Walk, Complete
<1>25. Blame'
  BY <1>9, <1>18 DEF Walk, Blame
<1> QED
  BY <1>18, <1>19, <1>20, <1>22, <1>23, <1>24, <1>25 DEF Walk

LEMMA AnnounceWalk == ASSUME DumpInv, Walk, Announce PROVE Walk'
<1>1. /\ dpc = "announce" /\ dpc' = "announced" /\ WriteHeader(HeaderOf(Head(todo), fi))
      /\ UNCHANGED <<fs, refused, todo, fi, opened, copied, result>>
  BY DEF Announce, At, world
<1>2. /\ Head(todo) \in Wanted /\ fi = fs[Head(todo)] /\ fi.type # "other" /\ fs \in Trees
      /\ err = "none" /\ left = 0
  BY <1>1 DEF DumpInv, Known, HandLabels, Walk, Hand, Owed, Todo
<1>3. Valid(HeaderOf(Head(todo), fi))
  BY <1>2, NodeFacts DEF Wanted
<1>4. /\ wpc = "idle" /\ ~closed /\ wpc' = "send"
      /\ UNCHANGED <<left, epc, stack, verdict, err, accepted>>
  BY <1>1, <1>3 DEF WriteHeader, content, emitter
<1>5. epc \in {"first", "await"}
  BY <1>2, <1>4 DEF DumpInv, Inv, Turns
<1>6. ~HeadTaken /\ ~HeadTaken' /\ LastAccepted' = LastAccepted
  BY <1>1, <1>4 DEF HeadTaken, LastAccepted
<1>7. Reached' = Reached /\ Wanted' = Wanted /\ Dumpable' = Dumpable
  BY <1>1, WorldKept
<1>8. Todo' /\ Behind'
  BY <1>1, <1>4, <1>6, <1>7 DEF Walk, Todo, Behind
<1>9. Hand'
  BY <1>1, <1>2, <1>7 DEF Walk, Hand
<1>10. Owed'
  BY <1>1, <1>2, <1>4, <1>6 DEF Owed
<1>11. Faithful' /\ Complete' /\ Blame'
  BY <1>1, <1>4, <1>7 DEF Walk, Faithful, Complete, Under, Taken, Blame
<1>12. Chain'
  BY <1>4, <1>5, <1>6 DEF Walk, Chain, ChainTo, BusyLabels
<1> QED
  BY <1>8, <1>9, <1>10, <1>11, <1>12 DEF Walk

\* The writer has room for what the file has left, as long as both were told the same size.
LEMMA CopyChunkWalk == ASSUME DumpInv, Walk, CopyChunk, ~failing' PROVE Walk'
<1>1. PICK n \in 1..2 : n <= opened.size - copied /\ Write(n) /\ copied' = copied + n
  BY DEF CopyChunk
<1>2. /\ dpc = "copy" /\ err = "none" /\ opened = fi
      /\ UNCHANGED <<fs, refused, dpc, todo, fi, opened, result>>
  BY DEF CopyChunk, At, world, Walk, Hand
<1>3. HeadTaken /\ HeadTaken'
  BY <1>2 DEF HeadTaken
<1>4. copied \in Nat /\ left \in Nat /\ copied + left = fi.size /\ fi.size \in Nat
  BY <1>2, <1>3, TakenFacts DEF Walk, Owed, DumpInv, Inv, TypeOK
<1>5. n <= left /\ ~(n > left)
  BY <1>1, <1>2, <1>4
<1>6. ~PutFails
  BY DEF PutFails
<1>7. /\ left' = left - n
      /\ UNCHANGED <<epc, stack, verdict, wpc, offered, err, accepted, LastAccepted>>
  BY <1>1, <1>5, <1>6 DEF Write, emitter, LastAccepted
<1>8. copied' \in Nat /\ copied' + left' = fi.size
  BY <1>1, <1>4, <1>7
<1>9. Reached' = Reached /\ Wanted' = Wanted /\ Dumpable' = Dumpable
  BY <1>2, WorldKept
<1>10. Todo' /\ Behind'
  BY <1>2, <1>3, <1>7, <1>9 DEF Walk, Todo, Behind
<1>11. Hand'
  BY <1>2, <1>7, <1>9 DEF Walk, Hand
<1>12. wpc = "idle"
  BY <1>1 DEF Write
<1>13. Owed'
  BY <1>2, <1>7, <1>8, <1>12 DEF Owed
<1>14. Faithful' /\ Complete' /\ Blame'
  BY <1>2, <1>7, <1>9 DEF Walk, Faithful, Complete, Under, Taken, Blame
<1>15. Chain'
  BY <1>7 DEF Walk, Chain, ChainTo
<1> QED
  BY <1>10, <1>11, <1>13, <1>14, <1>15 DEF Walk

LEMMA StartCloseWalk == ASSUME DumpInv, Walk, StartClose PROVE Walk'
<1>1. /\ dpc = "close" \/ (dpc = "lstat" /\ todo = << >>)
      /\ dpc' = "closing" /\ wpc' = "closing"
      /\ UNCHANGED <<fs, refused, todo, fi, opened, copied, result>>
      /\ UNCHANGED <<left, epc, stack, verdict, offered, err, accepted, LastAccepted>>
  BY DEF StartClose, Close, world, content, emitter, LastAccepted
<1>2. ~HeadTaken /\ ~HeadTaken'
  BY <1>1 DEF HeadTaken
<1>3. Reached' = Reached /\ Wanted' = Wanted /\ Dumpable' = Dumpable
  BY <1>1, WorldKept
<1>4. Todo' /\ Behind'
  BY <1>1, <1>2, <1>3 DEF Walk, Todo, Behind
<1>5. Hand'
  BY <1>1, <1>3 DEF Walk, Hand, HandLabels
<1>6. Owed'
  BY <1>1, <1>2 DEF Walk, Owed, Hand
<1>7. Faithful' /\ Complete' /\ Blame'
  BY <1>1, <1>3 DEF Walk, Faithful, Complete, Under, Taken, Blame
<1>8. Chain'
  BY <1>1 DEF Walk, Chain, ChainTo
<1> QED
  BY <1>4, <1>5, <1>6, <1>7, <1>8 DEF Walk

LEMMA EndDumpWalk == ASSUME DumpInv, Walk, EndDump PROVE Walk'
<1>1. /\ dpc = "closing" /\ dpc' = "end" /\ wpc = "idle" /\ err \in {"none", "err"}
      /\ result' = (IF err = "none" THEN result ELSE "err")
      /\ UNCHANGED <<vars, fs, refused, todo, fi, opened, copied>>
  BY DEF EndDump, world, DumpInv, Inv, TypeOK
<1>2. /\ Faithful' /\ Chain' /\ Reached' = Reached /\ Wanted' = Wanted /\ Dumpable' = Dumpable
      /\ UNCHANGED <<left, epc, stack, verdict, wpc, offered, err, accepted, LastAccepted>>
  BY <1>1, AsideKept
<1>3. ~HeadTaken /\ ~HeadTaken'
  BY <1>1 DEF HeadTaken
<1>4. Todo' /\ Behind'
  BY <1>1, <1>2, <1>3 DEF Walk, Todo, Behind
<1>5. Hand'
  BY <1>1, <1>2 DEF Walk, Hand, HandLabels
<1>6. Owed'
  BY <1>1, <1>2, <1>3 DEF Owed
<1>7. Complete' /\ Blame'
  BY <1>1, <1>2 DEF Walk, Complete, Under, Taken, Blame
<1> QED
  BY <1>2, <1>4, <1>5, <1>6, <1>7 DEF Walk

LEMMA StutterWalk == ASSUME DumpInv, Walk, UNCHANGED <<vars, dumpVars>> PROVE Walk'
<1>1. UNCHANGED <<vars, fs, refused, dumpPath>>
  BY DEF dumpVars, world
<1>2. Faithful' /\ Chain' /\ UNCHANGED <<left, epc, verdict, wpc, err, accepted>>
      /\ Dumpable' = Dumpable
  BY <1>1, AsideKept
<1>3. Todo' /\ Hand' /\ Behind' /\ Complete'
  BY <1>1, <1>2, WalkKept
<1>4. Owed' /\ Blame'
  BY <1>1, <1>2 DEF dumpPath, Walk, Owed, HeadTaken, Blame
<1> QED
  BY <1>2, <1>3, <1>4 DEF Walk

----------------------------------------------------------------------------
WalkInv == /\ DumpInv /\ Place /\ Tree /\ Counted
           /\ changes \in Nat /\ (Quiet => Walk)

LEMMA WalkInit == DumpInit => WalkInv
<1> SUFFICES ASSUME DumpInit PROVE WalkInv
  OBVIOUS
<1>1. /\ epc = "first" /\ wpc = "idle" /\ err = "none" /\ verdict = "none" /\ left = 0
      /\ accepted = << >> /\ dpc = "lstat" /\ todo = <<Root>> /\ result = "nil" /\ changes = 0
      /\ fs \in Trees
  BY DEF DumpInit, Init
<1>2. Len(accepted) = 0 /\ Len(todo) = 1 /\ todo[1] = Root
  BY <1>1
<1>3. DumpInv /\ Counted
  BY DumpInitInv, InitCounted DEF DumpInit
<1>4. Place /\ Tree
  BY <1>1, <1>2 DEF Place, Tree, NodeLabels, BusyLabels, EndedLabels
<1>5. todo \in Seq(Reached \cup {Root})
  BY <1>1, ShortSequences
<1>6. Todo
  BY <1>1, <1>2, <1>5 DEF Todo
<1>7. Hand /\ Owed /\ Blame /\ Chain /\ ~HeadTaken
  BY <1>1 DEF Hand, Owed, Blame, Chain, HandLabels, HeadTaken, BusyLabels
<1>8. Behind
  BY <1>1, <1>2, <1>7 DEF Behind
<1>9. Faithful
  BY <1>2 DEF Faithful
<1>10. Complete
  <2>1. ASSUME NEW p \in Reached PROVE Under(p)
    <3>1. p \in Path
      BY <1>1, ReachedFacts
    <3>2. StartsWith(p, Root)
      BY <3>1, StartsWithFacts
    <3> QED
      BY <1>2, <3>2 DEF Under
  <2> QED
    BY <2>1 DEF Complete
<1> QED
  BY <1>1, <1>3, <1>4, <1>6, <1>7, <1>8, <1>9, <1>10 DEF WalkInv, Walk

LEMMA WalkNext == WalkInv /\ [DumpNext]_<<vars, dumpVars>> => WalkInv'
<1> SUFFICES ASSUME WalkInv, [DumpNext]_<<vars, dumpVars>> PROVE WalkInv'
  OBVIOUS
<1>1. [Next]_vars
  BY DumpStepUses DEF WalkInv
<1>2. DumpInv' /\ Place' /\ Tree' /\ Counted'
  BY <1>1, NextInv, DumpStepCalls, DumpStepKnown, PlaceNext, CountedNext DEF WalkInv, DumpInv
<1>3. CASE \E p \in DOMAIN fs, node \in Node : Change(p, node)
  <2>1. changes' = changes + 1
    BY <1>3 DEF Change
  <2>2. changes' \in Nat /\ changes' # 0
    BY <2>1 DEF WalkInv
  <2> QED
    BY <1>2, <2>2 DEF WalkInv, Quiet
<1>4. CASE DumpStep \/ WriterStep \/ Ended \/ UNCHANGED <<vars, dumpVars>>
  <2>1. changes' = changes
    BY <1>4 DEF DumpStep, WriterStep, Ended, Lstat, Readlink, Announce, Announced, ReadDir, Open,
       CopyChunk, CopyEnds, StartClose, EndDump, dumpVars, world
  <2>2. failing => failing'
    BY <1>1 DEF Next, EmitterStep, CallProceeds, CallerStep, Finished, vars, EmitOpening, Finish,
       NoMore, Bounce, EmitEntry, RefuseNode, EmitEntryClose, CloseErrors, SeeClosed, SendHeader,
       HeaderDone, ReceiveError, CloseReturns, WriteHeader, Write, Close, Put, PutFails
  <2>3. ASSUME Quiet' PROVE Walk'
    <3>1. Walk /\ ~failing /\ ~failing'
      BY <2>1, <2>2, <2>3 DEF WalkInv, Quiet
    <3>2. CASE DumpStep
      BY <3>1, <3>2, LstatWalk, ReadlinkWalk, AnnounceWalk, AnnouncedWalk, ReadDirWalk, OpenWalk,
         CopyChunkWalk, CopyEndsWalk, StartCloseWalk, EndDumpWalk DEF DumpStep, WalkInv
    <3>3. CASE WriterStep
      BY <3>1, <3>3, EmitterWalk, SendHeaderWalk, HeaderDoneWalk, CallEndsWalk
         DEF WriterStep, CallProceeds, WalkInv
    <3>4. CASE Ended \/ UNCHANGED <<vars, dumpVars>>
      BY <3>1, <3>4, StutterWalk DEF Ended, WalkInv
    <3> QED
      BY <1>4, <3>2, <3>3, <3>4
  <2> QED
    BY <1>2, <2>1, <2>3 DEF WalkInv
<1> QED
  BY <1>3, <1>4 DEF DumpNext

(***************************************************************************)
(* Of any file system that nobody changes, through any filter, onto a      *)
(* destination that does not fail: a nil error means that exactly the      *)
(* nodes the filter leaves are dumped, each as it is, and there is no      *)
(* error where everything can be dumped (dump.go:25-41, 44-150).           *)
(***************************************************************************)
THEOREM WholeTree == DumpSpec => []DumpsTree
<1>1. WalkInv => DumpsTree
  <2> SUFFICES ASSUME WalkInv, dpc = "end", changes = 0, ~failing
               PROVE  /\ result = "nil" => ToSet(accepted) = {HeaderOf(p, fs[p]) : p \in Wanted}
                      /\ Dumpable => result = "nil"
    BY DEF DumpsTree
  <2>1. Walk /\ DumpInv /\ Place /\ Tree
    BY DEF WalkInv, Quiet
  <2>2. closed /\ wpc = "idle" /\ result \in {"nil", "err"} /\ (result = "nil" => err = "none")
    BY <2>1 DEF DumpInv, Calls, Walk, Hand
  <2>3. Dumpable => result = "nil"
    BY <2>1, <2>2 DEF Walk, Blame
  <2>4. accepted \in Seq(Offers) /\ DOMAIN accepted = 1..Len(accepted)
    BY <2>1, LenProperties DEF DumpInv, Inv, TypeOK
  <2>5. ASSUME result = "nil"
        PROVE  \A p \in Wanted : Taken(p)
    <3>1. todo = << >> /\ Len(todo) = 0 /\ err = "none"
      BY <2>1, <2>2, <2>5 DEF Walk, Hand
    <3>2. \A p \in Reached : p \in Wanted => Taken(p)
      BY <2>1, <2>5, <3>1 DEF Walk, Complete, Under
    <3> QED
      BY <3>2 DEF Wanted
  <2>6. ASSUME \A p \in Wanted : Taken(p)
        PROVE  ToSet(accepted) = {HeaderOf(p, fs[p]) : p \in Wanted}
    <3>1. \A i \in 1..Len(accepted) :
            /\ accepted[i].path \in Wanted
            /\ accepted[i] = HeaderOf(accepted[i].path, fs[accepted[i].path])
      BY <2>1 DEF Walk, Faithful
    <3>2. ToSet(accepted) = {accepted[i] : i \in 1..Len(accepted)}
      BY <2>4 DEF ToSet
    <3>3. \A p \in Wanted : \E i \in 1..Len(accepted) : accepted[i].path = p
      BY <2>6 DEF Taken
    <3> QED
      BY <3>1, <3>2, <3>3
  <2> QED
    BY <2>3, <2>5, <2>6
<1> QED
  BY <1>1, WalkInit, WalkNext, PTL DEF DumpSpec
============================================================================
