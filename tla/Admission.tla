----------------------------- MODULE Admission -----------------------------
(***************************************************************************)
(* How a request gets into the server and out again: the limiter of        *)
(* src/main.go and the metrics middleware around it.                       *)
(*                                                                         *)
(* A request for the store takes a slot of the channel "slots" for as long *)
(* as its handler runs.  When the channel is full it waits in the select   *)
(* of limitConcurrency, in the channel's queue of blocked senders, until a *)
(* handler that returns hands its slot on, or until its client goes away.  *)
(* The other routes do not pass the limiter.                               *)
(***************************************************************************)
EXTENDS Integers, Sequences, FiniteSets, SequencesExt

CONSTANTS
  Requests,        \* the requests
  StoreRequests,   \* those that walk an archive
  Limit            \* MAX_CONCURRENCY; zero or less does not restrict anything

ASSUME RequestsAreFinite == IsFiniteSet(Requests) /\ StoreRequests \subseteq Requests
ASSUME LimitIsInteger == Limit \in Int

VARIABLES
  pc,          \* where each request is
  slots,       \* how many elements the channel "slots" holds
  queue,       \* the requests blocked in a send on it, in order
  cancelled,   \* the requests whose client has gone
  status,      \* what the client of each request was answered
  inFlight,    \* the gauge InFlight
  counted      \* the status each request was counted under, in the counter Requests

vars == <<pc, slots, queue, cancelled, status, inFlight, counted>>

Statuses == {"200", "408", "500"}

\* Mutant: the limiter is put in front of every route.
LimitedEverywhere(r) == Limit > 0

Limited(r) == Limit > 0 /\ r \in StoreRequests

Init ==
  /\ pc = [r \in Requests |-> "new"]
  /\ slots = 0
  /\ queue = << >>
  /\ cancelled = {}
  /\ status = [r \in Requests |-> "none"]
  /\ inFlight = 0
  /\ counted = [r \in Requests |-> "none"]

----------------------------------------------------------------------------
(***************************************************************************)
(* metrics.Middleware, on the way in.                                      *)
(***************************************************************************)
Arrive(r) ==
  /\ pc[r] = "new"
  /\ inFlight' = inFlight + 1
  /\ pc' = [pc EXCEPT ![r] = IF Limited(r) THEN "select" ELSE "serving"]
  /\ UNCHANGED <<slots, queue, cancelled, status, counted>>

(***************************************************************************)
(* The select of limitConcurrency.  With room in the channel and a client  *)
(* that has gone both cases are ready, and it takes either.                *)
(***************************************************************************)
HasRoom == slots < Limit

Enter(r) ==
  /\ pc[r] = "select" /\ HasRoom
  /\ slots' = slots + 1
  /\ pc' = [pc EXCEPT ![r] = "serving"]
  /\ UNCHANGED <<queue, cancelled, status, inFlight, counted>>

Block(r) ==
  /\ pc[r] = "select" /\ ~HasRoom /\ r \notin cancelled
  /\ queue' = Append(queue, r)
  /\ pc' = [pc EXCEPT ![r] = "waiting"]
  /\ UNCHANGED <<slots, cancelled, status, inFlight, counted>>

GiveUp(r) ==
  /\ pc[r] = "select" /\ r \in cancelled
  /\ status' = [status EXCEPT ![r] = "408"]
  /\ pc' = [pc EXCEPT ![r] = "answered"]
  /\ UNCHANGED <<slots, queue, cancelled, inFlight, counted>>

(***************************************************************************)
(* The client goes away.  A select that is yet to run will see it and a    *)
(* handler that runs takes no notice; a select that waits is woken, and is *)
(* no longer in the queue.                                                 *)
(***************************************************************************)
Cancel(r) ==
  /\ pc[r] \in {"select", "serving"} /\ r \notin cancelled
  /\ cancelled' = cancelled \cup {r}
  /\ UNCHANGED <<pc, slots, queue, status, inFlight, counted>>

CancelWaiting(r) ==
  /\ pc[r] = "waiting"
  /\ \E i \in 1..Len(queue) : queue[i] = r /\ queue' = RemoveAt(queue, i)
  /\ cancelled' = cancelled \cup {r}
  /\ status' = [status EXCEPT ![r] = "408"]
  /\ pc' = [pc EXCEPT ![r] = "answered"]
  /\ UNCHANGED <<slots, inFlight, counted>>

\* Mutant: the request behind a released slot is the last to have come.
ReleaseToLast(r, next) ==
  IF ~Limited(r)
    THEN pc' = [pc EXCEPT ![r] = next] /\ UNCHANGED <<slots, queue>>
    ELSE IF queue = << >>
      THEN pc' = [pc EXCEPT ![r] = next] /\ slots' = slots - 1 /\ UNCHANGED queue
      ELSE /\ pc' = [pc EXCEPT ![r] = next, ![Last(queue)] = "serving"]
           /\ queue' = Front(queue)
           /\ UNCHANGED slots

\* Mutant: nobody is woken when a slot is released.
ReleaseUnheard(r, next) ==
  /\ pc' = [pc EXCEPT ![r] = next]
  /\ slots' = IF Limited(r) THEN slots - 1 ELSE slots
  /\ UNCHANGED queue

\* Mutant: a slot is released by those who took none.
ReleaseAlways(r, next) ==
  /\ pc' = [pc EXCEPT ![r] = next]
  /\ slots' = slots - 1
  /\ UNCHANGED queue

(***************************************************************************)
(* "<-slots", deferred in limitConcurrency.  A receive from a full channel *)
(* lets the first blocked sender in with the same step.                    *)
(***************************************************************************)
Release(r, next) ==
  IF ~Limited(r)
    THEN pc' = [pc EXCEPT ![r] = next] /\ UNCHANGED <<slots, queue>>
    ELSE IF queue = << >>
      THEN pc' = [pc EXCEPT ![r] = next] /\ slots' = slots - 1 /\ UNCHANGED queue
      ELSE /\ pc' = [pc EXCEPT ![r] = next, ![Head(queue)] = "serving"]
           /\ queue' = Tail(queue)
           /\ UNCHANGED slots

\* "200" stands for whatever a handler that returns has answered.
Finish(r) ==
  /\ pc[r] = "serving"
  /\ status' = [status EXCEPT ![r] = "200"]
  /\ Release(r, "answered")
  /\ UNCHANGED <<cancelled, inFlight, counted>>

\* Mutant: the slot is released behind the handler, but not deferred.
PanicKeepingSlot(r) ==
  /\ pc[r] = "serving"
  /\ \E s \in {"200", "500"} : status' = [status EXCEPT ![r] = s]
  /\ pc' = [pc EXCEPT ![r] = "unwinding"]
  /\ UNCHANGED <<slots, queue, cancelled, inFlight, counted>>

(***************************************************************************)
(* The handler panics.  The deferred calls run while the panic passes: the *)
(* slot is given back, and of metrics.Middleware only InFlight.Dec is      *)
(* left.  middleware.Recoverer, outside of it, answers 500, which comes    *)
(* too late when a part of the answer has been sent.                       *)
(***************************************************************************)
Panic(r) ==
  /\ pc[r] = "serving"
  /\ \E s \in {"200", "500"} : status' = [status EXCEPT ![r] = s]
  /\ Release(r, "unwinding")
  /\ UNCHANGED <<cancelled, inFlight, counted>>

\* Mutant: InFlight.Dec is not deferred.
UnwindUncounted(r) ==
  /\ pc[r] = "unwinding"
  /\ pc' = [pc EXCEPT ![r] = "done"]
  /\ UNCHANGED <<slots, queue, cancelled, status, inFlight, counted>>

Unwind(r) ==
  /\ pc[r] = "unwinding"
  /\ inFlight' = inFlight - 1
  /\ pc' = [pc EXCEPT ![r] = "done"]
  /\ UNCHANGED <<slots, queue, cancelled, status, counted>>

(***************************************************************************)
(* metrics.Middleware, on the way out.                                     *)
(***************************************************************************)
Count(r) ==
  /\ pc[r] = "answered"
  /\ counted' = [counted EXCEPT ![r] = status[r]]
  /\ inFlight' = inFlight - 1
  /\ pc' = [pc EXCEPT ![r] = "done"]
  /\ UNCHANGED <<slots, queue, cancelled, status>>

----------------------------------------------------------------------------
Handle(r) == Finish(r) \/ Panic(r)

\* What the server does by itself, without waiting for a handler or a client.
Proceed(r) == Enter(r) \/ Block(r) \/ GiveUp(r) \/ Unwind(r) \/ Count(r)

Leave(r) == Cancel(r) \/ CancelWaiting(r)

AllDone == (\A r \in Requests : pc[r] = "done") /\ UNCHANGED vars

Next == (\E r \in Requests : Arrive(r) \/ Proceed(r) \/ Leave(r) \/ Handle(r)) \/ AllDone

Spec == Init /\ [][Next]_vars

(***************************************************************************)
(* Goroutines are scheduled, and handlers beside the limiter end.  Nothing *)
(* makes a client send a request, or go away.  A handler that walks an     *)
(* archive may never end: the cache behind it may hang, and no deadline is *)
(* put on the requests to it.                                              *)
(***************************************************************************)
FairSpec ==
  /\ Spec
  /\ \A r \in Requests : WF_vars(Proceed(r))
  /\ \A r \in Requests \ StoreRequests : WF_vars(Handle(r))

\* A cache that does not hang.
WalksEnd == \A r \in StoreRequests : WF_vars(Handle(r))

----------------------------------------------------------------------------
(***************************************************************************)
(* Properties                                                              *)
(***************************************************************************)
\* The variables keep to their types.
TypeOK ==
  /\ pc \in [Requests -> {"new", "select", "waiting", "serving", "answered", "unwinding", "done"}]
  /\ slots \in Nat
  /\ queue \in Seq(Requests)
  /\ cancelled \subseteq Requests
  /\ status \in [Requests -> Statuses \cup {"none"}]
  /\ inFlight \in Int
  /\ counted \in [Requests -> Statuses \cup {"none"}]

Holders  == {r \in Requests : Limited(r) /\ pc[r] = "serving"}
Entered  == {r \in Requests : pc[r] \notin {"new", "done"}}

(***************************************************************************)
(* The budget: no more archives are walked at once than MAX_CONCURRENCY    *)
(* allows, and every slot that is taken is held by a handler that runs, so *)
(* that a panic or a client that left leaks none (main.go:41-68).          *)
(***************************************************************************)
WithinBudget == slots = Cardinality(Holders) /\ (Limit > 0 => slots <= Limit)

(***************************************************************************)
(* Nobody waits while there is room: "Requests over the limit wait their   *)
(* turn", and only those over it do (main.go:44).                          *)
(***************************************************************************)
NoIdleSlot == queue # << >> => slots = Limit

(***************************************************************************)
(* The gauge of requests in flight is exact, through panics as well        *)
(* (metrics.go:72-73).                                                     *)
(***************************************************************************)
GaugeExact == inFlight = Cardinality(Entered)

(***************************************************************************)
(* The queue is first come, first served: whoever starts to be served was  *)
(* at the head of it, or nobody was in it.                                 *)
(***************************************************************************)
IsServedInTurn(r) ==
  Limited(r) /\ pc[r] # "serving" /\ pc'[r] = "serving" => queue = << >> \/ r = Head(queue)

TakesTurns == [][\A r \in StoreRequests : IsServedInTurn(r)]_vars

(***************************************************************************)
(* When walks end, a request that waits gets its turn, or its client       *)
(* leaves first: "Requests over the limit wait their turn" (main.go:44).   *)
(***************************************************************************)
WaitingEnds == WalksEnd => \A r \in Requests : pc[r] = "waiting" ~> pc[r] # "waiting"

(***************************************************************************)
(* "`/healthz` and the index stay answerable however busy the rest of it   *)
(* is" (main.go:110-111), even when every slot is held by a handler that   *)
(* hangs.                                                                  *)
(***************************************************************************)
OthersAnswered ==
  \A r \in Requests \ StoreRequests : pc[r] # "new" ~> pc[r] = "done"
============================================================================
