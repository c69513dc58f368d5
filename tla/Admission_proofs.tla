-------------------------- MODULE Admission_proofs --------------------------
(***************************************************************************)
(* Proofs about Admission, for every finite set of requests and every      *)
(* limit.                                                                  *)
(***************************************************************************)
EXTENDS Admission, FiniteSetTheorems, SequenceTheorems, TLAPS

(***************************************************************************)
(* The invariant: who is in the queue, what the slots are, and when there  *)
(* is a queue at all.                                                      *)
(***************************************************************************)
QueuedWait ==
  /\ \A i \in 1..Len(queue) : pc[queue[i]] = "waiting"
  /\ \A i, j \in 1..Len(queue) : i # j => queue[i] # queue[j]

SelectIsLimited == \A r \in Requests : pc[r] \in {"select", "waiting"} => Limited(r)

Inv == TypeOK /\ SelectIsLimited /\ QueuedWait /\ WithinBudget /\ NoIdleSlot

----------------------------------------------------------------------------
LEMMA HoldersFinite == IsFiniteSet(Holders) /\ Cardinality(Holders) \in Nat
<1>1. Holders \in SUBSET Requests
  BY DEF Holders
<1> QED BY <1>1, RequestsAreFinite, FS_Subset, FS_CardinalityType

\* Taking one element out of a sequence keeps the others, in their order.
LEMMA RemoveAtFacts ==
  ASSUME NEW S, NEW s \in Seq(S), NEW i \in 1..Len(s)
  PROVE  /\ RemoveAt(s, i) \in Seq(S)
         /\ Len(RemoveAt(s, i)) = Len(s) - 1
         /\ \A k \in 1..(Len(s) - 1) : RemoveAt(s, i)[k] = IF k < i THEN s[k] ELSE s[k + 1]
<1> DEFINE n == Len(s)
           a == SubSeq(s, 1, i - 1)
           b == SubSeq(s, i + 1, n)
<1>1. n \in Nat /\ i \in 1..n /\ \A k \in 1..n : s[k] \in S
  BY LenProperties, ElementOfSeq
<1>2. a \in Seq(S) /\ Len(a) = i - 1 /\ \A k \in 1..(i - 1) : a[k] = s[k]
  <2>1. 1 \in Int /\ i - 1 \in Int /\ \A k \in 1..(i - 1) : s[k] \in S
    BY <1>1
  <2> HIDE DEF n
  <2> QED BY <1>1, <2>1, SubSeqProperties
<1>3. b \in Seq(S) /\ Len(b) = n - i /\ \A k \in 1..(n - i) : b[k] = s[k + i]
  <2>1. i + 1 \in Int /\ n \in Int /\ \A k \in (i + 1)..n : s[k] \in S
    BY <1>1
  <2> HIDE DEF n
  <2> QED BY <1>1, <2>1, SubSeqProperties
<1>4. /\ a \o b \in Seq(S) /\ Len(a \o b) = n - 1
      /\ \A k \in 1..(n - 1) : (a \o b)[k] = IF k < i THEN s[k] ELSE s[k + 1]
  <2>1. /\ a \o b \in Seq(S) /\ Len(a \o b) = Len(a) + Len(b)
        /\ \A k \in 1..(Len(a) + Len(b)) : (a \o b)[k] = IF k <= Len(a) THEN a[k] ELSE b[k - Len(a)]
    BY <1>2, <1>3, ConcatProperties
  <2> HIDE DEF a, b, n
  <2>2. Len(a) + Len(b) = n - 1
    BY <1>1, <1>2, <1>3
  <2>3. ASSUME NEW k \in 1..(n - 1)
        PROVE  (a \o b)[k] = IF k < i THEN s[k] ELSE s[k + 1]
    <3>1. CASE k < i
      BY <1>1, <1>2, <2>1, <2>2, <3>1
    <3>2. CASE ~(k < i)
      <4>1. k - (i - 1) \in 1..(n - i) /\ (k - (i - 1)) + i = k + 1 /\ ~(k <= i - 1)
        BY <1>1, <3>2
      <4>2. (a \o b)[k] = b[k - (i - 1)]
        BY <1>2, <2>1, <2>2, <4>1
      <4> QED BY <1>3, <3>2, <4>1, <4>2
    <3> QED BY <3>1, <3>2
  <2> QED BY <2>1, <2>2, <2>3
<1> QED BY <1>4 DEF RemoveAt

----------------------------------------------------------------------------
LEMMA InitInv == Init => Inv
<1> SUFFICES ASSUME Init PROVE Inv
  OBVIOUS
<1>1. TypeOK
  BY DEF Init, TypeOK
<1>2. Holders = {}
  BY DEF Init, Holders
<1>3. WithinBudget
  BY <1>2, FS_EmptySet, LimitIsInteger DEF Init, WithinBudget
<1> QED BY <1>1, <1>3 DEF Init, Inv, SelectIsLimited, QueuedWait, NoIdleSlot

\* A step that moves one request past neither a slot nor the queue.
LEMMA AsideStep ==
  ASSUME Inv, NEW r \in Requests, NEW to \in {"select", "serving", "answered", "done"},
         pc[r] \in {"new", "select", "answered", "unwinding"},
         to = "select" => Limited(r), to = "serving" => ~Limited(r),
         pc' = [pc EXCEPT ![r] = to], UNCHANGED <<slots, queue>>
  PROVE  SelectIsLimited' /\ QueuedWait' /\ WithinBudget' /\ NoIdleSlot'
<1>1. Holders' = Holders
  BY DEF Holders, Inv, TypeOK, Limited
<1>2. QueuedWait'
  BY DEF Inv, TypeOK, QueuedWait
<1> QED BY <1>1, <1>2 DEF Inv, TypeOK, SelectIsLimited, WithinBudget, NoIdleSlot, Limited

LEMMA EnterInv ==
  ASSUME Inv, NEW r \in Requests, Enter(r)
  PROVE  Inv'
<1>1. Limited(r) /\ pc[r] = "select" /\ slots < Limit /\ slots' = slots + 1
  BY DEF Inv, SelectIsLimited, Enter, HasRoom
<1>2. Holders' = Holders \cup {r} /\ r \notin Holders
  BY <1>1 DEF Enter, Holders, Inv, TypeOK, Limited
<1>3. Cardinality(Holders') = Cardinality(Holders) + 1
  BY <1>2, HoldersFinite, FS_AddElement
<1>4. TypeOK'
  BY DEF Enter, Inv, TypeOK
<1>5. WithinBudget'
  BY <1>1, <1>3, LimitIsInteger DEF Inv, TypeOK, WithinBudget
<1>6. NoIdleSlot'
  BY <1>1, LimitIsInteger DEF Enter, Inv, TypeOK, NoIdleSlot
<1>7. QueuedWait' /\ SelectIsLimited'
  BY DEF Enter, Inv, TypeOK, QueuedWait, SelectIsLimited, Limited
<1> QED BY <1>4, <1>5, <1>6, <1>7 DEF Inv

LEMMA BlockInv ==
  ASSUME Inv, NEW r \in Requests, Block(r)
  PROVE  Inv'
<1>1. Limited(r) /\ pc[r] = "select" /\ ~(slots < Limit) /\ slots' = slots
  BY DEF Inv, SelectIsLimited, Block, HasRoom
<1>2. Holders' = Holders
  BY <1>1 DEF Block, Holders, Inv, TypeOK, Limited
<1>3. TypeOK'
  BY DEF Block, Inv, TypeOK
<1>4. WithinBudget' /\ NoIdleSlot'
  BY <1>1, <1>2, LimitIsInteger DEF Inv, TypeOK, WithinBudget, NoIdleSlot, Limited
<1>5. SelectIsLimited'
  BY <1>1 DEF Block, Inv, TypeOK, SelectIsLimited, Limited
<1>6. QueuedWait'
  <2>1. /\ Len(queue') = Len(queue) + 1 /\ queue'[Len(queue) + 1] = r
        /\ \A i \in 1..Len(queue) : queue'[i] = queue[i]
        /\ Len(queue) \in Nat
    BY AppendProperties, LenProperties DEF Block, Inv, TypeOK
  <2>2. \A i \in 1..Len(queue) : queue[i] # r /\ queue[i] \in Requests
    BY <1>1, ElementOfSeq DEF Inv, TypeOK, QueuedWait
  <2>3. pc'[r] = "waiting" /\ \A q \in Requests : q # r => pc'[q] = pc[q]
    BY DEF Block, Inv, TypeOK
  <2> QED BY <2>1, <2>2, <2>3 DEF Inv, QueuedWait
<1> QED BY <1>3, <1>4, <1>5, <1>6 DEF Inv

LEMMA CancelWaitingInv ==
  ASSUME Inv, NEW r \in Requests, CancelWaiting(r)
  PROVE  Inv'
<1>1. PICK i \in 1..Len(queue) : queue[i] = r /\ queue' = RemoveAt(queue, i)
  BY DEF CancelWaiting
<1>2. /\ queue' \in Seq(Requests) /\ Len(queue) \in Nat /\ Len(queue') = Len(queue) - 1
      /\ \A k \in 1..(Len(queue) - 1) : queue'[k] = IF k < i THEN queue[k] ELSE queue[k + 1]
  BY <1>1, RemoveAtFacts, LenProperties DEF Inv, TypeOK
<1>3. TypeOK'
  BY <1>2 DEF CancelWaiting, Inv, TypeOK, Statuses
<1>4. Holders' = Holders /\ slots' = slots
  BY DEF CancelWaiting, Holders, Inv, TypeOK, Limited
<1>5. queue # << >>
  BY <1>1
<1>6. WithinBudget' /\ NoIdleSlot'
  BY <1>4, <1>5 DEF Inv, WithinBudget, NoIdleSlot
<1>7. SelectIsLimited'
  BY DEF CancelWaiting, Inv, TypeOK, SelectIsLimited, Limited
<1>8. QueuedWait'
  <2>1. \A k \in 1..Len(queue) : queue[k] \in Requests /\ (k # i => queue[k] # r)
    BY <1>1, ElementOfSeq DEF Inv, TypeOK, QueuedWait
  <2>2. \A q \in Requests : q # r => pc'[q] = pc[q]
    BY DEF CancelWaiting, Inv, TypeOK
  <2>3. \A k \in 1..Len(queue') : pc'[queue'[k]] = "waiting"
    BY <1>2, <2>1, <2>2 DEF Inv, QueuedWait
  <2>4. \A k, l \in 1..Len(queue') : k # l => queue'[k] # queue'[l]
    <3> DEFINE At(k) == IF k < i THEN k ELSE k + 1
    <3>1. /\ \A k \in 1..Len(queue') : At(k) \in 1..Len(queue) /\ queue'[k] = queue[At(k)]
          /\ \A k, l \in 1..Len(queue') : k # l => At(k) # At(l)
      BY <1>1, <1>2
    <3> HIDE DEF At
    <3>2. \A k, l \in 1..Len(queue) : k # l => queue[k] # queue[l]
      BY DEF Inv, QueuedWait
    <3> QED
      BY ONLY <3>1, <3>2
  <2> QED BY <2>3, <2>4 DEF QueuedWait
<1> QED BY <1>3, <1>6, <1>7, <1>8 DEF Inv

(***************************************************************************)
(* Giving a slot back: to the channel, or to the first one in the queue.   *)
(***************************************************************************)
LEMMA ReleaseKeeps ==
  ASSUME Inv, NEW r \in Requests, NEW next \in {"answered", "unwinding"},
         pc[r] = "serving", Release(r, next)
  PROVE  /\ pc' \in [Requests -> {"new", "select", "waiting", "serving", "answered",
                                  "unwinding", "done"}]
         /\ slots' \in Nat /\ queue' \in Seq(Requests)
         /\ SelectIsLimited' /\ QueuedWait' /\ WithinBudget' /\ NoIdleSlot'
         /\ Entered' = Entered
<1>0. /\ pc \in [Requests -> {"new", "select", "waiting", "serving", "answered",
                              "unwinding", "done"}]
      /\ slots \in Nat /\ queue \in Seq(Requests) /\ Len(queue) \in Nat
      /\ \A i \in 1..Len(queue) : queue[i] \in Requests
  BY LenProperties, ElementOfSeq DEF Inv, TypeOK
<1>1. CASE ~Limited(r)
  <2>1. pc' = [pc EXCEPT ![r] = next] /\ UNCHANGED <<slots, queue>>
    BY <1>1 DEF Release
  <2>2. Holders' = Holders /\ Entered' = Entered
    BY <1>0, <1>1, <2>1 DEF Holders, Entered, Limited
  <2>3. QueuedWait' /\ SelectIsLimited'
    BY <1>0, <2>1 DEF Inv, QueuedWait, SelectIsLimited, Limited
  <2> QED BY <1>0, <2>1, <2>2, <2>3 DEF Inv, WithinBudget, NoIdleSlot
<1>2. CASE Limited(r) /\ queue = << >>
  <2>1. pc' = [pc EXCEPT ![r] = next] /\ slots' = slots - 1 /\ queue' = queue
    BY <1>2 DEF Release
  <2>2. Holders' = Holders \ {r} /\ r \in Holders /\ Entered' = Entered
    BY <1>0, <1>2, <2>1 DEF Holders, Entered, Limited
  <2>3. Cardinality(Holders') = Cardinality(Holders) - 1 /\ Cardinality(Holders') \in Nat
    <3>1. IsFiniteSet(Holders')
      BY <2>2, HoldersFinite, FS_RemoveElement
    <3> QED BY <2>2, <3>1, HoldersFinite, FS_RemoveElement, FS_CardinalityType
  <2>4. slots' \in Nat /\ WithinBudget'
    BY <1>0, <2>1, <2>3, LimitIsInteger DEF Inv, WithinBudget
  <2>5. QueuedWait' /\ SelectIsLimited' /\ NoIdleSlot'
    BY <1>0, <1>2, <2>1 DEF Inv, QueuedWait, SelectIsLimited, Limited, NoIdleSlot
  <2> QED BY <1>0, <2>1, <2>2, <2>4, <2>5
<1>3. CASE Limited(r) /\ queue # << >>
  <2> DEFINE h == Head(queue)
  <2>1. /\ h \in Requests /\ h = queue[1] /\ 1 \in 1..Len(queue)
        /\ Tail(queue) \in Seq(Requests) /\ Len(Tail(queue)) = Len(queue) - 1
        /\ \A i \in 1..(Len(queue) - 1) : Tail(queue)[i] = queue[i + 1]
    BY <1>0, <1>3, HeadTailProperties, EmptySeq
  <2>2. pc[h] = "waiting" /\ h # r /\ Limited(h)
    BY <2>1 DEF Inv, QueuedWait, SelectIsLimited
  <2>3. /\ pc' = [pc EXCEPT ![r] = next, ![h] = "serving"]
        /\ queue' = Tail(queue) /\ slots' = slots
    BY <1>3 DEF Release
  <2> HIDE DEF h
  <2>4. /\ pc'[r] = next /\ pc'[h] = "serving"
        /\ \A q \in Requests : q # r /\ q # h => pc'[q] = pc[q]
    BY <1>0, <2>1, <2>2, <2>3
  <2>5. Holders' = (Holders \ {r}) \cup {h} /\ r \in Holders /\ h \notin Holders
    BY <1>3, <2>1, <2>2, <2>4 DEF Holders, Limited
  <2>6. Cardinality(Holders') = Cardinality(Holders)
    <3>1. IsFiniteSet(Holders \ {r}) /\ Cardinality(Holders \ {r}) = Cardinality(Holders) - 1
      BY <2>5, HoldersFinite, FS_RemoveElement
    <3>2. Cardinality(Holders') = Cardinality(Holders) - 1 + 1
      BY <2>5, <3>1, FS_AddElement
    <3> QED BY <3>2, HoldersFinite
  <2>7. Entered' = Entered
    BY <2>1, <2>2, <2>4 DEF Entered
  <2>8. WithinBudget' /\ NoIdleSlot'
    BY <1>3, <2>3, <2>6 DEF Inv, WithinBudget, NoIdleSlot
  <2>9. SelectIsLimited'
    BY <2>2, <2>4 DEF Inv, SelectIsLimited, Limited
  <2>10. QueuedWait'
    <3>1. \A i \in 1..(Len(queue) - 1) : /\ i + 1 \in 1..Len(queue)
                                         /\ queue'[i] = queue[i + 1]
                                         /\ queue[i + 1] # h /\ pc[queue[i + 1]] = "waiting"
      BY <1>0, <2>1, <2>3 DEF Inv, QueuedWait
    <3>2. \A i \in 1..Len(queue') : pc'[queue'[i]] = "waiting"
      BY <1>0, <2>1, <2>3, <2>4, <3>1
    <3>3. \A i, j \in 1..Len(queue') : i # j => queue'[i] # queue'[j]
      BY <1>0, <2>1, <2>3, <3>1 DEF Inv, QueuedWait
    <3> QED BY <3>2, <3>3 DEF QueuedWait
  <2>11. pc' \in [Requests -> {"new", "select", "waiting", "serving", "answered",
                              "unwinding", "done"}]
    BY <1>0, <2>3
  <2> QED BY <1>0, <2>1, <2>3, <2>7, <2>8, <2>9, <2>10, <2>11
<1> QED BY <1>1, <1>2, <1>3

LEMMA HandleInv ==
  ASSUME Inv, NEW r \in Requests, Handle(r)
  PROVE  Inv'
<1>1. PICK next \in {"answered", "unwinding"} : pc[r] = "serving" /\ Release(r, next)
  BY DEF Handle, Finish, Panic
<1>2. /\ status' \in [Requests -> Statuses \cup {"none"}]
      /\ UNCHANGED <<cancelled, inFlight, counted>>
  BY DEF Inv, TypeOK, Handle, Finish, Panic, Statuses
<1> QED BY <1>1, <1>2, ReleaseKeeps DEF Inv, TypeOK

LEMMA NextInv == Inv /\ [Next]_vars => Inv'
<1> SUFFICES ASSUME Inv, [Next]_vars PROVE Inv'
  OBVIOUS
<1>1. ASSUME NEW r \in Requests, Arrive(r) PROVE Inv'
  <2>1. TypeOK'
    BY <1>1 DEF Arrive, Inv, TypeOK
  <2> QED BY <1>1, <2>1, AsideStep DEF Arrive, Inv
<1>2. ASSUME NEW r \in Requests, GiveUp(r) PROVE Inv'
  <2>1. TypeOK'
    BY <1>2 DEF GiveUp, Inv, TypeOK, Statuses
  <2> QED BY <1>2, <2>1, AsideStep DEF GiveUp, Inv
<1>3. ASSUME NEW r \in Requests, Unwind(r) \/ Count(r) PROVE Inv'
  <2>1. TypeOK'
    BY <1>3 DEF Unwind, Count, Inv, TypeOK
  <2> QED BY <1>3, <2>1, AsideStep DEF Unwind, Count, Inv
<1>4. ASSUME NEW r \in Requests, Cancel(r) PROVE Inv'
  <2>1. Holders' = Holders
    BY <1>4 DEF Cancel, Holders, Limited
  <2> QED BY <1>4, <2>1
       DEF Cancel, Inv, TypeOK, SelectIsLimited, QueuedWait, WithinBudget, NoIdleSlot, Limited
<1>5. CASE UNCHANGED vars
  <2>1. Holders' = Holders
    BY <1>5 DEF vars, Holders, Limited
  <2> QED BY <1>5, <2>1
       DEF vars, Inv, TypeOK, SelectIsLimited, QueuedWait, WithinBudget, NoIdleSlot, Limited
<1> QED BY <1>1, <1>2, <1>3, <1>4, <1>5, EnterInv, BlockInv, CancelWaitingInv, HandleInv
     DEF Next, Proceed, Leave, AllDone

THEOREM Invariance == Spec => []Inv
<1> QED BY InitInv, NextInv, PTL DEF Spec

----------------------------------------------------------------------------
\* Every variable keeps to its type; the channel never holds less than nothing.
THEOREM TypeCorrect == Spec => []TypeOK
<1>1. Inv => TypeOK
  BY DEF Inv
<1> QED BY Invariance, <1>1, PTL

(***************************************************************************)
(* However many requests there are and however they end, no more than      *)
(* Limit of them hold a slot, and no slot is lost.                         *)
(***************************************************************************)
THEOREM BudgetHolds == Spec => []WithinBudget
<1>1. Inv => WithinBudget
  BY DEF Inv
<1> QED BY Invariance, <1>1, PTL

\* There is a queue only while every slot is taken.
THEOREM WorkConserving == Spec => []NoIdleSlot
<1>1. Inv => NoIdleSlot
  BY DEF Inv
<1> QED BY Invariance, <1>1, PTL

----------------------------------------------------------------------------
(***************************************************************************)
(* The queue is first come, first served: nobody is let in past it.        *)
(***************************************************************************)
LEMMA TurnStep ==
  ASSUME Inv, [Next]_vars, NEW r \in StoreRequests
  PROVE  IsServedInTurn(r)
<1> SUFFICES ASSUME Limited(r), pc[r] # "serving", pc'[r] = "serving"
             PROVE  queue = << >> \/ r = Head(queue)
  BY DEF IsServedInTurn
<1>0. r \in Requests /\ pc \in [Requests -> {"new", "select", "waiting", "serving", "answered",
                                           "unwinding", "done"}]
  BY RequestsAreFinite DEF Inv, TypeOK
<1>1. ASSUME NEW q \in Requests, Enter(q) PROVE queue = << >>
  BY <1>1, LimitIsInteger DEF Enter, HasRoom, Inv, TypeOK, NoIdleSlot
<1>2. ASSUME NEW q \in Requests, Handle(q) PROVE queue = << >> \/ r = Head(queue)
  <2>1. PICK next \in {"answered", "unwinding"} : pc[q] = "serving" /\ Release(q, next)
    BY <1>2 DEF Handle, Finish, Panic
  <2>2. CASE queue # << >> /\ r # Head(queue)
    <3>1. pc'[r] = pc[r] \/ pc'[r] = next
      BY <1>0, <2>1, <2>2 DEF Release
    <3> QED BY <3>1
  <2> QED BY <2>2
<1>3. ASSUME NEW q \in Requests,
             \/ Arrive(q) \/ Leave(q) \/ Block(q) \/ GiveUp(q) \/ Unwind(q) \/ Count(q)
      PROVE  FALSE
  BY <1>0, <1>3 DEF Arrive, Leave, Cancel, CancelWaiting, Block, GiveUp, Unwind, Count
<1> QED BY <1>1, <1>2, <1>3 DEF Next, Proceed, AllDone, vars

THEOREM TurnsTaken == Spec => TakesTurns
<1>1. Inv /\ [Next]_vars => [\A r \in StoreRequests : IsServedInTurn(r)]_vars
  BY TurnStep
<1> QED BY Invariance, <1>1, PTL DEF Spec, TakesTurns

----------------------------------------------------------------------------
LEMMA EnteredFinite == IsFiniteSet(Entered) /\ Cardinality(Entered) \in Nat
<1>1. Entered \in SUBSET Requests
  BY DEF Entered
<1> QED BY <1>1, RequestsAreFinite, FS_Subset, FS_CardinalityType

LEMMA GaugeNext == Inv /\ GaugeExact /\ [Next]_vars => GaugeExact'
<1> SUFFICES ASSUME Inv, GaugeExact, [Next]_vars PROVE GaugeExact'
  OBVIOUS
<1>0. pc \in [Requests -> {"new", "select", "waiting", "serving", "answered", "unwinding", "done"}]
  BY DEF Inv, TypeOK
<1>1. ASSUME NEW r \in Requests, Arrive(r) PROVE GaugeExact'
  <2>1. Entered' = Entered \cup {r} /\ r \notin Entered /\ inFlight' = inFlight + 1
    BY <1>0, <1>1 DEF Arrive, Entered
  <2> QED BY <2>1, EnteredFinite, FS_AddElement DEF GaugeExact
<1>2. ASSUME NEW r \in Requests, Unwind(r) \/ Count(r) PROVE GaugeExact'
  <2>1. Entered' = Entered \ {r} /\ r \in Entered /\ inFlight' = inFlight - 1
    BY <1>0, <1>2 DEF Unwind, Count, Entered
  <2> QED BY <2>1, EnteredFinite, FS_RemoveElement DEF GaugeExact
<1>3. ASSUME NEW r \in Requests, Handle(r) PROVE GaugeExact'
  <2>1. PICK next \in {"answered", "unwinding"} : pc[r] = "serving" /\ Release(r, next)
    BY <1>3 DEF Handle, Finish, Panic
  <2>2. Entered' = Entered /\ inFlight' = inFlight
    BY <1>3, <2>1, ReleaseKeeps DEF Handle, Finish, Panic
  <2> QED BY <2>2 DEF GaugeExact
<1>4. ASSUME NEW r \in Requests, Enter(r) \/ Block(r) \/ GiveUp(r) \/ Leave(r) PROVE GaugeExact'
  <2>1. Entered' = Entered /\ inFlight' = inFlight
    BY <1>0, <1>4 DEF Enter, Block, GiveUp, Leave, Cancel, CancelWaiting, Entered
  <2> QED BY <2>1 DEF GaugeExact
<1>5. CASE UNCHANGED vars
  BY <1>5 DEF vars, GaugeExact, Entered
<1> QED BY <1>1, <1>2, <1>3, <1>4, <1>5 DEF Next, Proceed, AllDone

(***************************************************************************)
(* The gauge counts the requests between the middleware and their answer,  *)
(* panics included.                                                        *)
(***************************************************************************)
THEOREM GaugeCounts == Spec => []GaugeExact
<1>1. Init => GaugeExact
  <2>1. Init => Entered = {}
    BY DEF Init, Entered
  <2> QED BY <2>1, FS_EmptySet DEF Init, GaugeExact
<1> QED BY <1>1, Invariance, GaugeNext, PTL DEF Spec
=============================================================================
