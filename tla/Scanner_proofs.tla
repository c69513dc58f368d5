--------------------------- MODULE Scanner_proofs ---------------------------
(***************************************************************************)
(* The scanner reports references only, and misses none, for hashes of any *)
(* length over any alphabet, any candidates, and streams of any length.    *)
(*                                                                         *)
(* Neither is inductive: both rest on what buf holds in between.  It holds *)
(* the last n bytes of the stream, all of them of the alphabet (Window),   *)
(* and where the stream has gone on with fewer bytes than a hash behind an *)
(* edge, n counts exactly these (InStep).                                  *)
(***************************************************************************)
EXTENDS Scanner, TLAPS

Window ==
  /\ n <= Len(stream)
  /\ \A j \in 1..n : buf[j] = stream[Len(stream) - n + j] /\ buf[j] \in Base32

\* Behind the first i bytes there is nothing but characters of the alphabet.
RunsFrom(i) == \A k \in (i + 1)..Len(stream) : stream[k] \in Base32

InStep ==
  \A i \in 0..Len(stream) :
    Edge(i) /\ RunsFrom(i) /\ Len(stream) - i < RefLength => n = Len(stream) - i

Kept == \A h \in Hash : \A c \in hashes[h] : c.prefixed /\ c.long /\ c.hash = h

HitsStand == \A h \in hits : \E i \in 0..Len(stream) : StandsAt(h, i)

Started == spc # "ready" => stream = << >> /\ hits = {}

IInv == TypeOK /\ Window /\ InStep /\ Kept /\ HitsStand /\ Started /\ FindsReferences

(***************************************************************************)
(* The invariant holds at the start (refs.go:43-65).                       *)
(***************************************************************************)
LEMMA InitInv == Init => IInv
<1> SUFFICES ASSUME Init PROVE IInv
  OBVIOUS
<1> USE AlphabetAssumption, LengthAssumption, RequestAssumption DEF Init
<1>1. TypeOK
  BY DEF TypeOK, Hash
<1>2. Window /\ InStep
  BY DEF Window, InStep
<1>3. Kept /\ HitsStand /\ Started
  BY DEF Kept, HitsStand, Started
<1>4. FindsReferences
  BY DEF FindsReferences
<1> QED
  BY <1>1, <1>2, <1>3, <1>4 DEF IInv

(***************************************************************************)
(* A hash that stands in a stream stands in what the stream becomes, and   *)
(* one that stands in the longer stream stood in the shorter one unless it *)
(* ends with the byte that came.                                           *)
(***************************************************************************)
LEMMA StandsOn ==
  ASSUME stream \in Seq(Char), NEW c \in Char, stream' = Append(stream, c),
         NEW h \in Hash, NEW i \in Nat
  PROVE  /\ Len(stream') = Len(stream) + 1
         /\ StandsAt(h, i) => StandsAt(h, i)'
         /\ StandsAt(h, i)' => StandsAt(h, i) \/ i + RefLength = Len(stream) + 1
         /\ i <= Len(stream) => (Edge(i)' <=> Edge(i))
         /\ \A k \in 1..Len(stream) : stream'[k] = stream[k]
         /\ stream'[Len(stream) + 1] = c
<1> USE LengthAssumption
<1>1. Len(stream') = Len(stream) + 1 /\ stream'[Len(stream) + 1] = c
      /\ \A k \in 1..Len(stream) : stream'[k] = stream[k]
  OBVIOUS
<1>2. StandsAt(h, i) => StandsAt(h, i)'
  BY <1>1 DEF StandsAt
<1>3. StandsAt(h, i)' => StandsAt(h, i) \/ i + RefLength = Len(stream) + 1
  BY <1>1 DEF StandsAt
<1>4. i <= Len(stream) => (Edge(i)' <=> Edge(i))
  BY <1>1 DEF Edge
<1> QED
  BY <1>1, <1>2, <1>3, <1>4

(***************************************************************************)
(* A byte outside of the alphabet (refs.go:83-87).                         *)
(***************************************************************************)
LEMMA SkipInv == ASSUME IInv, NEW c \in Char, Skip(c) PROVE IInv'
<1> USE AlphabetAssumption, LengthAssumption
<1>0. /\ stream \in Seq(Char) /\ stream' = Append(stream, c) /\ c \notin Base32
      /\ n' = 0 /\ hits' = hits /\ hashes' = hashes /\ spc' = "ready"
  BY DEF IInv, TypeOK, Skip
<1>1. TypeOK'
  BY <1>0 DEF IInv, TypeOK, Skip, Hash
<1>2. Len(stream') = Len(stream) + 1 /\ stream'[Len(stream) + 1] = c
  BY <1>0
<1>3. Window'
  BY <1>0, <1>2 DEF Window
<1>4. InStep'
  <2> SUFFICES ASSUME NEW i \in 0..Len(stream'), RunsFrom(i)' PROVE i = Len(stream')
    BY <1>0, <1>2 DEF InStep
  <2>1. i = Len(stream) + 1 \/ Len(stream) + 1 \in (i + 1)..Len(stream')
    BY <1>0, <1>2
  <2> QED
    BY <2>1, <1>0, <1>2 DEF RunsFrom
<1>5. Kept' /\ Started'
  BY <1>0 DEF IInv, Kept, Started
<1>6. HitsStand'
  <2> SUFFICES ASSUME NEW h \in hits PROVE \E i \in 0..Len(stream') : StandsAt(h, i)'
    BY <1>0 DEF HitsStand
  <2>1. PICK i \in 0..Len(stream) : StandsAt(h, i)
    BY DEF IInv, HitsStand
  <2>2. h \in Hash
    BY DEF IInv, TypeOK
  <2>3. StandsAt(h, i)'
    BY <2>1, <2>2, <1>0, StandsOn
  <2> QED
    BY <2>3, <1>2
<1>7. FindsReferences'
  <2> SUFFICES ASSUME NEW i \in 0..Len(stream'), NEW h \in Hash, Edge(i)', StandsAt(h, i)',
                      \A j \in 1..RefLength : h[j] \in Base32, hashes[h] # {}
               PROVE  h \in hits
    BY <1>0 DEF FindsReferences
  <2>1. i + RefLength # Len(stream) + 1
    <3>1. RefLength \in 1..RefLength
      OBVIOUS
    <3>2. stream'[i + RefLength] = h[RefLength] /\ h[RefLength] \in Base32
      BY <3>1 DEF StandsAt
    <3> QED
      BY <1>0, <1>2, <3>2
  <2>2. i \in 0..Len(stream)
    BY <1>2, <1>0 DEF StandsAt
  <2>3. StandsAt(h, i) /\ Edge(i)
    BY <2>1, <2>2, <1>0, StandsOn
  <2> QED
    BY <2>2, <2>3 DEF IInv, FindsReferences
<1> QED
  BY <1>1, <1>3, <1>4, <1>5, <1>6, <1>7 DEF IInv

(***************************************************************************)
(* A byte of the alphabet, with which the buffer may be full (refs.go:89). *)
(***************************************************************************)
LEMMA TakeInv == ASSUME IInv, NEW c \in Char, Take(c) PROVE IInv'
<1> USE AlphabetAssumption, LengthAssumption
<1>0. /\ stream \in Seq(Char) /\ stream' = Append(stream, c) /\ c \in Base32
      /\ hashes' = hashes /\ spc' = "ready" /\ n \in 0..(RefLength - 1)
      /\ buf \in Hash /\ buf' = [buf EXCEPT ![n + 1] = c] /\ hits \subseteq Hash
      /\ hits \subseteq hits' /\ hits' \subseteq hits \cup {buf'}
  BY DEF IInv, TypeOK, Take
<1>1. /\ buf' \in Hash /\ buf'[n + 1] = c /\ \A j \in 1..n : buf'[j] = buf[j]
  BY <1>0 DEF Hash
<1>2. /\ Len(stream') = Len(stream) + 1 /\ stream'[Len(stream) + 1] = c
      /\ \A k \in 1..Len(stream) : stream'[k] = stream[k]
  BY <1>0
<1>3. TypeOK'
  <2>1. n' \in 0..(RefLength - 1)
    BY <1>0 DEF Take
  <2>2. hits' \subseteq Hash
    <3>1. buf' \in Hash /\ hits' \subseteq hits \cup {buf'} /\ hits \subseteq Hash
      BY <1>0, <1>1
    <3> QED
      BY ONLY <3>1
  <2>3. stream' \in Seq(Char)
    BY <1>0
  <2> QED
    BY <2>1, <2>2, <2>3, <1>0, <1>1 DEF IInv, TypeOK, Take
<1>4. /\ n <= Len(stream)
      /\ \A j \in 1..(n + 1) : /\ buf'[j] = stream'[Len(stream) - n + j]
                               /\ buf'[j] \in Base32
  <2>1. /\ n <= Len(stream)
        /\ \A j \in 1..n : buf[j] = stream[Len(stream) - n + j] /\ buf[j] \in Base32
    BY DEF IInv, Window
  <2>2. Len(stream) \in Nat /\ n \in Nat
    BY <1>0
  <2>3. ASSUME NEW j \in 1..n
        PROVE  buf'[j] = stream'[Len(stream) - n + j] /\ buf'[j] \in Base32
    <3>1. Len(stream) - n + j \in 1..Len(stream)
      BY <2>1, <2>2
    <3>2. buf'[j] = buf[j] /\ stream'[Len(stream) - n + j] = stream[Len(stream) - n + j]
      BY <3>1, <1>1, <1>2
    <3> QED
      BY <3>2, <2>1
  <2>4. buf'[n + 1] = stream'[Len(stream) - n + (n + 1)] /\ buf'[n + 1] \in Base32
    <3>1. Len(stream) - n + (n + 1) = Len(stream) + 1
      BY <2>2
    <3> QED
      BY <3>1, <1>0, <1>1, <1>2
  <2>5. \A j \in 1..(n + 1) : j \in 1..n \/ j = n + 1
    BY <2>2
  <2> QED
    BY <2>1, <2>3, <2>4, <2>5
<1>5. n' = n + 1 \/ n' = 0
  BY DEF Take
<1>6. Window'
  <2>1. CASE n' = 0
    BY <1>2, <1>0, <2>1 DEF Window
  <2>2. CASE n' = n + 1
    <3>1. Len(stream') - n' = Len(stream) - n /\ n' <= Len(stream')
      BY <1>0, <1>2, <1>4, <2>2
    <3> QED
      BY <1>4, <2>2, <3>1 DEF Window
  <2> QED
    BY <1>5, <2>1, <2>2
<1>7. ASSUME NEW i \in 0..Len(stream), Edge(i)', RunsFrom(i)', Len(stream) - i < RefLength
      PROVE  n = Len(stream) - i
  <2>1. RunsFrom(i)
    BY <1>2, <1>7, <1>0 DEF RunsFrom
  <2>2. Edge(i)
    BY <1>2, <1>7, <1>0 DEF Edge
  <2> QED
    BY <2>1, <2>2, <1>7 DEF IInv, InStep
<1>8. InStep'
  <2> SUFFICES ASSUME NEW i \in 0..Len(stream'), Edge(i)', RunsFrom(i)', Len(stream') - i < RefLength
               PROVE  n' = Len(stream') - i
    BY DEF InStep
  <2>1. i # Len(stream')
    BY <1>2, <1>0 DEF Edge
  <2>2. n = Len(stream) - i
    <3>1. i \in 0..Len(stream) /\ Len(stream) - i < RefLength
      BY ONLY <2>1, <1>2, <1>0, i \in 0..Len(stream'), Len(stream') - i < RefLength, LengthAssumption
    <3> QED
      BY ONLY <3>1, <1>7, Edge(i)', RunsFrom(i)'
  <2> QED
    BY <2>2, <1>2, <1>0 DEF Take
<1>9. Kept' /\ Started'
  BY <1>0 DEF IInv, Kept, Started
<1>10. HitsStand'
  <2> SUFFICES ASSUME NEW h \in hits' PROVE \E i \in 0..Len(stream') : StandsAt(h, i)'
    BY DEF HitsStand
  <2>1. CASE h \in hits
    <3>1. PICK i \in 0..Len(stream) : StandsAt(h, i)
      BY <2>1 DEF IInv, HitsStand
    <3>2. StandsAt(h, i)'
      BY <2>1, <3>1, <1>0, StandsOn
    <3> QED
      BY <3>2, <1>2
  <2>2. CASE h \notin hits
    <3>1. h = buf' /\ n + 1 = RefLength
      BY <2>2 DEF Take
    <3>2. PICK i \in 0..Len(stream) : i = Len(stream) - n
      <4>1. Len(stream) - n \in 0..Len(stream)
        BY <1>0, <1>4
      <4> QED
        BY <4>1
    <3>3. i + RefLength = Len(stream')
      <4>1. Len(stream) \in Nat /\ n \in Nat /\ Len(stream') = Len(stream) + 1
        BY <1>0, <1>2
      <4>2. i = Len(stream) - n /\ RefLength = n + 1
        BY <3>1, <3>2
      <4> QED
        BY ONLY <4>1, <4>2
    <3>4. \A j \in 1..RefLength : stream'[i + j] = buf'[j]
      <4> SUFFICES ASSUME NEW j \in 1..RefLength PROVE stream'[i + j] = buf'[j]
        OBVIOUS
      <4>1. j \in 1..(n + 1)
        BY <3>1
      <4>2. buf'[j] = stream'[Len(stream) - n + j]
        BY ONLY <4>1, <1>4
      <4> QED
        BY <4>2, <3>2
    <3>5. StandsAt(h, i)'
      BY <3>1, <3>3, <3>4 DEF StandsAt
    <3> QED
      BY <3>5, <1>2
  <2> QED
    BY <2>1, <2>2
<1>11. FindsReferences'
  <2> SUFFICES ASSUME NEW i \in 0..Len(stream'), NEW h \in Hash, Edge(i)', StandsAt(h, i)',
                      \A j \in 1..RefLength : h[j] \in Base32, hashes[h] # {}
               PROVE  h \in hits'
    BY <1>0 DEF FindsReferences
  <2>1. i \in 0..Len(stream)
    BY <1>2, <1>0 DEF StandsAt
  <2>2. CASE i + RefLength # Len(stream) + 1
    <3>1. StandsAt(h, i) /\ Edge(i)
      BY <2>1, <2>2, <1>0, StandsOn
    <3> QED
      BY <2>1, <3>1, <1>0 DEF IInv, FindsReferences
  <2>3. CASE i + RefLength = Len(stream) + 1
    <3>1. RunsFrom(i)'
      <4> SUFFICES ASSUME NEW k \in (i + 1)..Len(stream') PROVE stream'[k] \in Base32
        BY DEF RunsFrom
      <4>1. k - i \in 1..RefLength /\ i + (k - i) = k
        BY <2>1, <2>3, <1>2, <1>0
      <4> QED
        BY <4>1 DEF StandsAt
    <3>2. n = Len(stream) - i
      BY <3>1, <2>1, <2>3, <1>7, <1>0
    <3>3. n + 1 = RefLength
      BY <3>2, <2>1, <2>3, <1>0
    <3>4. \A j \in 1..RefLength : buf'[j] = h[j]
      <4> SUFFICES ASSUME NEW j \in 1..RefLength PROVE buf'[j] = h[j]
        OBVIOUS
      <4>1. j \in 1..(n + 1)
        BY <3>3
      <4>2. buf'[j] = stream'[Len(stream) - n + j]
        BY ONLY <4>1, <1>4
      <4>3. stream'[i + j] = h[j]
        BY DEF StandsAt
      <4>4. Len(stream) - n + j = i + j
        <5>1. Len(stream) \in Nat /\ n \in Nat /\ i \in Nat /\ j \in Nat
          BY <1>0, <2>1
        <5> QED
          BY ONLY <5>1, <3>2
      <4> QED
        BY <4>2, <4>3, <4>4
    <3>5. h = buf'
      BY <3>4, <1>1 DEF Hash
    <3> QED
      BY <3>3, <3>5 DEF Take
  <2> QED
    BY <2>2, <2>3
<1> QED
  BY <1>3, <1>6, <1>8, <1>9, <1>10, <1>11 DEF IInv

(***************************************************************************)
(* Every step preserves the invariant.                                     *)
(***************************************************************************)
LEMMA NextInv == IInv /\ [Next]_vars => IInv'
<1> SUFFICES ASSUME IInv, [Next]_vars PROVE IInv'
  OBVIOUS
<1> USE AlphabetAssumption, LengthAssumption, RequestAssumption
<1>1. CASE AddCandidate
  <2>1. UNCHANGED scanner /\ hits = {} /\ stream = << >> /\ spc' # "ready"
    BY <1>1 DEF AddCandidate, IInv, Started
  <2>2. Head(candidates) \in Candidate /\ Tail(candidates) \in Seq(Candidate)
    BY <1>1 DEF AddCandidate, IInv, TypeOK
  <2>3. Head(candidates).hash \in Hash
    BY <2>2 DEF Candidate
  <2>4. TypeOK'
    BY <1>1, <2>1, <2>2, <2>3 DEF AddCandidate, IInv, TypeOK, scanner
  <2>5. Kept'
    <3> SUFFICES ASSUME NEW h \in Hash, NEW c \in hashes'[h]
                 PROVE  c.prefixed /\ c.long /\ c.hash = h
      BY DEF Kept
    <3>1. hashes \in [Hash -> SUBSET Candidate]
      BY DEF IInv, TypeOK
    <3>2. CASE c \in hashes[h]
      BY <3>2 DEF IInv, Kept
    <3>3. CASE c \notin hashes[h]
      BY <3>1, <3>3, <1>1, <2>3 DEF AddCandidate
    <3> QED
      BY <3>2, <3>3
  <2>6. Window' /\ InStep' /\ HitsStand'
    BY <2>1 DEF scanner, IInv, Window, InStep, HitsStand, RunsFrom, Edge, StandsAt
  <2>7. FindsReferences' /\ Started'
    BY <2>1 DEF scanner, FindsReferences, Started, StandsAt
  <2> QED
    BY <2>4, <2>5, <2>6, <2>7 DEF IInv
<1>2. CASE Ready \/ UNCHANGED vars
  <2>1. /\ UNCHANGED <<candidates, hashes, scanner>>
        /\ spc' = spc \/ (spc = "new" /\ spc' = "ready")
    BY <1>2 DEF Ready, vars
  <2>2. TypeOK' /\ Kept'
    BY <2>1 DEF scanner, IInv, TypeOK, Kept
  <2>3. Window' /\ InStep' /\ HitsStand'
    BY <2>1 DEF scanner, IInv, Window, InStep, HitsStand, RunsFrom, Edge, StandsAt
  <2>4. FindsReferences' /\ Started'
    BY <2>1 DEF scanner, IInv, FindsReferences, Started, Edge, StandsAt
  <2> QED
    BY <2>2, <2>3, <2>4 DEF IInv
<1>3. CASE Write
  BY <1>3, SkipInv, TakeInv DEF Write
<1> QED
  BY <1>1, <1>2, <1>3 DEF Next

(***************************************************************************)
(* The inductive invariant holds throughout.                               *)
(***************************************************************************)
THEOREM Invariance == Spec => []IInv
BY InitInv, NextInv, PTL DEF Spec

(***************************************************************************)
(* The variables keep to their types (refs.go:28-40).                      *)
(***************************************************************************)
THEOREM TypeCorrect == Spec => []TypeOK
<1>1. IInv => TypeOK
  BY DEF IInv
<1> QED
  BY <1>1, Invariance, PTL

(***************************************************************************)
(* What is reported was asked for, and stands in the stream.               *)
(***************************************************************************)
THEOREM SoundReports == Spec => []ReportsOnlyReferences
<1>1. IInv => ReportsOnlyReferences
  <2> SUFFICES ASSUME IInv, NEW h \in hits, NEW r \in hashes[h]
               PROVE  /\ r.prefixed /\ r.long /\ r.hash \in hits
                      /\ \E i \in 0..Len(stream) : StandsAt(r.hash, i)
    BY DEF ReportsOnlyReferences, References
  <2>1. h \in Hash
    BY DEF IInv, TypeOK
  <2>2. r.prefixed /\ r.long /\ r.hash = h
    BY <2>1 DEF IInv, Kept
  <2> QED
    BY <2>2 DEF IInv, HitsStand
<1> QED
  BY <1>1, Invariance, PTL

(***************************************************************************)
(* No reference behind an edge is missed.                                  *)
(***************************************************************************)
THEOREM NothingMissed == Spec => []FindsReferences
<1>1. IInv => FindsReferences
  BY DEF IInv
<1> QED
  BY <1>1, Invariance, PTL
============================================================================
