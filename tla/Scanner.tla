------------------------------ MODULE Scanner ------------------------------
(***************************************************************************)
(* ReferenceScanner (src/pkg/nixpath/references/refs.go): it looks for the *)
(* hashes of store paths in a stream, with a buffer for one hash only.     *)
(*                                                                         *)
(* A step of Write is the loop's body, for one byte.  Nothing but buf and  *)
(* n is kept between two bytes, so that it makes no difference how the     *)
(* stream is cut into calls of Write.                                      *)
(***************************************************************************)
EXTENDS Naturals, Sequences

CONSTANTS
  Char,        \* the bytes of a stream
  Base32,      \* those of the alphabet (isNixBase32)
  Nul,         \* the byte 0
  RefLength,   \* the length of a hash
  PathName,    \* what is behind the hashes of store paths
  Requests,    \* the lists of candidates the scanner may be asked for
  MaxStream    \* a bound on the length of the stream

Hash == [1..RefLength -> Char]

\* A string with the prefix StoreDir or not, long enough or not; the hash is
\* what stands where a hash belongs.
Candidate == [prefixed : BOOLEAN, long : BOOLEAN, hash : Hash, name : PathName]

ASSUME AlphabetAssumption == Base32 \subseteq Char /\ Nul \in Char \ Base32
ASSUME LengthAssumption   == RefLength \in Nat \ {0} /\ MaxStream \in Nat
ASSUME RequestAssumption  == Requests \subseteq Seq(Candidate)

VARIABLES
  spc, candidates,   \* NewReferenceScanner: label, and what it has not looked at
  hashes,            \* the map r.hashes: {} where it has no entry, else a singleton
  hits, buf, n,      \* the scanner
  stream             \* history: what has been written to it

scanner == <<hits, buf, n, stream>>
vars    == <<spc, candidates, hashes, scanner>>

Init ==
  /\ spc = "new" /\ candidates \in Requests
  /\ hashes = [h \in Hash |-> {}]
  /\ hits = {} /\ buf = [i \in 1..RefLength |-> Nul] /\ n = 0
  /\ stream = << >>

----------------------------------------------------------------------------
\* Of two candidates with the same hash the later one is kept.
AddCandidate ==
  /\ spc = "new" /\ candidates # << >>
  /\ LET c == Head(candidates) IN
       IF c.prefixed /\ c.long
         THEN hashes' = [hashes EXCEPT ![c.hash] = {c}] /\ UNCHANGED spc
         ELSE spc' = "failed" /\ UNCHANGED hashes
  /\ candidates' = Tail(candidates)
  /\ UNCHANGED scanner

Ready == spc = "new" /\ candidates = << >> /\ spc' = "ready" /\ UNCHANGED <<candidates, hashes, scanner>>

\* Mutant: a byte that belongs to no hash is passed over.
SkipKeeping(c) ==
  /\ spc = "ready" /\ Len(stream) < MaxStream /\ c \notin Base32
  /\ stream' = Append(stream, c)
  /\ UNCHANGED <<spc, candidates, hashes, hits, buf, n>>

Skip(c) ==
  /\ spc = "ready" /\ Len(stream) < MaxStream /\ c \notin Base32
  /\ n' = 0 /\ stream' = Append(stream, c)
  /\ UNCHANGED <<spc, candidates, hashes, hits, buf>>

Take(c) ==
  /\ spc = "ready" /\ Len(stream) < MaxStream /\ c \in Base32
  /\ stream' = Append(stream, c)
  /\ buf' = [buf EXCEPT ![n + 1] = c]
  /\ IF n + 1 = RefLength
       THEN n' = 0 /\ hits' = IF hashes[buf'] # {} THEN hits \cup {buf'} ELSE hits
       ELSE n' = n + 1 /\ UNCHANGED hits
  /\ UNCHANGED <<spc, candidates, hashes>>

Write == \E c \in Char : Skip(c) \/ Take(c)

References == UNION {hashes[h] : h \in hits}

Next == AddCandidate \/ Ready \/ Write

Spec == Init /\ [][Next]_vars

----------------------------------------------------------------------------
(***************************************************************************)
(* Properties                                                              *)
(***************************************************************************)
\* The variables keep to their types.
TypeOK ==
  /\ spc \in {"new", "ready", "failed"} /\ candidates \in Seq(Candidate)
  /\ hashes \in [Hash -> SUBSET Candidate]
  /\ hits \subseteq Hash
  /\ buf \in Hash /\ n \in 0..(RefLength - 1)
  /\ stream \in Seq(Char)

\* The hash h stands behind the first i bytes of the stream.
StandsAt(h, i) ==
  i + RefLength <= Len(stream) /\ \A j \in 1..RefLength : stream[i + j] = h[j]

\* No byte of a hash stands right in front of what follows the first i bytes.
Edge(i) == i = 0 \/ stream[i] \notin Base32

(***************************************************************************)
(* What is reported was asked for, and its hash stands in the stream as a  *)
(* whole (refs.go:67-105).                                                 *)
(***************************************************************************)
ReportsOnlyReferences ==
  \A r \in References :
    /\ r.prefixed /\ r.long /\ r.hash \in hits
    /\ \E i \in 0..Len(stream) : StandsAt(r.hash, i)

(***************************************************************************)
(* No reference is missed: a hash that was asked for and that stands       *)
(* behind a byte that is no hash's, as the '/' of a store path is, or at   *)
(* the very beginning, is a hit, however the stream goes on and whatever   *)
(* came before (refs.go:81-105).                                           *)
(***************************************************************************)
FindsReferences ==
  \A i \in 0..Len(stream) : \A h \in Hash :
    Edge(i) /\ StandsAt(h, i) /\ (\A j \in 1..RefLength : h[j] \in Base32) /\ hashes[h] # {}
      => h \in hits
============================================================================
