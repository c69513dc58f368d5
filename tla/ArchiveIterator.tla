-------------------------- MODULE ArchiveIterator --------------------------
(***************************************************************************)
(* What nar.Reader promises the code that walks an archive with it         *)
(* (src/pkg/nar/reader.go:312-318): the headers of the archive, each once  *)
(* and in the order they are stored; io.EOF when there are no more of      *)
(* them, and never before; an error if, and only if, the archive is not    *)
(* a sound one.  How the headers are produced is left to NarReader.        *)
(***************************************************************************)
EXTENDS NarPath

CONSTANT Archives   \* records with the fields "entries" and "intact"

VARIABLES
  archive,     \* the archive being read
  delivered,   \* the headers handed out so far
  outcome      \* "none" while there may be more, else how it ended

vars == <<archive, delivered, outcome>>

Init ==
  /\ archive \in Archives
  /\ delivered = << >>
  /\ outcome = "none"

InOrder(h) ==
  delivered # << >> => Ordered(delivered[Len(delivered)].path, h.path)

Deliver ==
  /\ outcome = "none"
  /\ Len(delivered) < Len(archive.entries)
  /\ LET h == archive.entries[Len(delivered) + 1]
     IN  InOrder(h) /\ delivered' = Append(delivered, h)
  /\ UNCHANGED <<archive, outcome>>

Exhaust ==
  /\ outcome = "none"
  /\ archive.intact
  /\ delivered = archive.entries
  /\ outcome' = "eof"
  /\ UNCHANGED <<archive, delivered>>

Refuse ==
  /\ outcome = "none"
  /\ ~archive.intact
  /\ outcome' = "err"
  /\ UNCHANGED <<archive, delivered>>

Close ==
  /\ outcome \in {"none", "err"}
  /\ outcome' = "closed"
  /\ UNCHANGED <<archive, delivered>>

Next == Deliver \/ Exhaust \/ Refuse \/ Close

Spec == Init /\ [][Next]_vars
============================================================================
