------------------------------ MODULE Listing ------------------------------
(***************************************************************************)
(* The listings that a cache keeps beside its archives                     *)
(* (src/pkg/nar/ls/list.go): what ParseLS makes of one, and Lookup.        *)
(*                                                                         *)
(* A listing is a function from the paths of its nodes to the nodes.  A    *)
(* node that is null in the JSON is a nil pointer.                         *)
(***************************************************************************)
EXTENDS NarPath, SequencesExt

CONSTANT NoTarget   \* the target that is empty, or missing

Null == "null"

Entries(nodes, p) == {q \in DOMAIN nodes : q # Root /\ Parent(q) = p}

ValidName(p) == p = Root \/ Last(p) \in Name

\* What validateNode finds wrong with the fields of a node.
Unfit(node) ==
  \/ node.type \in {"regular", "directory"} /\ node.target # NoTarget
  \/ node.type \in {"directory", "symlink"} /\ node.size # 0
  \/ node.type = "symlink" /\ node.target = NoTarget

(***************************************************************************)
(* validateNode looks at a node's fields in the loop over its entries: not *)
(* at all where there are none.  A map is walked in any order, so that of  *)
(* several faults any may be met first, if nothing above it is one.        *)
(***************************************************************************)
Faulty(nodes, p) ==
  ~ValidName(p) \/ (nodes[p].type # Null /\ Entries(nodes, p) # {} /\ Unfit(nodes[p]))

Met(nodes) == {p \in DOMAIN nodes : \A n \in 0..(Len(p) - 1) : ~Faulty(nodes, SubSeq(p, 1, n))}

Errors(nodes) == {p \in Met(nodes) : Faulty(nodes, p)}
Panics(nodes) == {p \in Met(nodes) : ~Faulty(nodes, p) /\ nodes[p].type = Null}

\* What ParseLS may do with a listing that decodes.
ParseLS(nodes) ==
  IF Errors(nodes) \cup Panics(nodes) = {} THEN {"ok"}
  ELSE {IF p \in Errors(nodes) THEN "error" ELSE "panic" : p \in Errors(nodes) \cup Panics(nodes)}

\* strings.Split, and the names it yields: empty ones are passed over.
Names(p) ==
  IF \A i \in DOMAIN p : p[i] # "" THEN p ELSE SelectSeq(p, LAMBDA name : name # "")

(***************************************************************************)
(* Root.Lookup.  It goes no further than a node that is no directory.      *)
(***************************************************************************)
Lookup(nodes, p) ==
  IF Names(p) \in DOMAIN nodes /\ \A n \in 0..(Len(Names(p)) - 1) :
                                     nodes[SubSeq(Names(p), 1, n)].type = "directory"
    THEN {nodes[Names(p)]} ELSE {}
============================================================================
