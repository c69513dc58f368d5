------------------------------ MODULE NarPath ------------------------------
(***************************************************************************)
(* Paths of the nodes of a NAR archive, and the order the reader and the   *)
(* writer demand of them (src/pkg/nar/util.go).                            *)
(*                                                                         *)
(* The code keeps a path as a string, "/a/b".  Here it is the sequence of  *)
(* its components, <<"a", "b">>; the root, "/", is the empty sequence.     *)
(* Module PathOrder relates the byte loop of util.go to this view.         *)
(***************************************************************************)
EXTENDS Naturals, Sequences

CONSTANTS
  Name,       \* the strings a directory entry may be called
  NameOrder   \* the pairs <<m, n>> of names with m < n, byte by byte

ASSUME NameOrderIsStrict ==
  /\ NameOrder \subseteq Name \X Name
  /\ \A m \in Name : <<m, m>> \notin NameOrder
  /\ \A m, n \in Name : m # n => \/ <<m, n>> \in NameOrder
                                 \/ <<n, m>> \in NameOrder
  /\ \A l, m, n \in Name :
       <<l, m>> \in NameOrder /\ <<m, n>> \in NameOrder => <<l, n>> \in NameOrder

Path == Seq(Name)
Root == << >>

----------------------------------------------------------------------------
(***************************************************************************)
(* PathIsLexicographicallyOrdered(p, q).  It is reflexive: the code asks   *)
(* for "not before", never for "after".                                    *)
(***************************************************************************)
AgreeUpTo(p, q, n) == \A j \in 1..n : p[j] = q[j]

StartsWith(q, p) == Len(p) <= Len(q) /\ AgreeUpTo(p, q, Len(p))

Ordered(p, q) ==
  \/ StartsWith(q, p)
  \/ \E i \in (1..Len(p)) \cap (1..Len(q)) :
        AgreeUpTo(p, q, i - 1) /\ <<p[i], q[i]>> \in NameOrder

(***************************************************************************)
(* path.Join(p, name) of the standard library: it cleans what it joins, so *)
(* an empty name and "." leave p as it is and ".." is its parent.          *)
(***************************************************************************)
Parent(p) == IF p = Root THEN Root ELSE SubSeq(p, 1, Len(p) - 1)

Join(p, name) ==
  IF name \in {"", "."} THEN p
  ELSE IF name = ".." THEN Parent(p)
  ELSE Append(p, name)
============================================================================
