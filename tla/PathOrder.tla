----------------------------- MODULE PathOrder -----------------------------
(***************************************************************************)
(* PathIsLexicographicallyOrdered (src/pkg/nar/util.go) as it is written:  *)
(* a loop over the bytes of two paths.  What it computes is an order of    *)
(* the kind NarPath describes, on bytes and with '/' in front of all       *)
(* others.                                                                 *)
(***************************************************************************)
EXTENDS Naturals, Sequences

CONSTANTS
  Byte,    \* the bytes a path is made of
  Slash,   \* '/'
  Paths    \* the paths to compare

ASSUME BytesAreNumbers == Byte \subseteq Nat /\ Slash \in Byte
ASSUME PathsAreBytes   == Paths \subseteq Seq(Byte)

SlashFirst ==
  {ab \in Byte \X Byte :
     ab[1] # ab[2] /\ (ab[1] = Slash \/ (ab[2] # Slash /\ ab[1] < ab[2]))}

Bytes == INSTANCE NarPath WITH Name <- Byte, NameOrder <- SlashFirst

VARIABLES
  path1, path2,   \* the arguments
  i,              \* the loop variable, counted from 1
  result          \* "pending" until the function returns "true" or "false"

vars == <<path1, path2, i, result>>

Init ==
  /\ path1 \in Paths /\ path2 \in Paths
  /\ i = 1
  /\ result = "pending"

Shorter == IF Len(path1) < Len(path2) THEN Len(path1) ELSE Len(path2)

Return(b) == result' = IF b THEN "true" ELSE "false"

Continue ==
  /\ result = "pending"
  /\ i <= Shorter
  /\ path1[i] = path2[i]
  /\ i' = i + 1
  /\ UNCHANGED <<path1, path2, result>>

\* Mutant: '/' is compared as any other byte.
SmallerAsBytes(a, b) == a < b

(***************************************************************************)
(* The first byte in which the paths differ decides.  A '/' ends a         *)
(* component, and comes before whatever the other path has there.          *)
(***************************************************************************)
Smaller(a, b) ==
  IF a = Slash THEN TRUE ELSE IF b = Slash THEN FALSE ELSE a < b

Decide ==
  /\ result = "pending"
  /\ i <= Shorter
  /\ path1[i] # path2[i]
  /\ Return(Smaller(path1[i], path2[i]))
  /\ UNCHANGED <<path1, path2, i>>

\* Mutant: a path does not follow itself.
ExhaustStrictly ==
  /\ result = "pending"
  /\ i > Shorter
  /\ Return(Len(path2) > Len(path1))
  /\ UNCHANGED <<path1, path2, i>>

\* One path is a prefix of the other.
Exhaust ==
  /\ result = "pending"
  /\ i > Shorter
  /\ Return(Len(path2) >= Len(path1))
  /\ UNCHANGED <<path1, path2, i>>

Returned == result # "pending" /\ UNCHANGED vars

Next == Continue \/ Decide \/ Exhaust \/ Returned

Spec == Init /\ [][Next]_vars

----------------------------------------------------------------------------
\* The variables keep to their types.
TypeOK ==
  /\ path1 \in Seq(Byte) /\ path2 \in Seq(Byte)
  /\ i \in Nat \ {0}
  /\ result \in {"pending", "true", "false"}

(***************************************************************************)
(* The loop computes the order of the bytes with '/' in front: "A `/`      *)
(* terminates a path component, and entries are ordered by component"      *)
(* (util.go:26-31).                                                        *)
(***************************************************************************)
ComputesOrder ==
  result # "pending" => (result = "true" <=> Bytes!Ordered(path1, path2))
============================================================================
