------------------------------- MODULE MCDump -------------------------------
(***************************************************************************)
(* Instances of Dump: small trees with an entry of every kind, and a few changes. *)
(***************************************************************************)
EXTENDS Dump

Ascending == <<"", ".", "..", "..a", "a", "b">>

MCName      == ToSet(Ascending)
MCNameOrder == {<<Ascending[i], Ascending[j]>> : <<i, j>> \in
                  {ij \in (DOMAIN Ascending) \X (DOMAIN Ascending) : ij[1] < ij[2]}}
MCDotDot    == {"..a"}

Dir        == [Absent EXCEPT !.type = "directory"]
File(n, x) == [Absent EXCEPT !.type = "regular", !.size = n, !.executable = x]
Link(t)    == [Absent EXCEPT !.type = "symlink", !.target = t]
Socket     == [Absent EXCEPT !.type = "other"]

MCNode == {Absent, File(1, FALSE), Link("out")}

\* "/", "/a", "/a/a", "/a/b", "/b" and "/b/..a"
A  == <<"a">>
AA == <<"a", "a">>
AB == <<"a", "b">>
B  == <<"b">>
BD == <<"b", "..a">>

Tree(root, a, aa, ab, b, bd) ==
  [p \in {Root, A, AA, AB, B, BD} |->
     CASE p = Root -> root [] p = A -> a [] p = AA -> aa [] p = AB -> ab [] p = B -> b [] p = BD -> bd]

MCTrees ==
  {Tree(Dir, Dir, File(1, FALSE), Link("out"), File(3, TRUE), Absent),
   Tree(Dir, Dir, Absent, File(3, TRUE), Link("gone"), Absent),
   Tree(Dir, Dir, Socket, File(1, FALSE), Dir, Absent),
   Tree(Dir, Absent, Absent, Absent, Dir, File(1, FALSE)),
   Tree(File(3, FALSE), Absent, Absent, Absent, Absent, Absent)}

MCFilters == {{}, {Root}, {AA, BD}}

MCElsewhere == [t \in {"out", "gone"} |-> IF t = "out" THEN File(3, FALSE) ELSE Absent]

MCOffers ==
  {HeaderOf(p, n) : p \in {Root, A, AA, AB, B, BD},
                    n \in {Dir, File(1, FALSE), File(3, FALSE), File(3, TRUE), Link("out"), Link("gone")}}
============================================================================
