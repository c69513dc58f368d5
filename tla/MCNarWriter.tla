---------------------------- MODULE MCNarWriter ----------------------------
(***************************************************************************)
(* Instances of NarWriter: a caller that announces any sequence of a few   *)
(* headers, sound or not.                                                  *)
(***************************************************************************)
EXTENDS NarWriter, SequencesExt

Ascending == <<"", ")", ".", "..", "..a", "a", "b", "c">>

MCName      == Range(Ascending)
MCNameOrder == {<<Ascending[i], Ascending[j]>> : <<i, j>> \in
                  {ij \in (DOMAIN Ascending) \X (DOMAIN Ascending) : ij[1] < ij[2]}}

Dir(p)           == [path |-> p, type |-> "directory", size |-> 0, executable |-> FALSE, target |-> ""]
File(p, size, x) == [path |-> p, type |-> "regular", size |-> size, executable |-> x, target |-> ""]
Link(p)          == [path |-> p, type |-> "symlink", size |-> 0, executable |-> FALSE, target |-> "t"]

SoundOffers ==
  {Dir(Root), File(Root, 1, FALSE), Dir(<<"a">>), Link(<<"a", "b">>), File(<<"a", "c">>, 2, TRUE),
   File(<<"b">>, 3, FALSE)}

\* The reader takes entries of this name for the end of their directory.
EndLikeOffers == {Dir(<<")">>), Link(<<"a", ")">>)}

\* A directory that has a size is no valid header.
MCOffers == SoundOffers \cup EndLikeOffers \cup {[Dir(<<"c">>) EXCEPT !.size = 1]}

MCDotDot == {"..a"}
============================================================================
