---------------------------- MODULE MCRoundTrip ----------------------------
(***************************************************************************)
(* Instances of RoundTrip: the caller of MCNarWriter, and a reader of what *)
(* it has written.                                                         *)
(***************************************************************************)
EXTENDS RoundTrip, MCNarWriter

\* Below it are the sizes of the files, as they are below math.MaxInt64.
MCMaxSize == 9
============================================================================
