----------------------------- MODULE MCScanner -----------------------------
(***************************************************************************)
(* Instances of Scanner: hashes of three characters out of two, and every  *)
(* stream of up to seven bytes.                                            *)
(***************************************************************************)
EXTENDS Scanner

Path(hash) == [prefixed |-> TRUE, long |-> TRUE, hash |-> hash, name |-> "one"]

\* The hashes overlap themselves, or each other; "/" is in no hash of a store.
AAA == <<"a", "a", "a">>
ABA == <<"a", "b", "a">>
BAA == <<"b", "a", "a">>

MCRequests ==
  {<< >>, <<Path(AAA)>>, <<Path(ABA), Path(BAA)>>,
   <<Path(ABA), [Path(ABA) EXCEPT !.name = "two"], Path(<<"a", "/", "a">>)>>,
   <<Path(ABA), [Path(AAA) EXCEPT !.prefixed = FALSE]>>, <<[Path(AAA) EXCEPT !.long = FALSE]>>}
============================================================================
