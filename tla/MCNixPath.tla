----------------------------- MODULE MCNixPath -----------------------------
(***************************************************************************)
(* Instances of NixPath: digests of five bytes, the least whose encoding   *)
(* has no bits to spare, as that of 20 bytes has none; and every string of *)
(* up to five characters out of five for the decoder.                      *)
(***************************************************************************)
EXTENDS NixPath

MCNameChar == {"a", "-", "."}

MCStrings == UNION {[1..len -> {0, 1, 21, 31, NoDigit}] : len \in 0..5}

MCHashes == {h \in [1..8 -> {1, 30, NoDigit}] : \A k \in 1..8 : h[k] # NoDigit \/ k \in {1, 5}}

MCInputs ==
  [dir : {Store, "/nix/other"}, sep : {Slash, "a"}, hash : MCHashes, dash : {Dash, "a"},
   name : {<< >>, <<"a">>, <<".", "a">>, <<"a", "-", "a">>, <<"a", "/">>}]
============================================================================
