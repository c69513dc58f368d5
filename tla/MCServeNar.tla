----------------------------- MODULE MCServeNar -----------------------------
(***************************************************************************)
(* Instances of ServeNar: two store paths, one of them with names that are *)
(* prefixes of each other, as the fixture of index_test.go has them.       *)
(***************************************************************************)
EXTENDS ServeNar

\* In ascending order of their bytes: '-' comes before any letter.
Ascending == <<"", ".", "..", "bin", "h1-a", "h1-b", "h2", "lib", "lib-x", "libexec", "nix", "store", "x">>

MCName      == Range(Ascending)
MCNameOrder == {<<Ascending[i], Ascending[j]>> : <<i, j>> \in
                  {ij \in (DOMAIN Ascending) \X (DOMAIN Ascending) : ij[1] < ij[2]}}

MCNoTarget == [absolute |-> FALSE, comps |-> << >>]
To(comps)     == [absolute |-> FALSE, comps |-> comps]
Beyond(comps) == [absolute |-> TRUE, comps |-> comps]

Dir(p)        == [path |-> p, type |-> "directory", size |-> 0, target |-> MCNoTarget]
File(p, size) == [path |-> p, type |-> "regular", size |-> size, target |-> MCNoTarget]
Link(p, to)   == [path |-> p, type |-> "symlink", size |-> 0, target |-> to]

MCHash  == {"h1", "h2", "h3"}
MCWellFormed == {"h1", "h2"}
MCMount == <<"nix", "store">>

MCStore == [h \in {"h1", "h2"} |->
  IF h = "h1"
    THEN [name |-> "h1-a",
          entries |-> <<Dir(Root), Dir(<<"bin">>), Link(<<"bin", "lib">>, To(<<"..", "..", "h2", "x">>)),
                        File(<<"bin", "x">>, 2), Dir(<<"lib">>), Link(<<"lib", "bin">>, Beyond(<<"bin">>)),
                        File(<<"lib", "x">>, 0), File(<<"lib-x">>, 1), Dir(<<"libexec">>),
                        Dir(<<"libexec", "bin">>), File(<<"libexec", "bin", "x">>, 1)>>]
    ELSE [name |-> "h2", entries |-> <<File(Root, 1)>>]]

MCHashOf == [n \in MCName |-> CASE n \in {"h1-a", "h1-b"} -> "h1" [] n = "h2" -> "h2" [] OTHER -> "h3"]

At(h) == MCMount \o <<h>>

MCUrls ==
  {At("h1-a") \o p : p \in {<< >>, <<"">>, <<"bin">>, <<"bin", "x">>, <<"bin", "lib", "">>, <<"lib">>,
                            <<"", "lib", "bin">>, <<"lib", "lib">>, <<"lib", "x">>, <<"lib-x">>, <<"libexec">>,
                            <<"lib", "x", "x">>, <<"x">>, <<"..">>, <<"..", "h2">>,
                            <<"lib", "", "x">>, <<"libexec", "", "bin">>}}
    \cup {At("h1-b") \o <<"bin", "x">>, At("h2"), At("h2") \o <<"x">>, At("x"), <<"lib">>, << >>}

\* The listing of a store path.
Listed(h) ==
  LET es == MCStore[h].entries
  IN  [sound |-> TRUE,
       nodes |-> [p \in {es[i].path : i \in DOMAIN es} |-> CHOOSE e \in Range(es) : e.path = p]]

\* ... with a node of a type that the reader of it does not know.
Odd(l, p) == [l EXCEPT !.sound = FALSE, !.nodes[p].type = "odd"]

\* ... with a symlink that has no target, which has no entries to be checked for.
Aimless(l, p) == [l EXCEPT !.sound = FALSE, !.nodes[p].target = MCNoTarget]

\* A directory of one entry, which is null, and of another under no valid name.
NullNode == [Dir(<<"x">>) EXCEPT !.type = Null]
NullEntries(names) ==
  [sound |-> FALSE,
   nodes |-> [p \in {Root} \cup {<<n>> : n \in names} |-> IF p = Root THEN Dir(Root) ELSE NullNode]]

MCListings == [h \in {"h1", "h2"} |->
  {Listed(h), NullEntries({"x"}), NullEntries({"x", "a/b"})}
    \cup (IF h = "h1" THEN {Odd(Listed(h), <<"lib", "x">>), Aimless(Listed(h), <<"lib", "bin">>)} ELSE {})]

AllFaults == {"cut", "fail"}
=============================================================================
