---------------------------- MODULE MCNarReader ----------------------------
(***************************************************************************)
(* Instances of NarReader: small trees, the archives they serialise to,    *)
(* and the ways an archive can be damaged.                                 *)
(***************************************************************************)
EXTENDS NarReader, SequencesExt

(***************************************************************************)
(* Every string a name can be here, in ascending order of its bytes.       *)
(***************************************************************************)
Ascending ==
  <<"", "(", ")", ".", "..", "a", "b", "c", "contents", "directory", "entry",
    "executable", "name", "nix-archive-1", "node", "regular", "symlink", "target",
    "type", "x">>

MCName      == Range(Ascending)
MCNameOrder == {<<Ascending[i], Ascending[j]>> : <<i, j>> \in
                  {ij \in (DOMAIN Ascending) \X (DOMAIN Ascending) : ij[1] < ij[2]}}
MCMaxSize   == 9

----------------------------------------------------------------------------
(***************************************************************************)
(* A node, as the words it serialises to, the headers a reader has to      *)
(* deliver for it, and the places of the words, with paths relative to the *)
(* node and positions relative to its first word.  A file holds a sequence *)
(* of words of data, and "ragged" says its length is no multiple of 8.     *)
(***************************************************************************)
W(tok) == [tok |-> tok, size |-> 0, padded |-> FALSE]
Words(toks) == [i \in DOMAIN toks |-> W(toks[i])]

LengthWord(data, ragged) ==
  [tok |-> IF data = << >> THEN "" ELSE Oversized, size |-> Len(data), padded |-> ragged]

Places(parts, shown) ==
  [i \in DOMAIN parts |-> [part |-> parts[i], within |-> <<Root>>, shown |-> shown]]

Contents(label, parts, data, ragged) ==
  [words   |-> Words(label) \o <<LengthWord(data, ragged)>> \o Words(data)
                 \o Words(IF ragged THEN <<Padding, ")">> ELSE <<")">>),
   headers |-> <<[path |-> Root, type |-> "regular", size |-> Len(data), at |-> Len(label) + 1]>>,
   places  |-> Places(parts \o <<"length">>, 0) \o Places([i \in DOMAIN data |-> "data"], 1)
                 \o Places(IF ragged THEN <<"padding", "close">> ELSE <<"close">>, 1)]

File(data, ragged) ==
  Contents(<<"(", "type", "regular", "contents">>, <<"open", "type", "label", "body">>, data, ragged)
Program(data, ragged) ==
  Contents(<<"(", "type", "regular", "executable", "", "contents">>,
           <<"open", "type", "label", "body", "placeholder", "contents">>, data, ragged)

Link ==
  [words   |-> Words(<<"(", "type", "symlink", "target", "x", ")">>),
   headers |-> <<[path |-> Root, type |-> "symlink", size |-> 0, at |-> 4]>>,
   places  |-> Places(<<"open", "type", "label", "target", "linkTarget">>, 0) \o Places(<<"close">>, 1)]

Entry(name, node) ==
  [words   |-> Words(<<"entry", "(", "name", name, "node">>) \o node.words \o Words(<<")">>),
   headers |-> [i \in DOMAIN node.headers |->
                  [node.headers[i] EXCEPT !.path = Join(Root, name) \o @,
                                          !.at = IF @ = 0 THEN 0 ELSE @ + 5]],
   places  |-> Places(<<"loop", "entryOpen", "entryName", "name", "entryNode">>, 0)
                 \o [i \in DOMAIN node.places |->
                       [node.places[i] EXCEPT
                          !.within = <<Root>> \o [k \in DOMAIN @ |-> Join(Root, name) \o @[k]]]]
                 \o Places(<<"entryClose">>, Len(node.headers))]

Directory(entries) ==
  LET all(k) == FlattenSeq([i \in 1..k |-> entries[i].words])
      shifted(i) == [j \in DOMAIN entries[i].headers |->
                       [entries[i].headers[j] EXCEPT
                          !.at = IF @ = 0 THEN 0 ELSE @ + 3 + Len(all(i - 1))]]
      below(k) == FlattenSeq([i \in 1..k |-> shifted(i)])
      behind(i) == [j \in DOMAIN entries[i].places |->
                      [entries[i].places[j] EXCEPT !.shown = @ + 1 + Len(below(i - 1))]]
  IN  [words   |-> Words(<<"(", "type", "directory">>) \o all(Len(entries)) \o Words(<<")">>),
       headers |-> <<[path |-> Root, type |-> "directory", size |-> 0, at |-> 0]>>
                     \o below(Len(entries)),
       places  |-> Places(<<"open", "type", "label">>, 0)
                     \o FlattenSeq([i \in DOMAIN entries |-> behind(i)])
                     \o Places(<<"loop">>, 1 + Len(below(Len(entries))))]

(***************************************************************************)
(* The archive of a tree; "sound" says whether a reader may refuse it for  *)
(* what it holds.  A file over MaxSize is refused.                         *)
(***************************************************************************)
Archive(tree, sound, end) ==
  LET hs == [i \in DOMAIN tree.headers |->
               [tree.headers[i] EXCEPT !.at = IF @ = 0 THEN 0 ELSE @ + 2]]
  IN  [words |-> Words(<<Magic>>) \o tree.words, end |-> end, entries |-> hs, damaged |-> FALSE,
       layout |-> <<[part |-> "magic", within |-> << >>, shown |-> 0]>> \o tree.places,
       intact |-> sound /\ Sorted(hs) /\ \A i \in DOMAIN hs : hs[i].size <= MCMaxSize]

\* A source that ends early, and says so unless it "ends" in io.EOF.
Cut(a, n) ==
  [a EXCEPT !.words = SubSeq(@, 1, n), !.intact = @ /\ n >= Len(a.words),
            !.damaged = n < Len(a.words) /\ a.end = "eof"]

Damaged(a, words) == [a EXCEPT !.words = words, !.intact = FALSE, !.damaged = TRUE]
Spoil(a, i, w)    == IF w = a.words[i] THEN a ELSE Damaged(a, [a.words EXCEPT ![i] = w])
Drop(a, i)        == Damaged(a, SubSeq(a.words, 1, i - 1) \o SubSeq(a.words, i + 1, Len(a.words)))

----------------------------------------------------------------------------
Raw(n) == [i \in 1..n |-> Oversized]

Nested ==
  Directory(<<Entry("a", Directory(<<Entry("b", File(Raw(2), TRUE)), Entry("c", Link)>>)),
              Entry("b", Program(Raw(1), FALSE)),
              Entry("c", Directory(<< >>))>>)

\* A file that holds a part of an archive: what ends its entry, and another entry.
Spelled == Directory(<<Entry("a", File(<<")", "entry", "(", "name", "b", "node", "(", "type", "directory">>, FALSE))>>)

SoundTrees ==
  {File(<< >>, FALSE), Program(Raw(2), TRUE), Link, Directory(<< >>), Nested, Spelled,
   Directory(<<Entry("a", File(Raw(5), FALSE)), Entry("x", File(Raw(1), TRUE))>>)}

RefusedTrees ==
  {Directory(<<Entry("b", Link), Entry("a", File(Raw(1), FALSE))>>),
   Directory(<<Entry("b", Directory(<<Entry("c", Link), Entry("a", Link)>>)), Entry("c", Link)>>),
   Directory(<<Entry("a", File(Raw(10), FALSE))>>)}

\* A tree with a name that ends a directory.
Misnamed == Directory(<<Entry("a", Directory(<<Entry(")", Link)>>)), Entry("b", Link)>>)

Ends == {"eof", "err"}

SoundArchives == {Archive(t, TRUE, e) : t \in SoundTrees \cup RefusedTrees \cup {Misnamed}, e \in Ends}

(***************************************************************************)
(* Archives whose source fails while they are read, at every point.        *)
(***************************************************************************)
BrokenArchives ==
  UNION {{Cut(Archive(t, TRUE, "err"), n) : n \in 0..(Len(t.words) + 1)} : t \in SoundTrees}

(***************************************************************************)
(* Archives with one word dropped, or replaced by another.                 *)
(***************************************************************************)
SpoiledTrees == {Nested, Program(Raw(2), TRUE), Directory(<<Entry("a", Link)>>)}
Replacements == {W("("), W(")"), W("entry"), W("a"), W(".."), W(""), W(Oversized), W(Dirty), W("a/b")}

SpoiledArchives ==
  UNION {LET a == Archive(t, TRUE, "eof")
         IN  {Spoil(a, i, w) : i \in DOMAIN a.words, w \in Replacements}
               \cup {Drop(a, i) : i \in DOMAIN a.words}
               \cup {Cut(a, i) : i \in DOMAIN a.words} : t \in SpoiledTrees}

MCArchives == SoundArchives \cup BrokenArchives \cup SpoiledArchives

----------------------------------------------------------------------------
(***************************************************************************)
(* Archives for the runs that disagree with the code: those that end early *)
(* without saying so, and one whose data is more of an archive.            *)
(***************************************************************************)
MCTruncatedArchives == {Cut(Archive(Nested, TRUE, "eof"), n) : n \in 1..Len(Nested.words)}

MCSpelledArchives == {Archive(Spelled, TRUE, "eof")}
============================================================================
