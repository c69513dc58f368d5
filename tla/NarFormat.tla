----------------------------- MODULE NarFormat -----------------------------
(***************************************************************************)
(* The words of an archive, and what makes a sequence of them one: the     *)
(* order in which nar.Writer puts them (src/pkg/nar/writer.go) and         *)
(* nar.Reader wants them (src/pkg/nar/reader.go).                          *)
(*                                                                         *)
(* A word is a string packet, with the padding that follows it: its field  *)
(* "tok" is the string.  A file's contents are a length word followed by   *)
(* "size" words of data, and one word of padding where the length is not a *)
(* multiple of 8 ("padded").                                               *)
(***************************************************************************)
EXTENDS NarPath

Magic     == "nix-archive-1"
Oversized == "#oversized"  \* a packet longer than any limit of the reader
Padding   == "#padding"    \* the null bytes after a file's contents ...
Dirty     == "#dirty"      \* ... and bytes there that are not null
Unreadable == {Oversized, Padding, Dirty}

Packet == [tok : STRING, size : Nat, padded : BOOLEAN]

HeaderTypes == {"regular", "symlink", "directory"}
Header == [path : Path, type : HeaderTypes, size : Nat, at : Nat]

----------------------------------------------------------------------------
(***************************************************************************)
(* What a word is there for, stated without a parser.  The layout of an    *)
(* archive gives every word its place: the part it plays in the node or    *)
(* the entry it belongs to, the paths of the nodes it stands in, outermost *)
(* first, and how many nodes have shown in front of it all that their      *)
(* headers say.  Whether a sequence of words has a given layout is a       *)
(* question about neighbours.                                              *)
(***************************************************************************)
Parts ==
  {"magic", "open", "type", "label", "body", "placeholder", "contents", "length", "data",
   "padding", "target", "linkTarget", "close", "loop", "entryOpen", "entryName", "name",
   "entryNode", "entryClose"}

Place == [part : Parts, within : Seq(Path), shown : Nat]

Innermost(place) == place.within[Len(place.within)]

Stands(a, i, part, within, shown) ==
  i <= Len(a.layout) /\ a.layout[i] = [part |-> part, within |-> within, shown |-> shown]

\* The word at i is the last one that the header of its node depends on.
Shows(a, i, type, size, at) ==
  /\ a.layout[i].shown < Len(a.entries)
  /\ a.entries[a.layout[i].shown + 1] =
       [path |-> Innermost(a.layout[i]), type |-> type, size |-> size, at |-> at]

\* The word at i closes its node: the whole archive with it, or an entry is left to close.
Closes(a, i) ==
  LET p == a.layout[i]
  IN  IF Len(p.within) = 1
        THEN i = Len(a.layout) /\ p.shown = Len(a.entries)
        ELSE Stands(a, i + 1, "entryClose", SubSeq(p.within, 1, Len(p.within) - 1), p.shown)

(***************************************************************************)
(* The word at i is one for its place, and the place that follows is next. *)
(***************************************************************************)
NodeWords(a, i) ==
  LET p == a.layout[i]
      tok == a.words[i].tok
      Then(part)  == Stands(a, i + 1, part, p.within, p.shown)
      Shown(part) == Stands(a, i + 1, part, p.within, p.shown + 1)
  IN  /\ p.part = "magic" => tok = Magic /\ Stands(a, i + 1, "open", <<Root>>, 0)
      /\ p.part = "open"  => tok = "(" /\ Then("type")
      /\ p.part = "type"  => tok = "type" /\ Then("label")
      /\ p.part = "label" => \/ tok = "regular" /\ Then("body")
                             \/ tok = "symlink" /\ Then("target")
                             \/ tok = "directory" /\ Shows(a, i, "directory", 0, 0) /\ Shown("loop")
      /\ p.part = "target" => tok = "target" /\ Then("linkTarget")
      /\ p.part = "linkTarget" =>
           tok \notin Unreadable /\ Shows(a, i, "symlink", 0, i) /\ Shown("close")
      /\ p.part = "close" => tok = ")" /\ Closes(a, i)

FileWords(a, i) ==
  LET p == a.layout[i]
      w == a.words[i]
      Then(part) == Stands(a, i + 1, part, p.within, p.shown)
  IN  /\ p.part = "body" => \/ w.tok = "executable" /\ Then("placeholder")
                            \/ w.tok = "contents" /\ Then("length")
      /\ p.part = "placeholder" => w.tok = "" /\ Then("contents")
      /\ p.part = "contents" => w.tok = "contents" /\ Then("length")
      /\ p.part = "length" =>
           /\ Shows(a, i, "regular", w.size, i + 1)
           /\ Stands(a, i + 1 + w.size, IF w.padded THEN "padding" ELSE "close",
                     p.within, p.shown + 1)
      /\ p.part = "padding" => w.tok = Padding /\ Then("close")

EntryWords(a, i) ==
  LET p == a.layout[i]
      tok == a.words[i].tok
      Then(part) == Stands(a, i + 1, part, p.within, p.shown)
  IN  /\ p.part = "loop" => \/ tok = "entry" /\ Then("entryOpen")
                            \/ tok = ")" /\ Closes(a, i)
      /\ p.part = "entryOpen" => tok = "(" /\ Then("entryName")
      /\ p.part = "entryName" => tok = "name" /\ Then("name")
      /\ p.part = "name" => tok \in Name \ Unreadable /\ Then("entryNode")
      /\ p.part = "entryNode" =>
           /\ tok = "node"
           /\ Stands(a, i + 1, "open",
                     Append(p.within, Join(Innermost(p), a.words[i - 1].tok)), p.shown)
      /\ p.part = "entryClose" => tok = ")" /\ Then("loop")

\* The words are those of an archive, or the first of them.
LaidOut(a) ==
  /\ a.layout \in Seq(Place) /\ a.entries \in Seq(Header)
  /\ Stands(a, 1, "magic", << >>, 0)
  /\ Len(a.words) <= Len(a.layout)
  /\ \A i \in DOMAIN a.words : NodeWords(a, i) /\ FileWords(a, i) /\ EntryWords(a, i)

Whole(a) == Len(a.words) = Len(a.layout)

(***************************************************************************)
(* An entry is called ")", which nar.Reader takes for the end of the       *)
(* directory the entry is in (reader.go:299).                              *)
(***************************************************************************)
HidesEntries(a) == \E i \in DOMAIN a.words : a.layout[i].part = "name" /\ a.words[i].tok = ")"

\* Every header follows the one in front of it in the canonical order.
Sorted(hs) == \A i \in 1..(Len(hs) - 1) : Ordered(hs[i].path, hs[i + 1].path)
============================================================================
