------------------------------ MODULE NarInfo ------------------------------
(***************************************************************************)
(* src/pkg/narinfo: Parse reads a narinfo line by line, Check looks at     *)
(* what it has read, and String writes it back.  The machine parses a file *)
(* whose lines are given (Begins) or are anything that a cache may send,   *)
(* checks it, renders it and parses what it has rendered.                  *)
(***************************************************************************)
EXTENDS NixHash, Sequences, SequencesExt

CONSTANTS
  Begins,      \* a sequence of the lines that files may begin with
  Words,       \* the texts of fields
  Chomp,       \* a text without the return that it may end with: one, if it ends with more
  FullPath,    \* one of them: a store path
  BaseName,    \* and its name without the store's directory
  Sizes,       \* what size fields say: NotANumber, or a number
  HashTexts, RefLists, SigTexts,
  MaxLines,    \* bound: the lines behind a beginning
  MaxRefs      \* the references a line of maxCapacity bytes has room for

NotANumber == -1
SigSize == 64

ASSUME BoundAssumption == MaxLines \in Nat /\ MaxRefs \in Nat

Texts == Words \cup {Blank, "bzip2"}

ASSUME ChompAssumption ==
  Chomp \in [Texts -> Texts] /\ Chomp[Blank] = Blank /\ Chomp["bzip2"] = "bzip2"

Line(k, v) == [key |-> k, says |-> v]

TextKeys == {"StorePath", "URL", "Compression", "Deriver", "System", "CA"}
HashKeys == {"FileHash", "NarHash"}
SizeKeys == {"FileSize", "NarSize"}

\* The lines of files.
FileLine ==
  {Line(k, Blank) : k \in {Blank, "?"}} \cup {Line(k, w) : k \in TextKeys, w \in Words}
    \cup {Line(k, t) : k \in HashKeys, t \in HashTexts}
    \cup {Line(k, n) : k \in SizeKeys, n \in Sizes}
    \cup {Line("References", r) : r \in RefLists} \cup {Line("Sig", s) : s \in SigTexts}

ASSUME LineAssumption ==
  /\ \A j \in DOMAIN Begins : Begins[j] \in Seq(FileLine)
  /\ RefLists \subseteq Seq(Texts)

VARIABLES
  pass,      \* 1: the file of the cache, 2: what String has written
  text,      \* the lines that are known to come
  lines,     \* how many others have come
  info,      \* narInfo
  first,     \* what the first pass has read
  status,    \* of Parse: "parsing", "parsed", "failed", "panicked"
  verdict    \* of Check

infoVars == <<pass, text, lines, info, first, status, verdict>>

Empty ==
  [StorePath |-> Blank, URL |-> Blank, Compression |-> Blank,
   Deriver |-> Blank, System |-> Blank, CA |-> Blank,
   FileHash |-> {}, NarHash |-> {}, FileSize |-> 0, NarSize |-> 0,
   References |-> << >>, Signatures |-> << >>]

InfoInit ==
  /\ \E i \in DOMAIN Begins : text = Begins[i]
  /\ pass = 1 /\ lines = 0 /\ info = Empty /\ first = Empty
  /\ status = "parsing" /\ verdict = "none"

----------------------------------------------------------------------------
\* Parse, a line at a time.  What bufio.ScanLines hands on of a line has lost a
\* return at its end: here that is one of a field's text or of the last reference,
\* and a single reference may vanish with it.  The values of the other keys are
\* those that the scanner hands on.
LastChomped(refs) ==
  IF refs = << >> THEN refs
  ELSE LET chomped == [refs EXCEPT ![Len(refs)] = Chomp[@]] IN
       IF chomped = <<Blank>> THEN << >> ELSE chomped

Scanned(l) ==
  [l EXCEPT !.says = IF l.key \in TextKeys THEN Chomp[@]
                      ELSE IF l.key = "References" THEN LastChomped(@) ELSE @]

Fail == status' = "failed" /\ UNCHANGED info
Set(k, v) == info' = [info EXCEPT ![k] = v] /\ UNCHANGED status

BlankLine(l) == l.key = Blank /\ UNCHANGED <<info, status>>

\* A line without separator, or with a key that is not known.
OddLine(l) == l.key = "?" /\ Fail

TextLine(l) == l.key \in TextKeys /\ Set(l.key, l.says)

HashLine(l) ==
  /\ l.key \in HashKeys
  /\ LET h == ParseAny(l.says, {}) IN IF h = {} THEN Fail ELSE Set(l.key, h)

SizeLine(l) ==
  /\ l.key \in SizeKeys
  /\ IF l.says = NotANumber THEN Fail ELSE Set(l.key, l.says)

\* An empty value leaves what earlier lines have given; the scanner gives up
\* on a line that its buffer cannot hold.
ReferencesLine(l) ==
  /\ l.key = "References"
  /\ IF Len(l.says) > MaxRefs THEN Fail ELSE Set("References", info.References \o l.says)

\* base64's Decode writes behind a dst of 64 bytes: it panics.
SigLine(l) ==
  /\ l.key = "Sig"
  /\ IF l.says.bytes = SigSize THEN Set("Signatures", Append(info.Signatures, l.says))
     ELSE IF l.says.bytes > SigSize THEN status' = "panicked" /\ UNCHANGED info
     ELSE Fail

ReadLine(l) ==
  \/ BlankLine(l) \/ OddLine(l) \/ TextLine(l) \/ HashLine(l) \/ SizeLine(l)
  \/ ReferencesLine(l) \/ SigLine(l)

KnownLine ==
  /\ status = "parsing" /\ text # << >>
  /\ ReadLine(Scanned(Head(text))) /\ text' = Tail(text)
  /\ UNCHANGED <<pass, lines, first, verdict>>

AnyLine ==
  /\ status = "parsing" /\ text = << >> /\ pass = 1 /\ lines < MaxLines
  /\ \E l \in FileLine : ReadLine(Scanned(l))
  /\ lines' = lines + 1 /\ UNCHANGED <<pass, text, first, verdict>>

\* An empty or missing compression is taken to mean bzip2.
Defaulted(i) == [i EXCEPT !.Compression = IF @ = Blank THEN "bzip2" ELSE @]

\* The end of the file, or an error of the reader in its place.
End ==
  /\ status = "parsing" /\ text = << >>
  /\ \/ status' = "parsed" /\ info' = Defaulted(info)
     \/ pass = 1 /\ Fail
  /\ UNCHANGED <<pass, text, lines, first, verdict>>

----------------------------------------------------------------------------
\* nixpath.FromString accepts a path; Absolute puts the store's directory before a name.
Valid(p) == p = FullPath
ValidName(r) == r = BaseName

ValidPaths(i) ==
  /\ Valid(i.StorePath) /\ ValidName(i.Deriver)
  /\ \A k \in DOMAIN i.References : ValidName(i.References[k])

\* cmp.Equal looks through both pointers, and panics on the fields that
\* HashWithEncoding does not export.
SameFile(i) ==
  IF i.FileSize # i.NarSize THEN "error"
  ELSE IF i.FileHash # {} /\ i.NarHash # {} THEN "panic"
  ELSE IF i.FileHash = i.NarHash THEN "ok" ELSE "error"

Check ==
  /\ status = "parsed" /\ pass = 1 /\ verdict = "none"
  /\ verdict' = IF ~ValidPaths(info) THEN "error"
                ELSE IF info.Compression = "none" THEN SameFile(info) ELSE "ok"
  /\ UNCHANGED <<pass, text, lines, info, first, status>>

----------------------------------------------------------------------------
\* String
Optional(k, v) == IF v = Blank THEN << >> ELSE <<Line(k, v)>>

FileLines(i) ==
  IF i.FileHash = {} \/ i.FileSize = 0 THEN << >>
  ELSE <<Line("FileHash", Format(CHOOSE h \in i.FileHash : TRUE)), Line("FileSize", i.FileSize)>>

\* Mutant: of the signatures only the first is written.
FirstSignature(i) == [k \in 1..(IF i.Signatures = << >> THEN 0 ELSE 1) |-> Line("Sig", i.Signatures[k])]

SigLines(i) == [k \in DOMAIN i.Signatures |-> Line("Sig", i.Signatures[k])]

Rendered(i) ==
  <<Line("StorePath", i.StorePath), Line("URL", i.URL), Line("Compression", i.Compression)>>
    \o FileLines(i)
    \o <<Line("NarHash", Format(CHOOSE h \in i.NarHash : TRUE)), Line("NarSize", i.NarSize),
         Line("References", i.References)>>
    \o Optional("Deriver", i.Deriver) \o Optional("System", i.System)
    \o SigLines(i) \o Optional("CA", i.CA)

\* NarHash is taken to be there: the method of a nil pointer panics.
String ==
  /\ status = "parsed" /\ pass = 1
  /\ IF info.NarHash = {}
       THEN status' = "panicked" /\ UNCHANGED <<pass, text, info, first>>
       ELSE /\ text' = Rendered(info) /\ pass' = 2 /\ status' = "parsing"
            /\ first' = info /\ info' = Empty
  /\ UNCHANGED <<lines, verdict>>

InfoNext == KnownLine \/ AnyLine \/ End \/ Check \/ String

InfoSpec == InfoInit /\ [][InfoNext]_infoVars

----------------------------------------------------------------------------
(***************************************************************************)
(* Properties                                                              *)
(***************************************************************************)
(***************************************************************************)
(* What String writes is parsed, unless the references of several lines do *)
(* not fit in one or a hash had returns inside; and then to what it was    *)
(* written from, whatever the lines that came from were like (a key given  *)
(* twice, an encoding that is not canonical, a digest of another length    *)
(* than the algorithm's), but for                                          *)
(*   - the hash or the size of the file where the other is missing, and    *)
(*   - a return at the end of a text or of the last reference, where the   *)
(*     line of the cache had ended with several: String writes it          *)
(*     (types.go:46-87), and each parse takes one for the line's           *)
(*     (parser.go:26-29), down to no reference and the default compression *)
(*     where nothing else was there                                        *)
(* (types.go:43-89, parser.go:15-105).                                      *)
(***************************************************************************)
BothFileFields(i) ==
  IF i.FileHash # {} /\ i.FileSize # 0 THEN i ELSE [i EXCEPT !.FileHash = {}, !.FileSize = 0]

Chomped(i) ==
  [i EXCEPT !.StorePath = Chomp[@], !.URL = Chomp[@], !.Compression = Chomp[@],
            !.Deriver = Chomp[@], !.System = Chomp[@], !.CA = Chomp[@],
            !.References = LastChomped(@)]

RendersBack ==
  pass = 2 => /\ status = "parsed" => info = Defaulted(Chomped(BothFileFields(first)))
              /\ status = "failed" => \/ Len(first.References) > MaxRefs
                                      \/ \E k \in HashKeys : \E h \in first[k] : Shortened(h)
              /\ status # "panicked"

(***************************************************************************)
(* Check answers, also where nothing is compressed (check.go:14-15).       *)
(***************************************************************************)
CheckAnswers == verdict # "panic"
============================================================================
