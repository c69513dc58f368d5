------------------------------ MODULE NixHash ------------------------------
(***************************************************************************)
(* Hashes as they are written in narinfo files (src/pkg/nixhash).  A text  *)
(* is its prefix, the separator behind it, and a body, given by its length *)
(* and by what each decoder makes of it: nothing but the length tells      *)
(* ParseAny which of them to ask.                                          *)
(***************************************************************************)
EXTENDS Naturals

Blank == ""  \* a text of no bytes

Algorithms == {"md5", "sha1", "sha256", "sha512"}
Size == [md5 |-> 16, sha1 |-> 20, sha256 |-> 32, sha512 |-> 64]

\* What a body may be written in; SRI is Base64 behind a dash.
Spellings == {"Base16", "NixBase32", "Base64"}
LengthIn(e, bytes) ==
  CASE e = "Base16"    -> 2 * bytes
    [] e = "NixBase32" -> IF bytes = 0 THEN 0 ELSE (8 * bytes - 1) \div 5 + 1
    [] e = "Base64"    -> 4 * ((bytes + 2) \div 3)

\* The switch of ParseAny takes the first length that fits: there is no other.
ASSUME DistinctLengths ==
  \A a \in Algorithms, e, f \in Spellings : LengthIn(e, Size[a]) = LengthIn(f, Size[a]) => e = f

\* A digest is a value and the number of its bytes.
NoDigest == [content |-> Blank, bytes |-> 0]
Body(d, e) ==
  [len |-> LengthIn(e, d.bytes), reads |-> [f \in Spellings |-> IF f = e THEN d ELSE NoDigest]]

\* ParseAny: the hash in a set, or {}.  expected is optAlgo, {} for nil.
NamedAlgorithm(text, expected) ==
  IF text.algo = Blank THEN expected
  ELSE {a \in Algorithms : a = text.algo /\ expected \subseteq {a}}

BodyEncoding(text, a) ==
  {e \in Spellings : /\ text.body.len = LengthIn(e, Size[a])
                     /\ text.body.reads[e] # NoDigest
                     /\ text.sep = "-" => e = "Base64"}

ParseAny(text, expected) ==
  UNION {{[algo |-> a, digest |-> text.body.reads[e], includeAlgo |-> text.algo # Blank,
           encoding |-> IF text.sep = "-" THEN "SRI" ELSE e] : e \in BodyEncoding(text, a)}
         : a \in NamedAlgorithm(text, expected)}

\* HashWithEncoding.String
Spelling(h) == IF h.encoding = "SRI" THEN "Base64" ELSE h.encoding

Format(h) ==
  [algo |-> IF h.encoding = "SRI" \/ h.includeAlgo THEN h.algo ELSE Blank,
   sep  |-> IF h.encoding = "SRI" THEN "-" ELSE ":",
   body |-> Body(h.digest, Spelling(h))]

\* The digest of a base64 text with returns inside, which its decoder passes
\* over: it is written shorter than it was.
Shortened(h) == LengthIn(Spelling(h), h.digest.bytes) # LengthIn(Spelling(h), Size[h.algo])
============================================================================
