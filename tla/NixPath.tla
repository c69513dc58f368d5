------------------------------ MODULE NixPath ------------------------------
(***************************************************************************)
(* FromString (src/pkg/nixpath/nixpath.go): a store path is validated, its *)
(* hash decoded, and String renders what was parsed.  The decoder runs     *)
(* twice over the same characters, without and with a dst; other callers   *)
(* of it are here as well, with strings of any length.                     *)
(***************************************************************************)
EXTENDS NixBase32

CONSTANTS
  PathHashSize,   \* the bytes of a digest
  NameChar,       \* what a name may consist of (nixpath.go:94-113)
  Inputs,         \* the strings that are parsed
  Strings         \* those that are given to the decoder

\* A string by its parts: StoreDir or what stands in its place, a character,
\* the hash, a character, and the rest.
Slash == "/"
Dash  == "-"
Store == "/nix/store"

HashLen == EncodedLen(PathHashSize)

ASSUME HashAssumption == PathHashSize \in Nat \ {0}
ASSUME InputAssumption ==
  /\ Inputs \subseteq [dir : STRING, sep : STRING, hash : [1..HashLen -> Digit \cup {NoDigit}],
                      dash : STRING, name : Seq(STRING)]
  /\ \A string \in Strings : string \in Seq(Digit \cup {NoDigit})

VARIABLES
  pc,        \* FromString: label, "decode" where only the decoder is called
  input,     \* its argument
  parsed     \* the NixPath it has returned, or NoPath

vars == <<decoder, pc, input, parsed>>

NoPath == [name |-> << >>, digest |-> << >>]

Init ==
  /\ parsed = NoPath
  /\ \/ \E p \in Inputs : pc = "validate" /\ input = p
        /\ s = p.hash /\ filling = FALSE /\ n = 0 /\ dst = << >> /\ status = "idle"
     \/ \E string \in Strings, fill \in BOOLEAN : pc = "decode" /\ input = string
        /\ LET d == Start(string, fill) IN
             s = d.s /\ filling = d.filling /\ n = d.n /\ dst = d.dst /\ status = d.status

----------------------------------------------------------------------------
\* Mutant: the length counts the hash only.
LongEnoughForHash(p) == TRUE

LongEnough(p) == Len(p.name) >= 1

Fail == pc' = "failed" /\ UNCHANGED <<decoder, input, parsed>>

\* Length and prefix; the characters around the hash are not looked at.
ValidateHead ==
  /\ pc = "validate"
  /\ IF LongEnough(input) /\ input.dir = Store
       THEN pc' = "hash" /\ Becomes(Start(input.hash, FALSE)) /\ UNCHANGED <<input, parsed>>
       ELSE Fail

ValidateName ==
  /\ pc = "hash" /\ status # "run"
  /\ IF status = "ok" /\ (\A k \in DOMAIN input.name : input.name[k] \in NameChar)
       THEN pc' = "digest" /\ Becomes(Start(input.hash, TRUE)) /\ UNCHANGED <<input, parsed>>
       ELSE Fail

Decoded ==
  /\ pc = "digest" /\ status # "run"
  /\ IF status = "ok"
       THEN /\ pc' = "done" /\ parsed' = [name |-> input.name, digest |-> dst]
            /\ UNCHANGED <<decoder, input>>
       ELSE Fail

Next == ValidateHead \/ ValidateName \/ Decoded \/ (DecodeStep /\ UNCHANGED <<pc, input, parsed>>)

Spec == Init /\ [][Next]_vars

\* NixPath.String.  A name holds no slash, so that path.Join has nothing to clean.
String(p) ==
  [dir |-> Store, sep |-> Slash, hash |-> EncodeToString(p.digest, PathHashSize), dash |-> Dash,
   name |-> p.name]

----------------------------------------------------------------------------
(***************************************************************************)
(* Properties                                                              *)
(***************************************************************************)
(***************************************************************************)
(* What is parsed has a name, and String renders what it was parsed from   *)
(* but for the two characters around the hash, which are not looked at;    *)
(* and what PathRe matches is parsed (nixpath.go:18-26, 43-45, 54-68).     *)
(***************************************************************************)
MatchesPathRe(p) ==
  /\ p.dir = Store /\ p.sep = Slash /\ p.dash = Dash
  /\ \A k \in DOMAIN p.hash : p.hash[k] # NoDigit
  /\ p.name # << >> /\ p.name[1] # "." /\ \A k \in DOMAIN p.name : p.name[k] \in NameChar

ParsesPath ==
  /\ pc = "done" =>
       input.name # << >> /\ String(parsed) = [input EXCEPT !.sep = Slash, !.dash = Dash]
  /\ pc = "failed" => ~MatchesPathRe(input)
============================================================================
