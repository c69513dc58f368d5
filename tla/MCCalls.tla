------------------------------ MODULE MCCalls ------------------------------
(***************************************************************************)
(* Three calls that nothing else interferes with, each on inputs of its    *)
(* own: the comparison of two paths, the reads of a packet, and a narinfo  *)
(* that is parsed, checked, rendered and parsed again.  A behaviour makes  *)
(* one of them, and the variables of the others rest.                      *)
(***************************************************************************)
EXTENDS NarInfo, PathOrder, Wire

(***************************************************************************)
(* Every clean path of up to five bytes, with one byte below '/', as '-'   *)
(* is, and two above, as letters are.  Clean paths, as path.Join makes     *)
(* them, are "/" alone, or components that are not empty, each behind a    *)
(* '/'.                                                                    *)
(***************************************************************************)
MCByte   == 1..4
MCSlash  == 2
MaxBytes == 5

Clean(p) ==
  /\ p # << >> /\ p[1] = MCSlash
  /\ Len(p) > 1 => p[Len(p)] # MCSlash
  /\ \A k \in 1..(Len(p) - 1) : ~(p[k] = MCSlash /\ p[k + 1] = MCSlash)

MCPaths == {p \in UNION {[1..n -> {1, 2, 3}] : n \in 1..MaxBytes} : Clean(p)}
             \cup {<<2, 4>>, <<2, 3, 2, 4>>, <<2, 3, 4>>}

(***************************************************************************)
(* Bytes below 4 and blocks of two, so that lengths are below 16 and those *)
(* from 8 on are no positive int64: packets of n bytes whose padding is    *)
(* made of pad, each with a packet behind it.                              *)
(***************************************************************************)
Stream(n, pad) ==
  LengthBytes(n) \o [k \in 1..n |-> k % 3] \o [k \in 1..Padding(n) |-> pad] \o LengthBytes(0)

MCSources ==
  UNION {{[bytes |-> SubSeq(Stream(n, pad), 1, k), end |-> end] :
            k \in 0..Len(Stream(n, pad)), end \in {"eof", "err"}} :
          n \in {0, 1, 2, 3, 4, 5, 7, 8, 9, 15}, pad \in {0, 1}}

(***************************************************************************)
(* Narinfo files of up to three lines of any kind, from nothing or behind  *)
(* the lines a narinfo of an uncompressed archive begins with.             *)
(***************************************************************************)
d32 == [content |-> "d", bytes |-> 32]
d30 == [content |-> "f", bytes |-> 30]
d31 == [content |-> "e", bytes |-> 31]

Text(a, sep, d, e) == [algo |-> a, sep |-> sep, body |-> Body(d, e)]

MCHashTexts ==
  {Text("sha256", ":", d32, "NixBase32"), Text("sha256", "-", d32, "Base64"),
   Text("sha256", ":", d31, "Base64"),       \* the length of 32 bytes, but 31 of them
   [Text("sha256", ":", d30, "Base64") EXCEPT !.body.len = 44],   \* with four returns inside
   Text("sha256", "-", d32, "Base16"),       \* refused: a dash is for base64
   Text("crc", ":", d32, "Base16"), Text("", ":", d32, "Base16")}

\* Texts that end with returns, one of which each scan of a line takes.
MCWords == {"", "\r", "\r\r", "none", "none\r", "none\r\r", FullPath, BaseName}
MCChomp ==
  [w \in Texts |-> CASE w = "none\r\r" -> "none\r" [] w = "none\r" -> "none"
                     [] w = "\r\r" -> "\r" [] w = "\r" -> "" [] OTHER -> w]
MCRefLists ==
  {<< >>, <<BaseName>>, <<BaseName, "none">>, <<"\r\r">>, <<BaseName, "none\r\r">>}
MCSigTexts == {[name |-> "key", bytes |-> n] : n \in {0, 63, 64, 66}}
MCSizes == {NotANumber, 0, 1}

MCBegins ==
  <<<< >>,
    <<Line("StorePath", FullPath), Line("Deriver", BaseName), Line("Compression", "none")>>>>

----------------------------------------------------------------------------
\* The variables of a call that is not made.
Root == <<MCSlash>>
NothingSent == [bytes |-> << >>, end |-> "eof"]

PathRests == path1 = Root /\ path2 = Root /\ i = 1 /\ result = "pending"
WireRests ==
  /\ source = NothingSent /\ pos = 0 /\ call = "string" /\ pc = "length"
  /\ buf = << >> /\ length = 0 /\ limit = 0 /\ value = << >> /\ err = "none"
InfoRests ==
  /\ pass = 1 /\ text = << >> /\ lines = 0 /\ info = Empty /\ first = Empty
  /\ status = "parsing" /\ verdict = "none"

VARIABLE made  \* the call that is made

callsVars == <<vars, wireVars, infoVars, made>>

CallsInit ==
  \/ made = "path" /\ Init /\ WireRests /\ InfoRests
  \/ made = "wire" /\ WireInit /\ PathRests /\ InfoRests
  \/ made = "info" /\ InfoInit /\ PathRests /\ WireRests

PathCall == made = "path" /\ Next /\ UNCHANGED <<wireVars, infoVars, made>>
WireCall == made = "wire" /\ WireNext /\ UNCHANGED <<vars, infoVars, made>>
InfoCall == made = "info" /\ InfoNext /\ UNCHANGED <<vars, wireVars, made>>

CallsNext == PathCall \/ WireCall \/ InfoCall

CallsSpec == CallsInit /\ [][CallsNext]_callsVars

----------------------------------------------------------------------------
(***************************************************************************)
(* The order of paths by components: names are compared byte by byte, and  *)
(* paths name by name.                                                     *)
(***************************************************************************)
ByteOrder == {<<a, b>> \in Byte \X Byte : a < b}
NameBytes == INSTANCE NarPath WITH Name <- Byte, NameOrder <- ByteOrder

Component  == {p \in UNION {[1..n -> Byte \ {Slash}] : n \in 1..(MaxBytes - 1)} :
                 \A k \in DOMAIN p : p[k] # Slash}
NameBefore == {<<m, n>> \in Component \X Component : m # n /\ NameBytes!Ordered(m, n)}
Components == INSTANCE NarPath WITH Name <- Component, NameOrder <- NameBefore

Split(p) ==
  IF p = <<Slash>> THEN << >>
  ELSE FoldLeft(LAMBDA parts, b : IF b = Slash THEN Append(parts, << >>)
                                  ELSE [parts EXCEPT ![Len(parts)] = Append(@, b)],
                << >>, p)

(***************************************************************************)
(* The byte loop orders paths by component, the view that NarReader takes  *)
(* of them: an entry and all below it come before the next entry, whatever *)
(* bytes their names hold (util.go:11, 26-31).                             *)
(***************************************************************************)
OrdersByComponent ==
  result # "pending" =>
    (result = "true" <=> Components!Ordered(Split(path1), Split(path2)))
============================================================================
