\* Some 15,000 store paths and every string of up to five characters.
\* A parse ends.
SPECIFICATION Spec
CONSTANTS
  PathHashSize = 5
  NameChar <- MCNameChar
  Inputs <- MCInputs
  Strings <- MCStrings
INVARIANTS
  DecodesBits
  PanicsOnOddLengths
  ParsesPath
CHECK_DEADLOCK FALSE
