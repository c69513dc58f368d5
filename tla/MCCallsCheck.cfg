\* Equal sizes and both hashes of an uncompressed archive: Check does not answer.
SPECIFICATION CallsSpec
CONSTANTS
  Byte <- MCByte
  Slash <- MCSlash
  Paths <- MCPaths
  Radix = 4
  Block = 2
  Sources <- MCSources
  MaxLength = 5
  FullPath = "/nix/store/p"
  BaseName = "p"
  Begins <- MCBegins
  Words <- MCWords
  Chomp <- MCChomp
  Sizes <- MCSizes
  HashTexts <- MCHashTexts
  RefLists <- MCRefLists
  SigTexts <- MCSigTexts
  MaxLines = 3
  MaxRefs = 2
INVARIANT
  CheckAnswers
CHECK_DEADLOCK FALSE
