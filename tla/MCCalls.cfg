\* Every pair of paths, packets with sound and with dirty padding, cut off and
\* failing everywhere, and narinfo files of any three lines.  A call returns.
SPECIFICATION CallsSpec
CONSTANTS
  Byte <- MCByte
  Slash <- MCSlash
  Paths <- MCPaths
  Radix = 4
  Block = 2
  Sources <- MCSources
  MaxLength = 5
  FullPath = "/nix/store/p"
  BaseName = "p"
  Begins <- MCBegins
  Words <- MCWords
  Chomp <- MCChomp
  Sizes <- MCSizes
  HashTexts <- MCHashTexts
  RefLists <- MCRefLists
  SigTexts <- MCSigTexts
  MaxLines = 3
  MaxRefs = 2
INVARIANTS
  ComputesOrder
  OrdersByComponent
  ReadsPacket
  HonestOutcome
  RendersBack
CHECK_DEADLOCK FALSE
