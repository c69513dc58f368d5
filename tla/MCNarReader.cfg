\* After a Close, the parser of a damaged archive may be left at a send that
\* nobody receives.
SPECIFICATION FairSpec
CONSTANTS
  Name <- MCName
  NameOrder <- MCNameOrder
  Archives <- MCArchives
  MaxSize <- MCMaxSize
INVARIANTS
  TypeOK
  ReadsAreExclusive
  NextIsDefinite
  HeadersInOrder
  ContentInPlace
PROPERTIES
  IteratesArchive
  NextReturns
  OpaqueParserExits
CHECK_DEADLOCK FALSE
