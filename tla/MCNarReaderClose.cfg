\* After a Close, the parser is left at a send that nobody receives.
SPECIFICATION FairSpec
CONSTANTS
  Name <- MCName
  NameOrder <- MCNameOrder
  Archives <- MCSpelledArchives
  MaxSize <- MCMaxSize
PROPERTY ParserExits
CHECK_DEADLOCK FALSE
