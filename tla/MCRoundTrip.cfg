\* Six headers at most, and a destination that may fail at every write.
\* The archive may be left unfinished, or refused.
SPECIFICATION RTFairSpec
CONSTANTS
  Name <- MCName
  NameOrder <- MCNameOrder
  Offers <- MCOffers
  DotDotNames <- MCDotDot
  MaxHeaders = 6
  MaxSize <- MCMaxSize
INVARIANTS
  TypeOK
  WritesAreExclusive
  SuccessMeansSound
  ReadsBack
PROPERTIES
  CallsReturn
  EmitterStops
