\* Two changes anywhere, at any moment; the destination may fail at every write.
SPECIFICATION DumpFairSpec
CONSTANTS
  Name <- MCName
  NameOrder <- MCNameOrder
  Offers <- MCOffers
  DotDotNames <- MCDotDot
  MaxHeaders = 6
  Node <- MCNode
  Trees <- MCTrees
  Filters <- MCFilters
  Elsewhere <- MCElsewhere
  MaxChanges = 2
INVARIANTS
  DumpsTree
  NilMeansWhole
PROPERTIES
  DumpEnds
