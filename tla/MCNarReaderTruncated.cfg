SPECIFICATION Spec
CONSTANTS
  Name <- MCName
  NameOrder <- MCNameOrder
  Archives <- MCTruncatedArchives
  MaxSize <- MCMaxSize
INVARIANT EOFMeansComplete
