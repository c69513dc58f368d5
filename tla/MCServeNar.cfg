\* Two requests, and an upstream that may fail, or end early, at every point.
SPECIFICATION Spec
CONSTANTS
  Name <- MCName
  NameOrder <- MCNameOrder
  NoTarget <- MCNoTarget
  Hash <- MCHash
  WellFormed <- MCWellFormed
  Store <- MCStore
  HashOf <- MCHashOf
  Mount <- MCMount
  Urls <- MCUrls
  Listings <- MCListings
  Faults <- AllFaults
  MaxRequests = 2
INVARIANTS
  TypeOK
  AnswersTree
  FailureShows
  NotModifiedIsFile
  StopsInTime
