\* A page from a listing, and the walk that finds nothing there.
SPECIFICATION Spec
CONSTANTS
  Name <- MCName
  NameOrder <- MCNameOrder
  NoTarget <- MCNoTarget
  Hash <- MCHash
  WellFormed <- MCWellFormed
  Store <- MCStore
  HashOf <- MCHashOf
  Mount <- MCMount
  Urls <- MCUrls
  Listings <- MCListings
  Faults <- AllFaults
  MaxRequests = 1
INVARIANT PagesMatch
