\* One slot, three requests that want it and one that does not.  Handlers may hang.
SPECIFICATION FairSpec
CONSTANTS
  s1 = s1
  s2 = s2
  s3 = s3
  h = h
  Requests <- MCRequests
  StoreRequests <- MCThree
  Limit = 1
INVARIANTS
  TypeOK
  WithinBudget
  NoIdleSlot
  GaugeExact
PROPERTIES
  TakesTurns
  WaitingEnds
  OthersAnswered
