CONSTANTS
  k1 = k1
  k2 = k2
  k3 = k3
  None = None
  Keys <- MCKeys
  LogCapacity = 1
  TrimBlock = 1
  MaxVersion = 2
  PageSize = 1
  Queries <- MCQueries
SPECIFICATION FairSpec
CHECK_DEADLOCK FALSE
INVARIANTS
  CompletedIsWhole
  RecordsAreOfOneSnapshot
  LInv
PROPERTIES
  WalkEnds
