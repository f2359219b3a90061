CONSTANTS
  k1 = k1
  k2 = k2
  None = None
  Keys <- MCKeys
  LogCapacity = 1
  TrimBlock = 1
  MaxVersion = 4
  MaxBreaks = 1
SYMMETRY KeySymmetry
SPECIFICATION Spec
INVARIANTS
  CacheIsCollectionAtCheckpoint
  IInv
  LossesAreReported
  PeriodsAndGapsAgree
  TimelineIsTheLifetime
PROPERTIES
  ImplementsObserved
