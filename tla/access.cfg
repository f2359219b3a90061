CONSTANTS
  i1 = i1
  i2 = i2
  None = None
  Invocations <- TwoInvocations
  Kinds <- AllKinds
  Margin = 1
  Lifetimes <- ShortAndLong
  MaxTime = 3
  MaxRevoked = 1
  MaxPages = 2
  MaxPanics = 1
SPECIFICATION FairSpec
CHECK_DEADLOCK FALSE
INVARIANTS
  OneRunPerExpiry
  OneRetry
  PanicLeavesNothing
PROPERTIES
  InvocationsEnd
