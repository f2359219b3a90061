CONSTANTS
  v1 = v1
  v2 = v2
  c1 = c1
  c2 = c2
  key = key
  uid = uid
  None = None
  Versions <- OneVersion
  Clusters <- TwoClusters
  Signals <- OneSignal
  Obtainable <- Sometimes
  Aggregates <- LegacyOnly
  Validity = 1
  MaxTime = 2
  MaxChanges = 2
SPECIFICATION Spec
CHECK_DEADLOCK FALSE
INVARIANTS
  ReplacedIsForgotten
