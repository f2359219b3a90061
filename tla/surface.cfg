CONSTANTS
  v1 = v1
  v2 = v2
  c1 = c1
  c2 = c2
  key = key
  uid = uid
  None = None
  Versions <- TwoVersions
  Clusters <- TwoClusters
  Signals <- OneSignal
  Obtainable <- Always
  Aggregates <- EitherForm
  Validity = 2
  MaxTime = 2
  MaxChanges = 1
SPECIFICATION Spec
SYMMETRY NameSymmetry
CHECK_DEADLOCK FALSE
INVARIANTS
  AnswersAreRecent
  SchemasAreOfTheListing
  ListsAreOfTheRoot
  ReplacedIsForgotten
