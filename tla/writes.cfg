CONSTANTS
  k1 = k1
  k2 = k2
  r1 = r1
  r2 = r2
  None = None
  Keys <- MCKeys
  LogCapacity = 2
  TrimBlock = 1
  IndexCapacity = 1
  MaxVersion = 3
  MaxBreaks = 1
  Readers <- OneReader
  Invocations = 2
  OwnWritten <- OneKey
SPECIFICATION Spec
CHECK_DEADLOCK FALSE
INVARIANTS
  IndexIsTheCache
  AnswersAreOfTheCheckpoint
