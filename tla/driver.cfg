CONSTANTS
  k1 = k1
  k2 = k2
  r1 = r1
  r2 = r2
  None = None
  Keys <- MCKeys
  LogCapacity = 1
  TrimBlock = 1
  IndexCapacity = 1
  MaxVersion = 3
  MaxBreaks = 1
  Readers <- OneReader
  Invocations = 1
  OwnWritten <- NoKeys
SPECIFICATION FairSpec
CHECK_DEADLOCK FALSE
INVARIANTS
  RecordsAreTheCollection
PROPERTIES
  StreamedListIsWhole
  KeepsTheContract
  ReaderCatchesUp
