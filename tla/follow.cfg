CONSTANTS
  Symbols <- MCSymbols
  Bodies <- MCBodies
  Framings <- MCFramings
  MaxPull = 3
  IdleWindows = 2
  Limit = 2
  Asked <- MCAsked
SPECIFICATION FairSpec
CHECK_DEADLOCK FALSE
INVARIANTS
  LinesAreTheLog
PROPERTIES
  CancelEnds
