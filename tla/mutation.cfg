CONSTANTS
  c1 = c1
  None = None
  Callers <- OneCaller
  Intents <- ChangeIntents
  StartKinds <- Workload
  Ours <- NoFields
  Forces <- Either
  Autoscaled <- OnlyTrue
  Finalized <- OnlyFalse
  Theirs <- TheImage
  MaxVersion = 4
SPECIFICATION FairSpec
CONSTRAINT Unsettled
CHECK_DEADLOCK FALSE
INVARIANTS
  WhatHappensWasForetold
  VerdictsAreTrue
PROPERTIES
  VerificationEnds
