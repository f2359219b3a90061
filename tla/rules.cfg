CONSTANTS
  Clusters <- MCClusters
  Worlds <- MCWorlds
  Years <- MCYears
  Watches <- MCWatches
  Bodies <- MCBodies
  Errors <- MCErrors
  Contexts <- MCContexts
  Spaces <- MCSpaces
  Answering <- MCAnswering
  Clients <- MCClients
  Stating <- MCStating
  Catalogues <- MCCatalogues
  Selectors <- MCSelectors
SPECIFICATION Spec
CHECK_DEADLOCK FALSE
INVARIANTS
  EndsAgree
  TimesAreTrue
  ScreenIsHonest
  NamesAreProven
  FramesAreWhole
  ErrorsAreTold
  PlacesAreReal
  DiagnosisIsHonest
  EvidenceIsTrue
