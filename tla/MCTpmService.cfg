CONSTANTS
  NUM_LOCALITIES = 2
  Commands = {c1}
  NoCommand = NoCommand
  TpmKinds <- KindsAll
  PollLimit = 1
  MaxGiveUps = 0
  LocalityArgs <- ArgsAll
  SourceIds <- SourcesAll
  MaxBits = 2
SPECIFICATION Spec
INVARIANTS
  TypeOK
  ShownStateAgrees
  ResponseOnlyWhileComplete
  TpmAgrees
  NoWriteLeftBehind
PROPERTIES
  ResponseIsForCommand
  ClosedLocalityFrozen
  ImplementsMachine
