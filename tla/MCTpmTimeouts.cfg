CONSTANTS
  NUM_LOCALITIES = 2
  Commands = {c1}
  NoCommand = NoCommand
  TpmKinds <- KindsCrbFifo
  PollLimit = 1
  MaxGiveUps = 1
  LocalityArgs <- ArgsAll
  SourceIds <- SourcesTfa
  MaxBits = 1
SPECIFICATION FairSpec
INVARIANTS
  ShownStateAgrees
  ResponseOnlyWhileComplete
PROPERTIES
  ImplementsMachine
  EveryCallReturns
