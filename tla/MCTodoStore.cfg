CONSTANTS
  id = id
  open = open
  done = done
  Id = {id}
  Grpc = grpc
  Direct = direct
  NoId = NoId
  Null = Null
  Value <- MCValue
  NewValue <- MCNewValue
  InitialFile <- MCInitialFile
  Mixtures <- MCMixtures
  MaxChanges = 2

SPECIFICATION Spec

INVARIANTS IndexMatchesList ChangesAreScheduled
PROPERTIES ImplementsTodoList EveryChangeIsSaved
