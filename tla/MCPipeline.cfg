CONSTANTS
  N = 4
  ExitCodes = {1, 3, 5}
SPECIFICATION Spec
INVARIANTS
  RollbackOrder
  NothingLeftBehind
  ExitCodeTellsTheTruth
PROPERTIES
  EveryCommandExits
  ImplementsSaga
CHECK_DEADLOCK FALSE
