CONSTANTS
  MaxRuns = 2
SPECIFICATION ImportSpec
INVARIANTS
  ExistingProjectSurvives
  CommittedImportStays
  FailedSyncIsUndone
CHECK_DEADLOCK FALSE
