CONSTANTS
  Versions = {1, 2}
  Legacy = {1}
  Claims <- MCClaims
  MaxRuns = 2
SPECIFICATION Spec
INVARIANTS
  EstablishedProjectSurvives
PROPERTIES
  ReleaseIsAsked
  BootIsPrepared
CHECK_DEADLOCK FALSE
