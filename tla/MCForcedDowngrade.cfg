CONSTANTS
  Versions = {1, 2}
  Legacy = {1}
  Claims <- MCClaims
  MaxRuns = 2
SPECIFICATION Spec
PROPERTIES
  DowngradeIsForced
CHECK_DEADLOCK FALSE
