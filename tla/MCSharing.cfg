CONSTANTS
  Actors = {a1, a2}
  Subdomains = {"own", "other"}
  Label = "own"
  Commands = 3
CHECK_DEADLOCK FALSE
SYMMETRY Terminals
SPECIFICATION Spec
INVARIANTS
  OpenIsOnRecord
  StopEndsSharing
  FailedShareOpensNothing
