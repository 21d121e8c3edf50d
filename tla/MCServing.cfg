CONSTANTS
  alice = alice
  bob = bob
  theme = theme
  hotfix = hotfix
  Nothing = Nothing
  Actors = {alice, bob}
  Initializers = {theme}
  Ports <- MCPorts
  Configs <- MCConfigs
SYMMETRY MCSymmetry
SPECIFICATION Spec
\* Once its commands are given a project may stay as it is.
CHECK_DEADLOCK FALSE
INVARIANTS
  FileHoldsTogether
  ReadyMeansServed
  ReindexIsNotLost
  PatchesAreIn
PROPERTIES
  InitializerSurvives
