SPECIFICATION MCSpec
CONSTANTS
  Actors = {cli, web}
  Key <- MCKey
  Value <- MCValue
  Seed <- MCSeed
  LayerEdits <- MCLayerEdits
  Typed <- MCTyped
  FlagKey = "flag"
  DriverKey = "driver"
  DroppedKey = "extra"
  LoginKey = "password"
  Databases = {"postgresql", "hypersonic"}
  Mark = Mark
  Nothing = Nothing
  Commands = 2
SYMMETRY Symmetry
INVARIANTS
  BypassIsSound
  EditSurvives
  InspectorAgrees
  ImportanceIsAsked
CHECK_DEADLOCK FALSE
