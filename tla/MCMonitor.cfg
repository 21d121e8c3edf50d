CONSTANTS
  jar = jar
  zip = zip
  Targets <- MCTargets
  Jars = {jar}
  Zips = {zip}
  Containers = {zip}
  Remote = TRUE
  NoArtifact = NoArtifact
  TargetOf <- MCTargetOf
  StartPolling = FALSE
  MaxChanges = 2
  MaxBuilds = 2
  MaxTimers = 2
  MayFail = TRUE
SPECIFICATION MonitorSpec
INVARIANTS
  SyncedUnlessOverlapped
PROPERTIES
  EventsAreHandled
CHECK_DEADLOCK FALSE
