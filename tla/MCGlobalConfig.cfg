CONSTANTS
  Proc = {p1, p2}
  Inode = {l1, l2}
  File = {f1, f2, f3}
  NoFile = NoFile
  Platforms = {"posix", "nt"}
  Kinds = {"FileLock", "ProjectLock"}
  Retries = 1
  Modes = {"EX", "SH"}
  local = local
  east = east
  west = west
  tag = tag
  engine = engine
  token = token
  Node = {local, east, west}
  Local = local
  Key = {tag, engine, token}
  Convention = {tag, engine}
  Torn = Torn
  Found <- MCFound
  Commands = 2
SPECIFICATION MCSpec
SYMMETRY Files
INVARIANTS
  ExcludesOnWindows
  SettingsAreSound
PROPERTY
  QuietSaveKeepsTheRest
CHECK_DEADLOCK FALSE
