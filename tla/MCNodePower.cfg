CONSTANTS
  ci = ci
  laptop = laptop
  cloud = cloud
  rack = rack
  Node = {cloud, rack}
  NoNode = NoNode
  Instance = {cloud}
  Schedule <- MCSchedule
  Proc = {ci, laptop}
  Ephemeral = {ci}
  Torn = Torn
  First = 113
  Last = 116
  Ttl = {1, 2}
  MaxFaults = 1
SPECIFICATION Spec
INVARIANTS
  WokenNodeStaysUp
PROPERTY
  NodesGoDown
CHECK_DEADLOCK FALSE
