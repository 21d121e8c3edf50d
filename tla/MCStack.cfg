CONSTANTS
  p1 = p1
  p2 = p2
  Projects <- MCProjects
  Found = {p1}
  a1 = a1
  a2 = a2
  Actors <- MCActors
  Nobody = Nobody
  Older = p1
  Younger = p2
  Repairs = 1
  Commands = 2
  Uses <- MCUses
  Labelled = {p1}
SYMMETRY MCSymmetry
CHECK_DEADLOCK FALSE
SPECIFICATION Spec
INVARIANTS
  NoOrphanStack
PROPERTIES
  SharedServicesSpareTheRunning
  DeletionIsConfined
  QuietUpdateIsExact
