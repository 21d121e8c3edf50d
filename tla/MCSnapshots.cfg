CONSTANTS
  Docs = {d1}
  Database = Database
  Names = {n1, n2}
  Attempts = 2
SYMMETRY Symmetry
SPECIFICATION Spec
INVARIANTS
  SnapshotHoldsItsDocuments
  RestoreGivesTheSnapshot
  BrokenSnapshotIsNotRestored
  SharedRowsSurviveFailure
