SPECIFICATION Spec
CONSTANTS
  d = d
  f = f
  g = g
  x = x
  y = y
  Node <- MCNode
  Above <- MCAbove
  Blob <- MCBlob
  Listing = Listing
  Absent = Absent
  Dir = Dir
  Snapshot <- MCSnapshot
INVARIANTS RestoreExact NothingHalfDone AbortsClean
PROPERTY OnlySnapshotWritten
