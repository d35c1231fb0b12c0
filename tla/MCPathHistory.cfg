SPECIFICATION Spec
CONSTANTS
  a = a
  b = b
  c = c
  x = x
  y = y
  p1 = p1
  Path <- MCPath
  Blob <- MCBlob
  Content <- MCContent
  Proc <- MCProc
  MaxId = 3
  Absent = Absent
  NoSnap = NoSnap
SYMMETRY Symmetry
INVARIANTS IndexSound LinksSound RebuildExact SameLineage
