SPECIFICATION Spec
CONSTANTS
  b1 = b1
  b2 = b2
  r1 = r1
  r2 = r2
  p1 = p1
  p2 = p2
  t1 = t1
  Obj <- MCObj
  Tree <- MCTree
  Kids <- MCKids
  Proc <- MCProc
  Tag <- MCTag
  MaxId = 3
  TempName = TempName
  NoObj = NoObj
  NoRecord = NoRecord
  Exclusive = TRUE
SYMMETRY Symmetry
INVARIANTS Restorable ParentIsPredecessor
PROPERTIES IdsNeverReused GcExact ImplementsHistory
