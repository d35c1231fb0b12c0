SPECIFICATION Spec
CONSTANTS
  b1 = b1
  b2 = b2
  r1 = r1
  r2 = r2
  Obj <- MCOneObj
  Tree <- MCTree
  Kids <- MCOneKids
  MaxPack = 1
  NoObj = NoObj
  MaxReused = 1
PROPERTY PackDeletesNothing
