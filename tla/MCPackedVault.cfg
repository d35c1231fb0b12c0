SPECIFICATION Spec
CONSTANTS
  b1 = b1
  b2 = b2
  r1 = r1
  r2 = r2
  Obj <- MCObj
  Tree <- MCTree
  Kids <- MCKids
  MaxPack = 2
  NoObj = NoObj
  MaxReused = 1
SYMMETRY Symmetry
INVARIANTS SnapshotsReadable PacksSelfContained RecoverCheckTells
PROPERTIES OnlyGcForgets 
