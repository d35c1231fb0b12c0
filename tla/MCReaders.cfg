SPECIFICATION ReadersSpec
CONSTANTS
  b1 = b1
  r1 = r1
  r2 = r2
  Obj <- MCObj
  Tree <- MCTree
  Kids <- MCKids
  MaxPack = 1
  NoObj = NoObj
  MaxReused = 0
  MaxBegun = 2
INVARIANTS ReaderTypeOK AlarmsExplained  VerifyComplete WalkComplete 
