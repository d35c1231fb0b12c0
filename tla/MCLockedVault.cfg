SPECIFICATION LVSpec
CONSTANTS
  b1 = b1
  r1 = r1
  p1 = p1
  p2 = p2
  i1 = i1
  i2 = i2
  t1 = t1
  Obj <- MCObj
  Tree <- MCTree
  Kids <- MCKids
  Proc <- TwoProcs
  Pid <- MCPid
  PidOf <- PidOfTwo
  Tag <- MCTag
  MaxId = 3
  TempName = TempName
  NoObj = NoObj
  NoRecord = NoRecord
  NoFile = NoFile
  NoPid = NoPid
  Exclusive = FALSE
CHECK_DEADLOCK FALSE
INVARIANT SerialUnlessStolen
INVARIANT SafeUnlessStolen
