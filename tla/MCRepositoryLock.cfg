SPECIFICATION FairSpec
CONSTANTS
  p1 = p1
  p2 = p2
  p3 = p3
  i1 = i1
  i2 = i2
  i3 = i3
  Proc <- MCProc
  Pid <- MCPid
  PidOf <- DistinctPids
  NoFile = NoFile
  NoPid = NoPid
CHECK_DEADLOCK FALSE

INVARIANTS ExclusiveUnlessStolen DeadVerdictStands
PROPERTIES TheftNeedsStaleVerdict AcquireEnds StaleLockBroken
