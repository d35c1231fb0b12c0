SPECIFICATION Spec
CONSTANTS
  BlockSize = 3
  Mod = 2
  BaseLengths = {0, 4, 6}
  TargetLengths = {2, 6}
  FirstSize = 2
  Firsts = 3
  Hash <- MCHash
  Blob <- MCHash
  Path <- MCPath
  Absent = Absent
  NoBase = NoBase
  MaxSnapshots = 5
  MaxName = 2
  Input <- MCInput
CHECK_DEADLOCK FALSE
INVARIANTS ScanExact NoBlockMissed ReadsBack TreesReadBack Acyclic
