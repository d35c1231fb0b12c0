SPECIFICATION Spec
CONSTANTS
  b1 = b1
  r1 = r1
  r2 = r2
  Obj <- MCObj
  Tree <- MCTree
  Kids <- MCKids
  MaxId = 2
  MaxFault = 1
  NextId = NextId
  Absent = Absent
  Torn = Torn
  Whole = Whole
  Rotten = Rotten
SYMMETRY Symmetry
INVARIANTS ObjectsNeverTorn SettledSurvives
PROPERTIES PublishedComplete DamageStopsGc
