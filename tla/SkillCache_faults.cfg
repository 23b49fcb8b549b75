SPECIFICATION Spec
CONSTANTS
  s1 = s1
  s2 = s2
  b1 = b1
  b2 = b2
  h1 = h1
  h2 = h2
  r1 = r1
  NoId = NoId
  NoSession = NoSession
  Session = {s1, s2}
  Body = {b1, b2}
  Big = {b2}
  First = b1
  Hook = {h1, h2}
  Reader = {r1}
  Before <- MCBefore
  MaxBytes = 2
  MaxStores = 2
  MaxEdits = 1
  MaxAges = 1
  MaxFaults = 1
INVARIANTS LoadIsWhole CapHolds StaleIsPurged
PROPERTIES EvictsOnlyOverCap
CONSTRAINTS TwoDisturbances NobodyMisled
SYMMETRY Symmetry
CHECK_DEADLOCK FALSE
