SPECIFICATION FairSpec
CONSTANTS
  p1 = p1
  p2 = p2
  p3 = p3
  f1 = f1
  f2 = f2
  Proc = {p1, p2}
  File = {f1}
  MaxEdits = 1
  MaxOps = 1
  MaxFails = 1
  MaxCrashes = 1
  MaxStalls = 0
  MaxResets = 1
INVARIANTS
  MutualExclusion
  BusyLockKeepsCache
PROPERTIES
  SaveReturns
  LockIsOwned
