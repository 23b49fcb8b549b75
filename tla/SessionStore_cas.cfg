SPECIFICATION Spec
CONSTANTS
  p1 = p1
  p2 = p2
  p3 = p3
  f1 = f1
  f2 = f2
  Proc = {p1, p2}
  File = {f1, f2}
  MaxEdits = 2
  MaxOps = 2
  MaxFails = 1
  MaxCrashes = 1
  MaxStalls = 1
  MaxResets = 1
SYMMETRY Symmetry
CONSTRAINT NoHazardYet
INVARIANTS
  NoLostEdit
PROPERTIES
  VersionsAdvance
  AtomicSaves
