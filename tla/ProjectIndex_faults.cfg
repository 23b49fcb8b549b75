SPECIFICATION FairSpec
CONSTANTS
  f1 = f1
  r1 = r1
  w1 = w1
  NoFile = NoFile
  File = {f1}
  Run = {r1}
  Watcher = {w1}
  Events = {"sameTick"}
  MaxEdits = 2
  MaxFaults = 1
PROPERTIES
  IndexConverges
  LockIsOwned
INVARIANTS
  GlobalIsCurrent
  OneWriter
  RowsAreTrue
