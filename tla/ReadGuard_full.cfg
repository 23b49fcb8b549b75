\* The session has one other hint, and hints_seen room for one fingerprint.
SPECIFICATION Spec
CONSTANTS
  Caller = {c1, c2}
  File = {f1, f2}
  Lines = 2
  Window <- MCWindow
  Page = 2
  FullAt = 2
  MaxRanges = 2
  MaxSeen = 1
  OtherHint = {h1}
  MaxReads = 2
  MaxWrites = 1
  MaxFaults = 1
INVARIANTS SecondRequestPasses
CHECK_DEADLOCK FALSE
