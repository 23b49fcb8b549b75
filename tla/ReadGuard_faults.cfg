\* Two calls that run at once on two files that start as copies.
SPECIFICATION Spec
CONSTANTS
  Caller = {c1, c2}
  File = {f1, f2}
  Lines = 2
  Window <- MCWindow
  Page = 2
  FullAt = 2
  MaxRanges = 2
  MaxSeen = 2
  OtherHint = {h1}
  MaxReads = 2
  MaxWrites = 1
  MaxFaults = 1
INVARIANTS TypeOK CapsHold DenyIsTrue DenialsAreRemembered EditsAreNoted
CONSTRAINT UntilHazard
SYMMETRY Symmetry
CHECK_DEADLOCK FALSE
