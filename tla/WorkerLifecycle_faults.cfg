SPECIFICATION Spec
CONSTANTS
  d1 = d1
  d2 = d2
  d3 = d3
  n1 = n1
  n2 = n2
  Daemon = {d1, d2, d3}
  Nudger = {n1, n2}
  Events = {"login", "stall", "duplicate"}
  MaxKills = 2
  MaxReuses = 2
SYMMETRY Symmetry
CONSTRAINT UntilSlotLost
INVARIANTS
  OneInSlot
  PidIsOwner
  StartersSpared
PROPERTIES
  SlotIsLock
