SPECIFICATION Spec
CONSTANTS
  h1 = h1
  h2 = h2
  w1 = w1
  w2 = w2
  a = a
  b = b
  i1 = i1
  i2 = i2
  i3 = i3
  Hook = {h1, h2}
  Worker = {w1}
  Proj = {a, b}
  Oversized = {}
  Inode = {i1, i2, i3}
  Resident = FALSE
  Cap = 1
  MaxEdits = 2
  MaxFaults = 2
SYMMETRY Symmetry
INVARIANTS
  NoSilentLoss
  QueueBounded
