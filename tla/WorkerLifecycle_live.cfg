SPECIFICATION FairSpec
CONSTANTS
  d1 = d1
  d2 = d2
  d3 = d3
  n1 = n1
  n2 = n2
  Daemon = {d1, d2}
  Nudger = {n1}
  Events = {}
  MaxKills = 2
  MaxReuses = 1
PROPERTIES
  WorkerReturns
