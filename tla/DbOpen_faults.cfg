SPECIFICATION FairSpec
CONSTANTS
  p1 = p1
  p2 = p2
  Proc = {p1, p2}
  MaxFiles = 3
  MaxDamage = 1
  MaxFaults = 1
INVARIANTS
  BodyHasSchema
  DamageIsCaught
  LoneFinderKeepsHealthy
  LoneOpeningSucceeds
PROPERTIES
  DamageIsRepaired
