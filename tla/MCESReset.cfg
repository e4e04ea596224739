CONSTANTS
  MaxPRDefault = 2
  MaxPRValues = {0, 3}
  EREntries = 2
  MaxResets = 5

SPECIFICATION Spec

INVARIANTS
  TypeOK
  ResetsCountedOnce
  ERLogKeepsNewest

PROPERTIES
  ResetLimitHonoured
