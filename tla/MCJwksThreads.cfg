CONSTANTS
  Threads = {t1, t2}
  Kids <- MCKids
  MaxKey = 3
  TTL = 2
  MaxClock = 5
SPECIFICATION Spec
SYMMETRY MCSymmetry
INVARIANT TypeOK
PROPERTY RefusalsAreCurrent
PROPERTY SerialKeysAreRecent
PROPERTY RotationIsPickedUp
