CONSTANTS
  Threads = {t1, t2}
  Kids <- MCKids
  MaxKey = 2
  TTL = 2
  MaxClock = 4
SPECIFICATION Spec
PROPERTY KeysAreRecent
