CONSTANTS
  t1 = t1
  t2 = t2
  t3 = t3
  None = None
  Tasks = {t1, t2, t3}
  MaxBrowsers = 2
  MaxPages = 2
  MaxUses = 4
  MaxSeconds = 1
  Hazards = {"launch", "cleanup", "shutdown", "record"}
SPECIFICATION FairSpec
INVARIANTS
  TypeOK
PROPERTIES
  EveryoneServed
CHECK_DEADLOCK FALSE
