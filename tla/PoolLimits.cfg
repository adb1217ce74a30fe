CONSTANTS
  t1 = t1
  t2 = t2
  t3 = t3
  None = None
  Tasks = {t1, t2, t3}
  MaxBrowsers = 2
  MaxPages = 2
  MaxUses = 6
  MaxSeconds = 0
  Hazards = {"launch", "die", "health"}
SPECIFICATION Spec
SYMMETRY TaskSymmetry
INVARIANTS
  PoolWithinLimits
CHECK_DEADLOCK FALSE
