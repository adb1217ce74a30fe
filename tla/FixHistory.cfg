CONSTANTS
  f1 = f1
  f2 = f2
  p1 = p1
  p2 = p2
  p3 = p3
  orig = orig
  Absent = Absent
  NoSnap = NoSnap
  NoPatch = NoPatch
  Files = {f1, f2}
  TestFiles = {}
  Patches = {p1, p2, p3}
  Content <- MCContent
  Original <- MCOriginal
  Change <- MCChange
  SnapIds = {s1, s2, s3, s4}
  MaxClock = 7
  MaxAttempts = 3
  Hazards = {"write", "win32"}
SPECIFICATION Spec
PROPERTIES
  ImplementsAtomicTree
INVARIANTS
  RollbackReachesTarget
  TreeIsReplay
SYMMETRY SnapSymmetry
CHECK_DEADLOCK FALSE
