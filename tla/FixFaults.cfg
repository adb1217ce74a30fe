CONSTANTS
  f1 = f1
  f2 = f2
  p1 = p1
  p2 = p2
  p3 = p3
  orig = orig
  Absent = Absent
  NoSnap = NoSnap
  NoPatch = NoPatch
  Files = {f1, f2}
  TestFiles = {f1}
  Patches = {p1, p3}
  Content <- MCContent
  Original <- MCOriginal
  Change <- MCChange
  SnapIds = {s1, s2, s3}
  MaxClock = 3
  MaxAttempts = 3
  Hazards = {"write", "restore", "ledger", "crash", "win32", "byId", "verify"}
SPECIFICATION FairSpec
INVARIANTS
  TypeOK
  SnapshotAhead
  ReportIsTrue
  AppliedHasSnapshot
PROPERTIES
  CommandsEnd
CHECK_DEADLOCK FALSE
