CONSTANTS
  a1 = a1
  a2 = a2
  c1 = c1
  c2 = c2
  Fix = Fix
  None = None
  Agents = {a1, a2}
  Clients = {c1}
  BatchSize = 1
  Workers = 2
  MaxTasks = 2
  Hazards = {"cancel", "early", "timeout", "hang", "leave"}
SPECIFICATION FairSpec
INVARIANTS
  TypeOK
  OneScanAtATime
  CompleteIsWhole
  CancelledIsLast
PROPERTIES
  ScanEnds
CHECK_DEADLOCK FALSE
