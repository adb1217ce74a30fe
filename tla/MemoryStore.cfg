CONSTANTS
  a1 = a1
  a2 = a2
  b1 = b1
  scan = scan
  cli = cli
  k1 = k1
  k2 = k2
  None = None
  Torn = Torn
  Wiped = Wiped
  Missing = Missing
  Keys = {k1, k2}
  HistoryMax = 2
  Threads = {a1, a2, b1}
  ProcessOf <- MCProcessOf
  Calls <- MCCalls
  Files = {"scans", "history", "issues", "brain", "tokens", "rejections"}
  Lists = {"issues", "tokens"}
  MaxCalls = 3
  Hazards = {"crash"}
SPECIFICATION FairSpec
INVARIANTS
  TypeOK
  AlwaysReadable
  SavesAppend
PROPERTIES
  
  CallsReturn
CHECK_DEADLOCK FALSE
