CONSTANTS
  a = a
  b = b
  w1 = w1
  w2 = w2
  None = None
  Items = {a, b}
  Priority <- MCPriority
  MaxDepth = 1
  Procs = {w1, w2}
  Inodes = {n1, n2, n3}
  Callable <- Locked
  MaxCalls = 4
  Hazards = {"crash", "timeout"}
SPECIFICATION Spec
INVARIANTS
  TypeOK
  AlwaysReadable
PROPERTIES
  ImplementsQueue
CHECK_DEADLOCK FALSE
