CONSTANTS
  a1 = a1
  a2 = a2
  c1 = c1
  c2 = c2
  Fix = Fix
  None = None
  Agents = {a1, a2}
  Clients = {c1}
  BatchSize = 2
  Workers = 2
  MaxTasks = 1
  Hazards = {"hang"}
SPECIFICATION FairSpec
PROPERTIES
  HungAgentNeverBlocks
CHECK_DEADLOCK FALSE
