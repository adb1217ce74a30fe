CONSTANTS
  plain = plain
  sharded = sharded
  c1 = c1
  c2 = c2
  None = None
  Agents = {plain, sharded}
  Shardable = {sharded}
  Cached = {plain, sharded}
  Shards = 2
  Threshold = 3
  Contents = {c1, c2}
  MaxCalls = 3
  Hazards = {"fail", "hang", "pool", "restart"}
SPECIFICATION FairSpec
INVARIANTS
  TypeOK
  
  
PROPERTIES
  CallsEnd
CHECK_DEADLOCK FALSE
