\* TTLs 64 and 125: no hop and 3 hops away.
CONSTANTS
  s1 = s1
  Key = {v4, v6, lan}
  Value = {0, 3, 8}
  NoValue = NoValue
  Shard = {s1}
  ShardOf <- MCShardOf
  Capacity = 2
  Links = {"ethernet", "null", "raw"}
  V6 = {v6}
  Local = {lan}
  TTLs = {64, 125}
  DefaultTTL = 8
SPECIFICATION Spec
INVARIANTS
  CacheKeepsWhatCounts
  FakeFallsShort
  
PROPERTIES
  ImplementsLRU
CHECK_DEADLOCK FALSE
