CONSTANTS
  s1 = s1
  Key = {k1, k2}
  Value = {c1, c2, c3}
  NoValue = NoValue
  Shard = {s1}
  ShardOf <- MCShardOf
  Capacity = 1
  Assoc = {a1}
SPECIFICATION Spec
PROPERTIES
  EvictsOnlyItsOwn
CHECK_DEADLOCK FALSE
