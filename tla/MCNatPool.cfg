CONSTANTS
  s1 = s1
  Key = {k1, k2}
  Value = {c1, c2}
  NoValue = NoValue
  Shard = {s1}
  ShardOf <- MCShardOf
  Capacity = 1
  Assoc = {a1, a2}
SYMMETRY Symmetry
SPECIFICATION Spec
INVARIANTS
  NoSocketLeak
  PooledHaveReader
CHECK_DEADLOCK FALSE
