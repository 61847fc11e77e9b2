CONSTANTS
  s1 = s1
  Key = {k1}
  Value <- MCValue
  Proc = {r1, r2, r3}
  r1 = r1
  r2 = r2
  r3 = r3
  Shard = {s1}
  ShardOf <- MCShardOf
  TTL = {0, 1}
  MaxTime = 2
  None = None
  Records <- MCRecords
  Address <- MCAddress
  IP <- MCIP
  Source <- MCSource
  NoSource = NoSource
  RecordTTL <- MCRecordTTL
  Configs <- MCConfigs
SYMMETRY Symmetry
SPECIFICATION Spec
INVARIANTS
  NothingLostInTime
  CacheHoldsFoundRecords
  LookupsReleased
  OrderIsFixed
PROPERTIES
  LiveEntriesStay
CHECK_DEADLOCK FALSE
