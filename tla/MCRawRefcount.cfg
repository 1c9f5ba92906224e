CONSTANTS
  t1 = t1
  t2 = t2
  Threads <- MCThreads
  Slots = {s1, s2}
  Tmp = Tmp
  Raws = {r1}
  Lens = {1}
  Ranges = {g1}
  Shards = {0, 1}
  ShardOf <- MCShardOf
  IntBits = 2
  SizeBits = 4
  Null = Null
SPECIFICATION Spec
INVARIANTS
  TypeOK
  NrefExact
  Balanced
PROPERTIES
  CrcHitCorrect
  RefinesOwnership
