CONSTANTS
  a = a
  b = b
  c = c
  Keys <- ThreeKeys
  ShardOf <- OneAndTwo
  NumShards = 2
  Capacity = 3
  Charges = {1, 2}
  Ttls = {0, 2}
  SlotCount = 60
  Calls = {"size", "empty", "memory_usage_bytes", "miss_count", "eviction_count", "expired_count"}
  MaxElapsed = 2
  MaxCount = 1
  Idle = Idle
SYMMETRY SameShard
SPECIFICATION Spec
INVARIANTS UsageWithinCapacity AggregatesBracketed ShardsInStep NoOverstay
PROPERTIES EarlyExpiryBounded
