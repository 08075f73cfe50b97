CONSTANTS
  a = a
  b = b
  c = c
  Keys <- TwoKeys
  ShardOf <- OneEach
  NumShards = 2
  Capacity = 3
  Charges = {1}
  Ttls = {1}
  SlotCount = 60
  Calls = {"size"}
  MaxElapsed = 2
  MaxCount = 0
  Idle = Idle
SPECIFICATION Spec
INVARIANTS EveryIntervalTicked
