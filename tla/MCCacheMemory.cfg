CONSTANTS
  k1 = k1
  k2 = k2
  k3 = k3
  h1 = h1
  h2 = h2
  h3 = h3
  SizeClasses <- TwoClasses
  SlabSize = 4
  Sizes = {1, 2, 3, 4, 5}
  HeapBlocks <- Heap
  MaxSlabs = 3
  CountModulus = 2
  Keys <- CachedKeys
  Null = Null
  NoCall = NoCall
SYMMETRY MemorySymmetry
SPECIFICATION MemorySpec
INVARIANTS OwnedOnce ExtentsDisjoint BlocksPartitioned MetricsExact
