CONSTANTS
  a = a
  b = b
  c = c
  empty = empty
  long = long
  small = small
  big = big
  wide = wide
  huge = huge
  NoOp = NoOp
  Forever = Forever
  NoValue = NoValue
  Keys <- AllKeys
  KeySize <- SizeOfKey
  Values <- AllValues
  ValueSize <- SizeOfValue
  MaxKeyLength = 2
  MaxValueLength = 3
  Capacity = 3
  CounterModulus = 2
  SlotCount = 1
  Resolution = 2
  MaxGeneration = 3
  Ttls = {1, 3}
SYMMETRY KeySymmetry
SPECIFICATION Spec
INVARIANTS CacheTypeOK RecencyMatchesEntries UsageIsCharged VictimExists CallConsistent
PROPERTIES LossesAreCounted
