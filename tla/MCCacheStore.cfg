CONSTANTS
  a = a
  b = b
  c = c
  empty = empty
  long = long
  small = small
  big = big
  wide = wide
  huge = huge
  NoOp = NoOp
  Forever = Forever
  NoValue = NoValue
  Keys <- ValidKeys
  KeySize <- SizeOfKey
  Values <- ValidValues
  ValueSize <- SizeOfValue
  MaxKeyLength = 2
  MaxValueLength = 3
  Capacity = 3
  CounterModulus = 1
  SlotCount = 2
  Resolution = 2
  MaxGeneration = 3
  Ttls = {1, 3}
SPECIFICATION FairSpec
PROPERTIES ImplementsStore CallsTerminate
