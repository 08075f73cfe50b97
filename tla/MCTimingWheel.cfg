CONSTANTS
  SlotCount = 3
  Resolution = 2
  Keys = {k1, k2}
  MaxGeneration = 3
  Ttls <- SmallTtls
SPECIFICATION WheelSpec
PROPERTY ExactExpiry
