CONSTANTS
  ByteBase = 5
  magic = 27
  version = 1
  MaxKeyLength = 2
  MaxValueLength = 3
  LastStatus = 3
  Frames <- AnyFrame
  MaxFrames = 2
SPECIFICATION Spec
INVARIANTS RejectedAtHeader DecodesTheStream NothingHeldBack
CHECK_DEADLOCK FALSE
