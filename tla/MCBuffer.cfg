CONSTANTS
  Chunks <- ShortStrings
  InitialCapacity = 2
  MaxSize = 12
  MaxReadable = 5
SPECIFICATION Spec
INVARIANTS MemoryBounded
PROPERTIES ImplementsQueue
