CONSTANTS
  Kinds <- AllKinds
  BadKinds <- Bad
  FrameLength <- Lengths
  HeaderSize = 2
  MaxFrameSize = 3
  ReadChunk = 2
  OutputLimit = 3
  AnswerSizes = {1, 2}
  ErrorSize = 2
  SendRoom = 2
  MaxFrames = 3
SPECIFICATION FairSpec
INVARIANTS InputAlwaysFits OutputBounded AnswersInOrder NothingLost
PROPERTIES HalfCloseEnds EveryRequestAnswered
CHECK_DEADLOCK FALSE
