CONSTANTS
  f1 = f1
  f2 = f2
  NumWorkers = 2
  Fds <- TwoFds
  NoFd = NoFd
  MaxBacklog = 1
SYMMETRY DescriptorSymmetry
SPECIFICATION Spec
INVARIANTS DescriptorsOwnedOnce AcceptorStopsFirst StoppedIsClean
CHECK_DEADLOCK FALSE
