CONSTANTS
  f1 = f1
  f2 = f2
  NumWorkers = 1
  Fds <- TwoFds
  NoFd = NoFd
  MaxBacklog = 1
SPECIFICATION FairSpec
PROPERTIES ShutdownCompletes HandoverCompletes
CHECK_DEADLOCK FALSE
