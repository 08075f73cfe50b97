CONSTANTS
  Clients = {c1}
  Numerals <- Numbers
  Files <- AllFiles
  Signals = {"SIGINT", "SIGTERM"}
  Ipv4 <- Addresses
  NoFile = NoFile
  Missing = Missing
  Invocations <- Calls
  Oversized = {"huge"}
  MaxTtl = 65535
  RequestLength = 2
  ResponseLength = 2
SPECIFICATION FairSpec
INVARIANTS ParsesAsDeclared EndsGracefully FinalMetrics ExitTruthful
PROPERTIES SignalEndsProcess ClientsEnd
CHECK_DEADLOCK FALSE
