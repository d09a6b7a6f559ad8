CONSTANTS
  NSIG = 3
  Deliveries = {d1, d2}
  QueueSize = 2
  Others = 0
  MayRaise = FALSE
  OnMain = {TRUE}
  MayMiss = FALSE
  MaxDepth = 2
SPECIFICATION FairSpec
PROPERTIES
  SignalIsHandled
