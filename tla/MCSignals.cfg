CONSTANTS
  NSIG = 3
  Deliveries = {d1, d2}
  QueueSize = 2
  Others = 2
  MayRaise = TRUE
  OnMain = {TRUE, FALSE}
  MayMiss = TRUE
  MaxDepth = 2
SPECIFICATION FairSpec
PROPERTIES
  OnlyExceptionsForget
  QueuedCheckHandles
