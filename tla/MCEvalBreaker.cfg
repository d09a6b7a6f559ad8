CONSTANTS
  Main = main
  Threads = {main, t1}
  NoThread = NoThread
  Targets = {main, t1}
  Calls = {1, 2, 3}
  NoCall = NoCall
  NPENDINGCALLS = 3
SPECIFICATION FairSpec
INVARIANTS
  RingIsFifo
  QueuedIsFlagged
  OneCallAtATime
  AsyncExcIsNoticed
PROPERTIES
  DropRequestHonoured
  AnnouncedCallIsMade
