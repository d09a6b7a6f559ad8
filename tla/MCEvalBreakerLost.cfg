CONSTANTS
  Main = main
  Threads = {main, t1}
  NoThread = NoThread
  Targets = {}
  Calls = {1}
  NoCall = NoCall
  NPENDINGCALLS = 2
SPECIFICATION FairSpec
PROPERTIES
  QueuedCallIsMade
