CONSTANTS
  Threads = {t1, t2, t3}
  Main = t1
  Nobody = Nobody
  Limits = {0, 1, 2}
  MaxCalls = 2
SPECIFICATION FairSpec
INVARIANTS
  NoWaiterStranded
  NoJoinerStranded
PROPERTIES
  WaitsAreJustified
CHECK_DEADLOCK FALSE
