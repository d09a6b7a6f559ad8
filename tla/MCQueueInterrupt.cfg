CONSTANTS
  Threads = {t1, t2, t3}
  Main = t1
  Nobody = Nobody
  Limits = {1}
  MaxCalls = 1
SPECIFICATION InterruptSpec
INVARIANTS
  MutexHeld
CHECK_DEADLOCK FALSE
