CONSTANTS
  Threads = {t1, t2, t3}
  Modules = {a, b, c}
  NoOne = NoOne
  Programs <- MCChain
  MayFail = {}
SPECIFICATION Spec
INVARIANTS
  DeadlockIsCircular
CHECK_DEADLOCK FALSE
