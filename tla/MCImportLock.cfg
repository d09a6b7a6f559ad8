CONSTANTS
  Threads = {t1, t2, t3}
  Modules = {a, b}
  NoOne = NoOne
  Programs <- MCPrograms
  MayFail <- MCMayFail
SPECIFICATION FairSpec
INVARIANTS
  OneLoader
  PartialOnlyToLoaders
PROPERTIES
  ImportsEndOrCaught
CHECK_DEADLOCK FALSE
