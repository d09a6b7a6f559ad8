CONSTANTS
  Threads = {t1, t2}
  Modules = {a, b}
  NoOne = NoOne
  Programs <- MCPrograms
  MayFail = {}
SPECIFICATION FairSpec
PROPERTIES
  ImportsEnd
CHECK_DEADLOCK FALSE
