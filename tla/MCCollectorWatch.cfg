CONSTANTS
  Objects = {a, b, c, w, v}
  a = a
  b = b
  c = c
  w = w
  v = v
  None = None
  Heaps <- WatchHeaps
  MaxSteps = 2
  MayWatch = TRUE
SPECIFICATION Spec
INVARIANTS
  ClearedIsInvisible
CHECK_DEADLOCK FALSE
