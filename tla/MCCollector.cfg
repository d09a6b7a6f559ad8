CONSTANTS
  Objects = {a, b, c, w, v}
  a = a
  b = b
  c = c
  w = w
  v = v
  None = None
  Heaps <- SoundHeaps
  MaxSteps = 2
  MayWatch = FALSE
SPECIFICATION Spec
INVARIANTS
  FoundIsUnreachable
  ClearedIsInvisible
  TrashIsFreed
CHECK_DEADLOCK FALSE
