SPECIFICATION FairSpec
CONSTANTS
  Keys = {k1, k2, k3}
  Copies = {1, 2, 3}
  NoElement = NoElement
  Callers = {c1}
  MaxSize = 2
  EnableLRU = TRUE
  EnableStats = TRUE
  MaxStrays = 1
INVARIANTS Consistent CapacityBound LeastRecentLast
PROPERTIES ExpiredIsRemoved
CHECK_DEADLOCK FALSE
