SPECIFICATION Spec
CONSTANTS
  Sessions = {s1}
  Images = {i1}
  PoolSize = 1
  MaxDisplays = 2
  AsyncTeardown = FALSE
  None = None
INVARIANT OneDisplay
CHECK_DEADLOCK FALSE
