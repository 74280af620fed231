SPECIFICATION FairSpec
CONSTANTS
  Sessions = {s1, s2}
  Images = {i1}
  PoolSize = 1
  MaxDisplays = 2
  AsyncTeardown = TRUE
  None = None
INVARIANTS
  TypeOK
  ImageExclusive
  NobodyForgotten
PROPERTY
  EndsUnlessStuck
CHECK_DEADLOCK FALSE
