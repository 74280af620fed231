SPECIFICATION FairSpec
CONSTANTS
  Launches = {A, B, C}
  Conns = {c1, c2}
  NoLaunch = NoLaunch
INVARIANTS
  TypeOK
  PendingIsTimed
  EstablishedIsNotPending
  ClearsItsOwn
PROPERTIES
  NeverOverwritten
  PendingEnds
CHECK_DEADLOCK FALSE
