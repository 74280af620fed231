SPECIFICATION Spec
CONSTANTS
  Sessions = {s1, s2}
  Media = {"video"}
  Rtsp = rtsp
  Http = {h}
  NoSession = NoSession
  NoThread = NoThread
  Wrap = 8
  AppMayExit = TRUE
  MayTerminate = TRUE
  MayFail = FALSE
  MayShutdown = FALSE
SYMMETRY Symmetry
INVARIANTS
  TypeOK
  NoDangling
  JoinedByOne
  BroadcastReferenced
  EndedWasTold
  RunningExact
PROPERTIES
  KeepsPromise
CHECK_DEADLOCK FALSE
