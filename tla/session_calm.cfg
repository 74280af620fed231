SPECIFICATION FairSpec
CONSTANTS
  Sessions = {s1, s2}
  Media = {"video"}
  Rtsp = rtsp
  Http = {}
  NoSession = NoSession
  NoThread = NoThread
  Wrap = 8
  AppMayExit = FALSE
  MayTerminate = FALSE
  MayFail = FALSE
  MayShutdown = FALSE
INVARIANTS
  NeverWedged
PROPERTIES
  SilentIsDiscarded
