SPECIFICATION FairSpec
CONSTANTS
  Sessions = {s1}
  Media = {"video"}
  Rtsp = rtsp
  Http = {h}
  NoSession = NoSession
  NoThread = NoThread
  Wrap = 8
  AppMayExit = TRUE
  MayTerminate = TRUE
  MayFail = TRUE
  MayShutdown = TRUE
PROPERTIES
  SessionsEnd
CHECK_DEADLOCK FALSE
