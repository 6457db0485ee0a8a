SPECIFICATION Spec
CONSTANTS
  t1 = t1
  t2 = t2
  cl = cl
  s1 = s1
  None = None
  Client = cl
  Socks = {cl}
  Main = t1
  Threads = {t1, t2}
  Selectors = {t1}
  Calls <- ModeCalls
  Setups <- AllOpen
  Does = {"fin", "write", "share", "kill", "abort"}
  MaxRefs = 3
CHECK_DEADLOCK FALSE
INVARIANTS
  TypeOK
  HandlersLive
  TimersLive
  BlockedOpsStayRegistered
PROPERTIES
  ReleasesOwnRefs
