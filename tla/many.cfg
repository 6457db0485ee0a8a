SPECIFICATION Spec
CONSTANTS
  t1 = t1
  t2 = t2
  cl = cl
  s1 = s1
  None = None
  Client = cl
  Socks = {cl, s1}
  Main = t1
  Threads = {t1, t2}
  Selectors = {t1, t2}
  Calls <- SharedCalls
  Setups <- AllOpen
  Does = {"kill", "abort"}
  MaxRefs = 3
CHECK_DEADLOCK FALSE
INVARIANTS
  SlotWaits
  OpsKeepHandlers
  NoDoubleUnref
