SPECIFICATION FairSpec
CONSTANTS
  t1 = t1
  t2 = t2
  cl = cl
  s1 = s1
  None = None
  Client = cl
  Socks = {cl, s1}
  Main = t1
  Threads = {t1, t2}
  Selectors = {t1}
  Calls <- WakeCalls
  Setups <- AllOpen
  Does = {"share", "close"}
  MaxRefs = 0
CHECK_DEADLOCK FALSE
PROPERTIES
  TimedReturns
  BytesReturn
