SPECIFICATION Spec
CONSTANTS
  t1 = t1
  t2 = t2
  cl = cl
  s1 = s1
  None = None
  Client = cl
  Socks = {cl, s1}
  Main = t1
  Threads = {t1, t2}
  Selectors = {t1}
  Calls <- CoreCalls
  Setups <- AnyState
  Does = {"fin", "close", "ioctl"}
  MaxRefs = 1
CHECK_DEADLOCK FALSE
INVARIANTS
  SlotWaits
  HandlersLive
  TimersLive
  EventsLive
  NobodyStranded
  NoLostWakeup
  OpsKeepHandlers
  DiesOnlyOnWaitingBytes
PROPERTIES
  ImplementsAPI
  TimeoutSwallowsNothing
