SPECIFICATION Spec
CONSTANTS
  t1 = t1
  t2 = t2
  cl = cl
  s1 = s1
  None = None
  Client = cl
  Socks = {cl, s1}
  Main = t1
  Threads = {t1}
  Selectors = {t1}
  Calls <- RefuseCalls
  Setups <- AllOpen
  Does = {}
  MaxRefs = 1
CHECK_DEADLOCK FALSE
INVARIANTS
  SelectedAreActive
