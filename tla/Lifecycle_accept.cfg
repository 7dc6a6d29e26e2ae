CONSTANTS
  Serves = {s1, s2}
  Callers = {k1}
  Conns = {c1}
  NHooks = 1
  DrainDelay = FALSE
  ServeErrors = TRUE
  CloseErrors = FALSE
  NoLn = NoLn
  Free = Free
CHECK_DEADLOCK FALSE
SPECIFICATION Spec
INVARIANTS StopsAccepting
