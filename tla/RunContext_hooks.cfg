CONSTANTS
  Serves = {s1}
  Callers = {k1, k2}
  Conns = {c1}
  NHooks = 1
  DrainDelay = TRUE
  ServeErrors = FALSE
  CloseErrors = FALSE
  NoLn = NoLn
  Free = Free
  MainServe = s1
  MainCaller = k1
CHECK_DEADLOCK FALSE
SPECIFICATION RCSpec
PROPERTIES NeverReturnsInHooks
