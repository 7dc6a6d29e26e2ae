CONSTANTS
  Serves = {s1, s2}
  Callers = {k1}
  Conns = {c1}
  NHooks = 1
  DrainDelay = TRUE
  ServeErrors = TRUE
  CloseErrors = TRUE
  NoLn = NoLn
  Free = Free
  MainServe = s2
  MainCaller = k1
CHECK_DEADLOCK FALSE
SPECIFICATION RCFairSpec
PROPERTIES CtxStopsRunContext ServeReturns
