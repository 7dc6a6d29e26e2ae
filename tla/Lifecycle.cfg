CONSTANTS
  Serves = {s1, s2}
  Callers = {k1, k2}
  Conns = {c1}
  NHooks = 2
  DrainDelay = TRUE
  ServeErrors = TRUE
  CloseErrors = TRUE
  NoLn = NoLn
  Free = Free
SYMMETRY Symmetry
SPECIFICATION Spec
CHECK_DEADLOCK FALSE
INVARIANTS
  NothingServedAfterShutdown HooksAfterDrain HooksRunOnceInReverse
  ReturnAfterHooks ReadyIffServing ResultTellsOutcome
PROPERTIES CancelledBeforeCutOff KeepsContract
