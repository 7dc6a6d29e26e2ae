SPECIFICATION Spec
CONSTANTS
  Workers = {r1}
  Ctxs = {c1}
  AppChains <- Two
  RouteChains <- One
  Errors <- MCErrors
  ErrorHandlers = {"default", "panics", "reenters", "custom"}
  CustomStatus = 503
  Builds = {"release", "debug"}
  Nobody = Nobody
INVARIANTS
  SettledOnce PanicIs500 RecordedIsSent ContextScoped
  StreamIffUnanswered CtxPrivate
