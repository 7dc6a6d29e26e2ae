SPECIFICATION Spec
CONSTANTS
  Main = main
  Others = {k1}
  Requests = {r1, r2}
  MaxInt = 7
  Delays = {0, 2, 5}
  Graces = {0, 3, 6}
  Timeouts = {0, 1, 3}
  Checks <- TwoChecks
  DefaultTimeout = 2
  Horizon = 9
  Never = Never
INVARIANTS DelayThenGrace ProbesSeeDrain
