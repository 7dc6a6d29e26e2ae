CONSTANTS
  Keys = {k1, k2}
  Takers = {t1, t2}
  Limits <- MCLimits
  MaxInt = 19
  SweepEvery = 2
  Second = 2
  MaxClock = 4
  Idle = Idle
SPECIFICATION Spec
INVARIANTS SweepInvisible RateBound NeverWraps ExpiredKeysGo
PROPERTIES WaitIsExact
SYMMETRY Symmetry
