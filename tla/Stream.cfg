CONSTANTS
  Helpers = {g1}
  Heartbeat = TRUE
  BufSize = 2
  Fn = Fn
  Beat = Beat
  Nobody = Nobody
SPECIFICATION FairSpec
INVARIANTS EventsWhole
PROPERTIES NoUseAfterPool CancelledStreamEnds DepartureNoticed
