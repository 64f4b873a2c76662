SPECIFICATION FairSpec
CONSTANTS
  N = 2
  Tier <- TwoTiers
  Callers = {}
  Closers = {k1, k2}
  FailureThreshold = 1
  SuccessThreshold = 2
  Disabled = FALSE
CHECK_DEADLOCK FALSE
INVARIANT ClosedAfterLoops
PROPERTIES CloseReturns FlipPublished Recovery
