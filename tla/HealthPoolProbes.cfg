SPECIFICATION Spec
CONSTANTS
  N = 2
  Tier <- TwoTiers
  Callers = {c1}
  Closers = {}
  FailureThreshold = 2
  SuccessThreshold = 2
  Disabled = FALSE
INVARIANTS TypeOK ThresholdInv Converged NoLostWakeup
PROPERTIES ElectionSpec HealthSpec
