SPECIFICATION SpecH
CONSTANTS
  N = 3
  Tier <- FallbackFirst
  Callers = {c1, c2, c3}
  Closers = {}
  FailureThreshold = 1
  SuccessThreshold = 1
  Disabled = TRUE
SYMMETRY CallerSymmetry
PROPERTY NeverSkipsSteadyNode
