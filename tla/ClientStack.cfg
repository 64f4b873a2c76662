SPECIFICATION Spec
CONSTANTS
  N = 3
  WithMetrics = TRUE
  Callers = {c1, c2}
  MaxCalls = 8
  CounterRange = 7
CHECK_DEADLOCK FALSE
INVARIANTS TypeOK NothingLeaks RoundRobinBalanced CallsAccounted
