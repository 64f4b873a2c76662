SPECIFICATION FairSpec
CONSTANTS
  N = 2
  Tier <- TwoTiers
  FailureThreshold = 2
  SuccessThreshold = 2
  HealthyInterval = 6
  UnhealthyInterval = 1
  InactiveTierInterval = 60
  MaxCalls = 1
PROPERTY ProbedPeriodically
