SPECIFICATION FairSpec
CONSTANTS
  N = 3
  Tier <- TwoPrimaries
  FailureThreshold = 2
  SuccessThreshold = 2
  HealthyInterval = 2
  UnhealthyInterval = 1
  InactiveTierInterval = 4
  MaxCalls = 2
INVARIANTS TypeOK ActiveProbedInTime OutageProbedTightly
PROPERTIES HealthSpec ProbedWhileStable
