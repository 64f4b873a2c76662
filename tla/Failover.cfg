CONSTANTS
  N = 2
  Tier <- TwoTiers
  Protocol <- TwoProtocols
  Conditions = {"unreachable", "busy", "barred"}
  Callers = {c1}
  FailureThreshold = 2
  SuccessThreshold = 2
SPECIFICATION FairSpec
INVARIANT AnswerIsFaithful
PROPERTIES OnlyFaultsEvict HealthSpec SettlesOnSound
