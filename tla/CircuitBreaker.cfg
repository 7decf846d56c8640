SPECIFICATION BreakerFairSpec
CONSTANTS
  Callers = {c1, c2, c3}
  FailureThreshold = 2
  SuccessThreshold = 2
  OpenTimeout = 2
INVARIANTS
  FailureBurstBounded
PROPERTIES
  NoAdmissionWhileOpen
  RecoversOnceUp
