SPECIFICATION Spec
CONSTANTS
  ExecCallers = {e1, e2}
  CheckCallers = {k1, k2}
  FailureThreshold = 3
  RateThreshold = 50
  MinRequests = 3
  MaxRolling = 4
  MaxProbes = 2
INVARIANTS
  TypeOK
  ClosedBelowThreshold
  RecoveryAssured
PROPERTIES
  Recovers
