SPECIFICATION Spec
CONSTANTS
  Req = {r1, r2, r3}
  Nobody = Nobody
  FaultKinds = {"close"}
  MaxFault = 2
INVARIANTS
  NoDoubleExecution
CHECK_DEADLOCK FALSE
