SPECIFICATION Spec
CONSTANTS
  Req = {r1, r2, r3}
  Nobody = Nobody
  FaultKinds = {"close", "expiry", "redis", "ambiguous", "crash"}
  MaxFault = 2
INVARIANTS
  TypeOK
  AtMostOnce
  OneHandler
  AnsweredIsCommitted
PROPERTIES
  KeyReleased
CHECK_DEADLOCK FALSE
