------------------------ MODULE CircuitBreakerProofs ------------------------
(* Safety of CircuitBreaker for every set of clients, every threshold and  *)
(* every bound.                                                            *)
EXTENDS CircuitBreaker, TLAPS

\* The inductive invariant: the four invariants that TLC checks.
IInv == TypeOK /\ ClosedBelowThreshold /\ OpenHasRecovery /\ SlotHasOwner

\* What cleanRollingWindow leaves is a sequence of flags.
LEMMA KeptType ==
  ASSUME rolling \in Seq(BOOLEAN), NEW r \in cleanRollingWindow, NEW b \in BOOLEAN
  PROVE  Append(r, b) \in Seq(BOOLEAN)
<1>1. PICK k \in 1..(Len(rolling) + 1) : r = SubSeq(rolling, k, Len(rolling))
  BY DEF cleanRollingWindow
<1>2. r \in Seq(BOOLEAN)
  BY <1>1
<1> QED
  BY <1>2

\* The values a record may leave behind, success or failure.
LEMMA RecordType ==
  ASSUME TypeOK, recordSuccess \/ recordFailure
  PROVE  /\ state' \in {"CLOSED", "OPEN", "HALF_OPEN"}
         /\ consecutiveFailures' \in 0..FailureThreshold
         /\ elapsed' \in BOOLEAN /\ timer' \in BOOLEAN
         /\ rolling' \in Seq(BOOLEAN)
<1> USE BreakerAssumption DEF TypeOK
<1>1. CASE recordSuccess
  <2>1. PICK r \in cleanRollingWindow : rolling' = Append(r, TRUE)
    BY <1>1 DEF recordSuccess
  <2>2. rolling' \in Seq(BOOLEAN)
    BY <2>1, KeptType
  <2>3. consecutiveFailures' \in 0..FailureThreshold
    BY <1>1 DEF recordSuccess
  <2>4. CASE state = "HALF_OPEN"
    BY <1>1, <2>2, <2>3, <2>4, Zenon DEF recordSuccess, transitionToClosed
  <2>5. CASE state # "HALF_OPEN"
    BY <1>1, <2>2, <2>3, <2>5, Zenon DEF recordSuccess
  <2> QED
    BY <2>4, <2>5
<1>2. CASE recordFailure
  <2>1. PICK r \in cleanRollingWindow :
          /\ rolling' = Append(r, FALSE)
          /\ \/ Trips(rolling') /\ transitionToOpen
             \/ ~ Trips(rolling') /\ UNCHANGED <<state, elapsed, timer>>
    BY <1>2, Zenon DEF recordFailure
  <2>2. rolling' \in Seq(BOOLEAN)
    BY <2>1, KeptType
  <2>3. consecutiveFailures' \in 0..FailureThreshold
    BY <1>2 DEF recordFailure, FailuresAfter
  <2>4. CASE transitionToOpen
    BY <2>2, <2>3, <2>4, Zenon DEF transitionToOpen
  <2>5. CASE UNCHANGED <<state, elapsed, timer>>
    BY <2>2, <2>3, <2>5, Zenon
  <2> QED
    BY <2>1, <2>4, <2>5
<1> QED
  BY <1>1, <1>2

\* A record keeps the count below the threshold in CLOSED and arms the probe
\* when it opens the circuit; it never enters HALF_OPEN.
LEMMA RecordEffect ==
  ASSUME IInv, recordSuccess \/ recordFailure
  PROVE  /\ state' = "CLOSED" => consecutiveFailures' < FailureThreshold
         /\ state' = "OPEN" => timer'
         /\ state' = "OPEN" /\ state = "OPEN" => ~ halfOpenInFlight
<1> USE BreakerAssumption DEF IInv, TypeOK, ClosedBelowThreshold, OpenHasRecovery
<1>1. CASE recordSuccess
  BY <1>1 DEF recordSuccess, transitionToClosed
<1>2. CASE recordFailure
  <2>1. PICK r \in cleanRollingWindow :
          \/ Trips(rolling') /\ transitionToOpen
          \/ ~ Trips(rolling') /\ UNCHANGED <<state, elapsed, timer>>
    BY <1>2, Zenon DEF recordFailure
  <2>2. CASE transitionToOpen
    BY <2>2 DEF transitionToOpen
  <2>3. CASE ~ Trips(rolling') /\ UNCHANGED <<state, elapsed, timer>>
    <3>1. state' = "CLOSED" => ~ (FailuresAfter >= FailureThreshold)
      BY <2>3, Zenon DEF Trips
    <3>2. state' = "CLOSED" => consecutiveFailures' < FailureThreshold
      BY <1>2, <3>1 DEF recordFailure, FailuresAfter
    <3> QED
      BY <2>3, <3>2
  <2> QED
    BY <2>1, <2>2, <2>3
<1> QED
  BY <1>1, <1>2

\* The invariant holds before the first call ...
LEMMA InitInv == Init => IInv
<1> SUFFICES ASSUME Init PROVE IInv
  OBVIOUS
<1> USE BreakerAssumption DEF Init
<1>1. consecutiveFailures \in 0..FailureThreshold /\ probes \in 0..MaxProbes
  OBVIOUS
<1>2. rolling \in Seq(BOOLEAN) /\ call \in [Callers -> {"idle", "running", "probing"}]
  OBVIOUS
<1>3. ClosedBelowThreshold /\ OpenHasRecovery /\ SlotHasOwner
  BY DEF ClosedBelowThreshold, OpenHasRecovery, SlotHasOwner
<1> QED
  BY <1>1, <1>2, <1>3, Zenon DEF IInv, TypeOK

\* ... every step of clients, timers and probes preserves it ...
LEMMA StepInv == IInv /\ [Next]_vars => IInv'
<1> SUFFICES ASSUME IInv, [Next]_vars PROVE IInv'
  OBVIOUS
<1> USE BreakerAssumption
<1>1. CASE reflectState
  BY <1>1 DEF IInv, TypeOK, ClosedBelowThreshold, OpenHasRecovery, SlotHasOwner,
              reflectState, getState
<1>2. CASE clientEvent
  <2>1. TypeOK'
    BY <1>2, RecordType DEF IInv, TypeOK, clientEvent, FlagAfterRecord
  <2>2. ClosedBelowThreshold' /\ OpenHasRecovery'
    BY <1>2, RecordEffect
    DEF clientEvent, FlagAfterRecord, ClosedBelowThreshold, OpenHasRecovery
  <2>3. SlotHasOwner'
    BY <1>2 DEF IInv, SlotHasOwner, clientEvent, FlagAfterRecord
  <2> QED
    BY <2>1, <2>2, <2>3 DEF IInv
<1>3. ASSUME NEW c \in Callers, executeClosed(c) PROVE IInv'
  BY <1>3 DEF IInv, TypeOK, ClosedBelowThreshold, OpenHasRecovery, SlotHasOwner,
              executeClosed, breaker
<1>4. ASSUME NEW c \in Callers, executeHalfOpen(c) PROVE IInv'
  <2>1. TypeOK' /\ ClosedBelowThreshold' /\ OpenHasRecovery'
    BY <1>4 DEF IInv, TypeOK, ClosedBelowThreshold, OpenHasRecovery,
                executeHalfOpen
  <2>2. call'[c] = "probing" /\ c \in ExecCallers
    BY <1>4 DEF IInv, TypeOK, executeHalfOpen
  <2> QED
    BY <2>1, <2>2 DEF IInv, SlotHasOwner
<1>5. ASSUME NEW c \in Callers, checkState(c) PROVE IInv'
  <2>1. TypeOK' /\ ClosedBelowThreshold' /\ OpenHasRecovery'
    BY <1>5 DEF IInv, TypeOK, ClosedBelowThreshold, OpenHasRecovery, checkState,
                getState
  <2>2. SlotHasOwner'
    BY <1>5 DEF IInv, TypeOK, SlotHasOwner, checkState
  <2> QED
    BY <2>1, <2>2 DEF IInv
<1>6. ASSUME NEW c \in Callers, callSettles(c) PROVE IInv'
  <2>1. TypeOK'
    BY <1>6, RecordType DEF IInv, TypeOK, callSettles, FlagAfterRecord
  <2>2. ClosedBelowThreshold' /\ OpenHasRecovery'
    BY <1>6, RecordEffect
    DEF callSettles, FlagAfterRecord, ClosedBelowThreshold, OpenHasRecovery
  <2>3. SlotHasOwner'
    BY <1>6 DEF IInv, TypeOK, Callers, SlotHasOwner, callSettles, FlagAfterRecord
  <2> QED
    BY <2>1, <2>2, <2>3 DEF IInv
<1>7. ASSUME NEW c \in Callers, probeRequestSettles(c) PROVE IInv'
  <2>1. TypeOK'
    BY <1>7, RecordType DEF IInv, TypeOK, probeRequestSettles
  <2>2. ClosedBelowThreshold' /\ OpenHasRecovery' /\ SlotHasOwner'
    BY <1>7, RecordEffect
    DEF probeRequestSettles, ClosedBelowThreshold, OpenHasRecovery, SlotHasOwner
  <2> QED
    BY <2>1, <2>2 DEF IInv
<1>8. ASSUME NEW c \in Callers, callUnrecorded(c) PROVE IInv'
  BY <1>8 DEF IInv, TypeOK, ClosedBelowThreshold, OpenHasRecovery, SlotHasOwner,
              callUnrecorded, breaker
<1>9. CASE cooldownElapses
  BY <1>9 DEF IInv, TypeOK, ClosedBelowThreshold, OpenHasRecovery, SlotHasOwner,
              cooldownElapses
<1>10. CASE probe
  <2>1. probes' \in 0..MaxProbes /\ probes' > 0
    BY <1>10 DEF IInv, TypeOK, probe
  <2>2. state' \in {"CLOSED", "HALF_OPEN"} /\ (state' = "CLOSED" => state = "CLOSED")
    BY <1>10 DEF IInv, TypeOK, probe
  <2>3. TypeOK'
    BY <1>10, <2>1, <2>2, Zenon DEF IInv, TypeOK, probe
  <2>4. ClosedBelowThreshold' /\ OpenHasRecovery' /\ SlotHasOwner'
    BY <1>10, <2>1, <2>2
    DEF IInv, ClosedBelowThreshold, OpenHasRecovery, SlotHasOwner, probe
  <2> QED
    BY <2>3, <2>4 DEF IInv
<1>11. CASE probeSettles
  <2>1. probes' \in 0..MaxProbes
    BY <1>11 DEF IInv, TypeOK, probeSettles
  <2>2. CASE transitionToClosed /\ consecutiveFailures' = 0
    <3>1. 0 \in 0..FailureThreshold /\ 0 < FailureThreshold
      OBVIOUS
    <3>2. TypeOK'
      BY <1>11, <2>1, <2>2, <3>1, Zenon
      DEF IInv, TypeOK, probeSettles, transitionToClosed
    <3> QED
      BY <1>11, <2>2, <3>1, <3>2
      DEF IInv, ClosedBelowThreshold, OpenHasRecovery, SlotHasOwner,
          probeSettles, transitionToClosed
  <2>3. CASE transitionToOpen /\ UNCHANGED consecutiveFailures
    <3>1. TypeOK'
      BY <1>11, <2>1, <2>3, Zenon DEF IInv, TypeOK, probeSettles, transitionToOpen
    <3> QED
      BY <1>11, <2>3, <3>1
      DEF IInv, ClosedBelowThreshold, OpenHasRecovery, SlotHasOwner,
          probeSettles, transitionToOpen
  <2> QED
    BY <1>11, <2>2, <2>3 DEF probeSettles
<1>12. CASE UNCHANGED vars
  BY <1>12 DEF IInv, TypeOK, ClosedBelowThreshold, OpenHasRecovery, SlotHasOwner,
               vars
<1> QED
  BY <1>1, <1>2, <1>3, <1>4, <1>5, <1>6, <1>7, <1>8, <1>9, <1>10, <1>11, <1>12
  DEF Next

\* ... and so every behaviour has it.
LEMMA Inductive == Spec => []IInv
  BY InitInv, StepInv, PTL DEF Spec

\* The breaker's fields keep their types on every path, late results and
\* concurrent probes included.
THEOREM TypeCorrect == Spec => []TypeOK
<1>1. IInv => TypeOK
  BY DEF IInv
<1> QED
  BY <1>1, Inductive, PTL

\* recordFailure cannot miss a trip: in CLOSED the count is below threshold.
THEOREM BelowThreshold == Spec => []ClosedBelowThreshold
<1>1. IInv => ClosedBelowThreshold
  BY DEF IInv
<1> QED
  BY <1>1, Inductive, PTL

\* An OPEN circuit always has its recovery probe scheduled, and the half-open
\* slot always has an owner whose end gives it back.
THEOREM Recovery == Spec => []RecoveryAssured
<1>1. IInv => RecoveryAssured
  BY DEF IInv, RecoveryAssured
<1> QED
  BY <1>1, Inductive, PTL
=============================================================================
