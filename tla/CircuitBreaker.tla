--------------------------- MODULE CircuitBreaker ---------------------------
(***************************************************************************)
(* The per-dependency circuit breaker of                                   *)
(*   src/src/utils/circuit-breaker.utils.ts                                *)
(* and the three ways its clients use it: execute() (soroban.client.ts),   *)
(* checkState()/isOpen() followed by recordSuccess/recordFailure           *)
(* (prisma, horizon, soroban-rpc and redis utils), and records that belong *)
(* to no call (the redis client's 'ready' and 'error' events).  Each of    *)
(* the four breakers has some of these clients; the model allows them all. *)
(*                                                                         *)
(* Node runs one handler at a time: a step ends at an await.  Time is      *)
(* abstracted: `elapsed' says that the cooldown since openedAt is over.    *)
(* consecutiveFailures is counted up to the threshold, beyond which the    *)
(* code no longer tells values apart.                                      *)
(***************************************************************************)
EXTENDS Integers, Sequences, FiniteSets

CONSTANTS
  ExecCallers,        \* clients that go through execute()
  CheckCallers,       \* clients that call checkState() or isOpen()
  FailureThreshold,   \* failureThreshold
  RateThreshold,      \* failureRateThreshold, percent
  MinRequests,        \* minRequestsForRate
  MaxRolling,         \* bound: events kept of the rolling window
  MaxProbes           \* bound: recovery probes in flight together

Callers == ExecCallers \cup CheckCallers

ASSUME BreakerAssumption ==
  /\ FailureThreshold \in Nat \ {0}
  /\ RateThreshold \in Nat /\ MinRequests \in Nat
  /\ MaxRolling \in Nat \ {0} /\ MaxProbes \in Nat \ {0}
  /\ ExecCallers \cap CheckCallers = {}

VARIABLES
  state, consecutiveFailures, halfOpenInFlight,
  elapsed,   \* Date.now() - openedAt >= cooldownMs
  rolling,   \* rollingEvents: success flags, oldest first
  timer,     \* probeTimer is set and has not fired
  call,      \* each client: "idle", "running" or "probing" (execute in HALF_OPEN)
  probes     \* timer-driven probe() calls awaiting probeFn

breaker == <<state, consecutiveFailures, halfOpenInFlight, elapsed, rolling, timer>>
vars == <<state, consecutiveFailures, halfOpenInFlight, elapsed, rolling,
          timer, call, probes>>

TypeOK ==
  /\ state \in {"CLOSED", "OPEN", "HALF_OPEN"}
  /\ consecutiveFailures \in 0..FailureThreshold
  /\ halfOpenInFlight \in BOOLEAN
  /\ elapsed \in BOOLEAN
  /\ rolling \in Seq(BOOLEAN)
  /\ timer \in BOOLEAN
  /\ call \in [Callers -> {"idle", "running", "probing"}]
  /\ probes \in 0..MaxProbes

Init ==
  /\ state = "CLOSED" /\ consecutiveFailures = 0 /\ halfOpenInFlight = FALSE
  /\ elapsed = FALSE /\ rolling = << >> /\ timer = FALSE
  /\ call = [c \in Callers |-> "idle"] /\ probes = 0

-----------------------------------------------------------------------------
(* Transitions.  halfOpenInFlight is reset by all three; the callers below *)
(* say so themselves, because execute() and probe() write it again.        *)

transitionToOpen == state' = "OPEN" /\ elapsed' = FALSE /\ timer' = TRUE

transitionToClosed == state' = "CLOSED" /\ elapsed' = FALSE /\ timer' = FALSE

\* What getState() reflects: an OPEN circuit half-opens after its cooldown.
getState ==
  IF state = "OPEN" /\ elapsed /\ ~ halfOpenInFlight THEN "HALF_OPEN" ELSE state

\* What cleanRollingWindow may leave, depending on how old the events are.
cleanRollingWindow ==
  {r \in {SubSeq(rolling, k, Len(rolling)) : k \in 1..(Len(rolling) + 1)} :
     Len(r) < MaxRolling}

\* getFailureRate: the rounded percentage of failures.
getFailureRate(r) ==
  LET n == Len(r)
      f == Cardinality({i \in 1..n : ~ r[i]})
  IN IF n = 0 THEN 0 ELSE (200 * f + n) \div (2 * n)

\* recordSuccess, but for halfOpenInFlight.
recordSuccess ==
  /\ consecutiveFailures' = 0
  /\ \E r \in cleanRollingWindow : rolling' = Append(r, TRUE)
  /\ \/ state = "HALF_OPEN" /\ transitionToClosed
     \/ state # "HALF_OPEN" /\ UNCHANGED <<state, elapsed, timer>>

\* Mutant: a failure is counted twice.
DoubleCount ==
  IF consecutiveFailures < FailureThreshold
  THEN consecutiveFailures + 2 ELSE FailureThreshold

\* recordFailure, but for halfOpenInFlight.
FailuresAfter ==
  IF consecutiveFailures < FailureThreshold
  THEN consecutiveFailures + 1 ELSE FailureThreshold

\* Mutant: > for >=.
TripsLate(r) ==
  \/ state = "HALF_OPEN"
  \/ /\ state = "CLOSED"
     /\ \/ FailuresAfter > FailureThreshold
        \/ Len(r) >= MinRequests /\ getFailureRate(r) > RateThreshold

Trips(r) ==
  \/ state = "HALF_OPEN"
  \/ /\ state = "CLOSED"
     /\ \/ FailuresAfter >= FailureThreshold
        \/ Len(r) >= MinRequests /\ getFailureRate(r) > RateThreshold

recordFailure ==
  /\ consecutiveFailures' = FailuresAfter
  /\ \E r \in cleanRollingWindow :
       /\ rolling' = Append(r, FALSE)
       /\ \/ Trips(rolling') /\ transitionToOpen
          \/ ~ Trips(rolling') /\ UNCHANGED <<state, elapsed, timer>>

\* The flag after a record: reset by the transition it causes, if any.
FlagAfterRecord == halfOpenInFlight' = (halfOpenInFlight /\ state' = state)

-----------------------------------------------------------------------------
(* Clients *)

\* getState() called for its reflection only: the middleware, the metrics,
\* and every rejected call.
reflectState ==
  /\ getState # state
  /\ state' = getState /\ halfOpenInFlight' = FALSE
  /\ UNCHANGED <<consecutiveFailures, elapsed, rolling, timer, call, probes>>

\* execute() admitted in CLOSED, up to its await.
executeClosed(c) ==
  /\ c \in ExecCallers /\ call[c] = "idle" /\ getState = "CLOSED"
  /\ call' = [call EXCEPT ![c] = "running"]
  /\ UNCHANGED <<breaker, probes>>

\* execute() admitted in HALF_OPEN as the probe request, up to its await.
executeHalfOpen(c) ==
  /\ c \in ExecCallers /\ call[c] = "idle" /\ getState = "HALF_OPEN"
  /\ ~ halfOpenInFlight
  /\ state' = "HALF_OPEN" /\ halfOpenInFlight' = TRUE
  /\ call' = [call EXCEPT ![c] = "probing"]
  /\ UNCHANGED <<consecutiveFailures, elapsed, rolling, timer, probes>>

\* checkState() or isOpen() lets a call through, unless OPEN.
checkState(c) ==
  /\ c \in CheckCallers /\ call[c] = "idle" /\ getState # "OPEN"
  /\ state' = getState
  /\ halfOpenInFlight' = (halfOpenInFlight /\ getState = state)
  /\ call' = [call EXCEPT ![c] = "running"]
  /\ UNCHANGED <<consecutiveFailures, elapsed, rolling, timer, probes>>

\* The awaited action settles and its verdict is recorded.
callSettles(c) ==
  /\ call[c] = "running"
  /\ recordSuccess \/ recordFailure
  /\ FlagAfterRecord
  /\ call' = [call EXCEPT ![c] = "idle"]
  /\ UNCHANGED probes

\* execute() in HALF_OPEN settles: record, then `finally' resets the flag.
probeRequestSettles(c) ==
  /\ call[c] = "probing"
  /\ recordSuccess \/ recordFailure
  /\ halfOpenInFlight' = FALSE
  /\ call' = [call EXCEPT ![c] = "idle"]
  /\ UNCHANGED probes

\* getLedgerEntries returns on a JSON-RPC error without a record.
callUnrecorded(c) ==
  /\ c \in CheckCallers /\ call[c] = "running"
  /\ call' = [call EXCEPT ![c] = "idle"]
  /\ UNCHANGED <<breaker, probes>>

\* The redis client's 'ready' and 'error' events.
clientEvent ==
  /\ recordSuccess \/ recordFailure
  /\ FlagAfterRecord
  /\ UNCHANGED <<call, probes>>

-----------------------------------------------------------------------------
(* Time and the recovery probe *)

cooldownElapses ==
  /\ state = "OPEN" /\ ~ elapsed
  /\ elapsed' = TRUE
  /\ UNCHANGED <<state, consecutiveFailures, halfOpenInFlight, rolling, timer,
                 call, probes>>

\* Mutant: probe() does not half-open the circuit.
ProbeStaysOpen ==
  /\ timer /\ elapsed /\ probes < MaxProbes
  /\ timer' = FALSE
  /\ halfOpenInFlight' = TRUE
  /\ probes' = probes + 1
  /\ UNCHANGED <<state, consecutiveFailures, elapsed, rolling, call>>

\* scheduleRecoveryProbe's timer fires: probe() up to its await.
probe ==
  /\ timer /\ elapsed /\ probes < MaxProbes
  /\ timer' = FALSE
  /\ state' = IF state = "OPEN" THEN "HALF_OPEN" ELSE state
  /\ halfOpenInFlight' = TRUE
  /\ probes' = probes + 1
  /\ UNCHANGED <<consecutiveFailures, elapsed, rolling, call>>

\* Mutant: the half-open slot is not given back.
ProbeKeepsSlot ==
  /\ probes > 0
  /\ probes' = probes - 1
  /\ \/ transitionToClosed /\ consecutiveFailures' = 0
     \/ transitionToOpen /\ UNCHANGED consecutiveFailures
  /\ UNCHANGED <<halfOpenInFlight, rolling, call>>

\* probeFn settles; probe() decides whatever the state has become.
probeSettles ==
  /\ probes > 0
  /\ probes' = probes - 1
  /\ \/ transitionToClosed /\ consecutiveFailures' = 0
     \/ transitionToOpen /\ UNCHANGED consecutiveFailures
  /\ halfOpenInFlight' = FALSE
  /\ UNCHANGED <<rolling, call>>

Next ==
  \/ reflectState \/ clientEvent
  \/ \E c \in Callers :
       \/ executeClosed(c) \/ executeHalfOpen(c) \/ checkState(c)
       \/ callSettles(c) \/ probeRequestSettles(c) \/ callUnrecorded(c)
  \/ cooldownElapses \/ probe \/ probeSettles

\* Timers fire, and a recovery probe's request ends.
Spec ==
  /\ Init /\ [][Next]_vars
  /\ WF_vars(cooldownElapses) /\ WF_vars(probe) /\ WF_vars(probeSettles)

-----------------------------------------------------------------------------
(* Properties *)

\* A CLOSED circuit has never swallowed a trip: recordFailure and the resets
\* of all the paths back to CLOSED keep the count below the threshold.
ClosedBelowThreshold == state = "CLOSED" => consecutiveFailures < FailureThreshold

\* An OPEN circuit always has its recovery probe scheduled, and never holds
\* the half-open slot, so getState() may half-open it: it cannot stay open
\* for want of traffic or because a probe was interrupted by a late failure.
OpenHasRecovery == state = "OPEN" => timer /\ ~ halfOpenInFlight

\* The half-open slot is never leaked: while it is taken, some probe request
\* or recovery probe is in flight, whose end gives it back.
SlotHasOwner ==
  halfOpenInFlight => probes > 0 \/ \E c \in ExecCallers : call[c] = "probing"

\* The way back from OPEN is never lost: the recovery probe of an OPEN circuit
\* is scheduled with its slot free, and a slot that is taken is given back.
RecoveryAssured == OpenHasRecovery /\ SlotHasOwner

\* An OPEN circuit is eventually probed.
Recovers == state = "OPEN" ~> state # "OPEN"
=============================================================================
