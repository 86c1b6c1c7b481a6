------------------------- MODULE IdempotencyProofs --------------------------
(* Safety of Idempotency for every set of requests, every set of faults    *)
(* and every number of them.                                               *)
EXTENDS Idempotency, TLAPS

\* Whatever happens: what is stored or about to be stored has committed.
StoredIsCommitted ==
  /\ entry.kind = "resolved" => entry.by \in committed
  /\ \A r \in Req : pc[r] \in {"respond", "persist"} => r \in committed

\* Until the key is given away early, its entry names whoever is running, and
\* no DEL of a running request is under way.
RunnerOwnsKey ==
  happened \subseteq {"crash", "ambiguous"} =>
    /\ dels = {}
    /\ \A r \in Req : Running(r) => entry = InFlight(r)

\* Without any fault, a commit is on its way to the key or stored in it, and
\* a key in flight is being worked on.
CommitOwnsKey ==
  happened = {} =>
    /\ \A r \in committed : pc[r] \in {"respond", "persist"} \/ entry = Resolved(r)
    /\ entry.kind = "inProgress" => Running(entry.by)

IInv ==
  /\ TypeOK /\ AnsweredIsCommitted /\ StoredIsCommitted
  /\ RunnerOwnsKey /\ CommitOwnsKey

\* A fault leaves a trace.
LEMMA FaultTrace ==
  ASSUME NEW k, k \in {"close", "expiry", "redis"}, Fault(k)
  PROVE  ~ (happened' \subseteq {"crash", "ambiguous"}) /\ happened' # {}
  BY DEF Fault

\* Faults are remembered.
LEMMA FaultKept ==
  ASSUME NEW k, Fault(k)
  PROVE  happened \subseteq happened' /\ happened' # {}
  BY DEF Fault

\* Counting a fault keeps the types.
LEMMA FaultType ==
  ASSUME TypeOK, NEW k, Fault(k)
  PROVE  faults' \in 0..MaxFault /\ happened' \in SUBSET FaultKinds
<1>1. faults' \in 0..MaxFault
  BY IdempotencyAssumption DEF TypeOK, Fault
<1>2. happened' \in SUBSET FaultKinds
  BY DEF TypeOK, Fault
<1> QED
  BY <1>1, <1>2

\* The invariant holds before the first request ...
LEMMA InitInv == Init => IInv
  BY IdempotencyAssumption
  DEF Init, IInv, TypeOK, AnsweredIsCommitted, StoredIsCommitted, RunnerOwnsKey,
      CommitOwnsKey, Absent, NoAnswer, Running

\* ... every step of requests, handlers and Redis preserves it ...
LEMMA StepInv == IInv /\ [Next]_vars => IInv'
<1> SUFFICES ASSUME IInv, [Next]_vars PROVE IInv'
  OBVIOUS
<1> USE IdempotencyAssumption
    DEF IInv, TypeOK, AnsweredIsCommitted, StoredIsCommitted, RunnerOwnsKey,
        CommitOwnsKey, Running, Goto, Tell, NoFault, Absent, InFlight, Resolved
<1>1. ASSUME NEW r \in Req, cacheSetRawNx(r) PROVE IInv'
  <2>1. CASE entry = Absent /\ entry' = InFlight(r) /\ Goto(r, "run")
    <3>1. TypeOK' /\ AnsweredIsCommitted' /\ StoredIsCommitted'
      BY <1>1, <2>1 DEF cacheSetRawNx
    <3>2. RunnerOwnsKey'
      BY <1>1, <2>1 DEF cacheSetRawNx
    <3>3. CommitOwnsKey'
      BY <1>1, <2>1 DEF cacheSetRawNx
    <3> QED
      BY <3>1, <3>2, <3>3
  <2>2. CASE entry # Absent /\ UNCHANGED entry /\ Goto(r, "check")
    BY <1>1, <2>2 DEF cacheSetRawNx
  <2> QED
    BY <1>1, <2>1, <2>2 DEF cacheSetRawNx
<1>2. ASSUME NEW r \in Req, setNxFailsOpen(r) PROVE IInv'
  BY <1>2, FaultTrace, FaultType DEF setNxFailsOpen
<1>3. ASSUME NEW r \in Req, checkExisting(r) PROVE IInv'
  <2>1. CASE entry.kind = "resolved" /\ Tell(r, Ok(entry.by)) /\ Goto(r, "done")
    BY <1>3, <2>1 DEF checkExisting, Ok
  <2>2. CASE entry.kind # "resolved" /\ Goto(r, "wait") /\ UNCHANGED answer
    BY <1>3, <2>2 DEF checkExisting
  <2> QED
    BY <1>3, <2>1, <2>2 DEF checkExisting
<1>4. ASSUME NEW r \in Req, checkMisses(r) PROVE IInv'
  BY <1>4, FaultTrace, FaultType DEF checkMisses
<1>5. ASSUME NEW r \in Req, pollInFlight(r) PROVE IInv'
  BY <1>5 DEF pollInFlight, Ok, Conflict
<1>6. ASSUME NEW r \in Req, waitTimesOut(r) PROVE IInv'
  BY <1>6 DEF waitTimesOut, Conflict
<1>7. ASSUME NEW r \in Req, handlerCommits(r) PROVE IInv'
  BY <1>7 DEF handlerCommits
<1>8. ASSUME NEW r \in Req, handlerResponds(r) PROVE IInv'
  BY <1>8 DEF handlerResponds, Ok
<1>9. ASSUME NEW r \in Req, handlerFails(r) PROVE IInv'
  BY <1>9 DEF handlerFails, Failure
<1>10. ASSUME NEW r \in Req, handlerFailsLate(r) PROVE IInv'
  BY <1>10, FaultKept, FaultType DEF handlerFailsLate, Failure
<1>11. ASSUME NEW r \in Req, persistResult(r) PROVE IInv'
  BY <1>11 DEF persistResult
<1>12. ASSUME NEW r \in Req, clearInFlight(r) PROVE IInv'
  BY <1>12 DEF clearInFlight
<1>13. ASSUME NEW r \in Req, cacheWriteFails(r) PROVE IInv'
  BY <1>13, FaultTrace, FaultType DEF cacheWriteFails
<1>14. ASSUME NEW r \in Req, clientCloses(r) PROVE IInv'
  BY <1>14, FaultTrace, FaultType DEF clientCloses
<1>15. ASSUME NEW r \in Req, cacheInvalidate(r) PROVE IInv'
  <2>1. ~ (happened \subseteq {"crash", "ambiguous"}) /\ happened # {}
    BY <1>15 DEF cacheInvalidate
  <2>2. CASE entry' = Absent /\ NoFault
    BY <1>15, <2>1, <2>2 DEF cacheInvalidate
  <2>3. CASE Fault("redis") /\ UNCHANGED entry
    BY <1>15, <2>3, FaultTrace, FaultType DEF cacheInvalidate
  <2> QED
    BY <1>15, <2>2, <2>3 DEF cacheInvalidate
<1>16. ASSUME NEW r \in Req, crash(r) PROVE IInv'
  BY <1>16, FaultKept, FaultType DEF crash
<1>17. CASE inFlightExpires
  BY <1>17, FaultTrace, FaultType DEF inFlightExpires
<1>18. CASE orphanExpires
  BY <1>18 DEF orphanExpires
<1>19. CASE storedExpires
  BY <1>19, FaultTrace, FaultType DEF storedExpires
<1>20. CASE UNCHANGED vars
  BY <1>20 DEF vars
<1> QED
  BY <1>1, <1>2, <1>3, <1>4, <1>5, <1>6, <1>7, <1>8, <1>9, <1>10, <1>11, <1>12,
     <1>13, <1>14, <1>15, <1>16, <1>17, <1>18, <1>19, <1>20
  DEF Next, Serve

\* ... and so every behaviour has it.
LEMMA Inductive == Spec => []IInv
  BY InitInv, StepInv, PTL DEF Spec

\* The Redis entry, the requests and their answers keep their types.
THEOREM TypeCorrect == Spec => []TypeOK
<1>1. IInv => TypeOK
  BY DEF IInv
<1> QED
  BY <1>1, Inductive, PTL

\* Duplicates commit a trade at most once while nothing fails.
THEOREM Once == Spec => []AtMostOnce
<1>1. IInv => AtMostOnce
  <2> SUFFICES ASSUME IInv, happened = {}, NEW r \in committed, NEW q \in committed
               PROVE  r = q
    BY DEF AtMostOnce
  <2>1. r \in Req /\ q \in Req
    BY DEF IInv, TypeOK
  <2>2. entry \in {InFlight(r), Resolved(r)} /\ entry \in {InFlight(q), Resolved(q)}
    BY <2>1 DEF IInv, RunnerOwnsKey, CommitOwnsKey, Running
  <2> QED
    BY <2>2 DEF InFlight, Resolved
<1> QED
  BY <1>1, Inductive, PTL

\* No two handlers of one key run together, crashes and late failures included.
THEOREM Exclusion == Spec => []OneHandler
<1>1. IInv => OneHandler
  BY DEF IInv, RunnerOwnsKey, OneHandler, InFlight
<1> QED
  BY <1>1, Inductive, PTL

\* All clients told `ok' are told the result of one execution.
THEOREM OneResult == Spec => []SameAnswer
<1>1. IInv /\ AtMostOnce => SameAnswer
  BY DEF IInv, AnsweredIsCommitted, AtMostOnce, SameAnswer
<1> QED
  BY <1>1, Inductive, Once, PTL

\* Nobody is told the result of an execution that did not commit.
THEOREM NoPhantomAnswer == Spec => []AnsweredIsCommitted
<1>1. IInv => AnsweredIsCommitted
  BY DEF IInv
<1> QED
  BY <1>1, Inductive, PTL
=============================================================================
