---------------------------- MODULE Idempotency ----------------------------
(***************************************************************************)
(* The idempotency layer in front of the trade endpoints:                  *)
(*   src/src/middlewares/idempotency.middleware.ts   idempotencyMiddleware *)
(*   src/src/utils/redis.utils.ts     cacheGet, cacheSetRaw(Nx), Invalidate*)
(* for the requests that carry one wallet's one idempotency key.  Requests *)
(* may run in several server processes; Redis commands are atomic, every   *)
(* await between them is a step.  The trade itself is abstract: a handler  *)
(* fails without effect or commits and answers, or (an `ambiguous' fault)  *)
(* commits and reports a failure: a lost COMMIT or Soroban answer.         *)
(***************************************************************************)
EXTENDS Integers

CONSTANTS
  Req,       \* requests with the same wallet and Idempotency-Key
  Nobody,    \* no request
  FaultKinds,\* the faults that may happen: "close" (a client disconnects),
             \* "expiry" (a TTL runs out early), "redis" (a command fails),
             \* "ambiguous" (see above) and "crash" (a process dies)
  MaxFault   \* bound: how many of them

ASSUME IdempotencyAssumption ==
  /\ MaxFault \in Nat /\ Nobody \notin Req
  /\ FaultKinds \subseteq {"close", "expiry", "redis", "ambiguous", "crash"}

VARIABLES
  entry,     \* the Redis value: [kind, by], `by' is whose it is
  pc,        \* where each request is
  answer,    \* what its client was told, and whose result it was
  committed, \* requests whose handler committed the trade
  dels,      \* requests with a fire-and-forget DEL under way
  faults,    \* number of faults so far
  happened   \* and their kinds

vars == <<entry, pc, answer, committed, dels, faults, happened>>

Absent      == [kind |-> "absent", by |-> Nobody]
\* Mutant: the marker's field is not the one the readers test.
MisnamedMarker(r) == [kind |-> "in_progress", by |-> r]

InFlight(r) == [kind |-> "inProgress", by |-> r]
Resolved(r) == [kind |-> "resolved", by |-> r]

NoAnswer  == [status |-> "none", by |-> Nobody]
Ok(r)     == [status |-> "ok", by |-> r]
Conflict  == [status |-> "409", by |-> Nobody]
Failure   == [status |-> "error", by |-> Nobody]

TypeOK ==
  /\ entry \in [kind : {"absent", "inProgress", "resolved"}, by : Req \cup {Nobody}]
  /\ pc \in [Req -> {"new", "check", "wait", "run", "respond", "persist",
                     "clear", "done", "dead"}]
  /\ answer \in [Req -> [status : {"none", "ok", "409", "error"},
                         by : Req \cup {Nobody}]]
  /\ committed \in SUBSET Req
  /\ dels \in SUBSET Req
  /\ faults \in 0..MaxFault
  /\ happened \in SUBSET FaultKinds

Init ==
  /\ entry = Absent
  /\ pc = [r \in Req |-> "new"]
  /\ answer = [r \in Req |-> NoAnswer]
  /\ committed = {} /\ dels = {} /\ faults = 0 /\ happened = {}

Goto(r, l) == pc' = [pc EXCEPT ![r] = l]
Tell(r, a) == answer' = [answer EXCEPT ![r] = a]
Fault(kind) ==
  /\ kind \in FaultKinds /\ faults < MaxFault
  /\ faults' = faults + 1 /\ happened' = happened \cup {kind}
NoFault == UNCHANGED <<faults, happened>>

-----------------------------------------------------------------------------
(* Taking the key *)

\* Mutant: SET without NX.
SetWithoutNx(r) ==
  /\ pc[r] = "new"
  /\ entry' = InFlight(r) /\ Goto(r, "run")
  /\ UNCHANGED <<answer, committed, dels>> /\ NoFault

\* SET NX: the first request owns the key, a duplicate looks at it.
cacheSetRawNx(r) ==
  /\ pc[r] = "new"
  /\ \/ entry = Absent /\ entry' = InFlight(r) /\ Goto(r, "run")
     \/ entry # Absent /\ UNCHANGED entry /\ Goto(r, "check")
  /\ UNCHANGED <<answer, committed, dels>> /\ NoFault

\* Redis unavailable or its breaker open: the request proceeds.
setNxFailsOpen(r) ==
  /\ pc[r] = "new" /\ Fault("redis")
  /\ Goto(r, "run")
  /\ UNCHANGED <<entry, answer, committed, dels>>

\* Mutant: any entry found is replayed, its inProgress flag is not tested.
ReplayAnyEntry(r) ==
  /\ pc[r] = "check"
  /\ \/ /\ entry.kind # "absent"
        /\ Tell(r, Ok(entry.by)) /\ Goto(r, "done")
     \/ entry.kind = "absent" /\ Goto(r, "wait") /\ UNCHANGED answer
  /\ UNCHANGED <<entry, committed, dels>> /\ NoFault

\* First GET of a duplicate: replay a stored response, else wait.
checkExisting(r) ==
  /\ pc[r] = "check"
  /\ \/ /\ entry.kind = "resolved"
        /\ Tell(r, Ok(entry.by)) /\ Goto(r, "done")
     \/ entry.kind # "resolved" /\ Goto(r, "wait") /\ UNCHANGED answer
  /\ UNCHANGED <<entry, committed, dels>> /\ NoFault

\* That GET fails: a miss.
checkMisses(r) ==
  /\ pc[r] = "check" /\ Fault("redis")
  /\ Goto(r, "wait")
  /\ UNCHANGED <<entry, answer, committed, dels>>

\* A poll that ends the wait: resolved, or the key is gone.
pollInFlight(r) ==
  /\ pc[r] = "wait" /\ entry.kind # "inProgress"
  /\ Tell(r, IF entry.kind = "resolved" THEN Ok(entry.by) ELSE Conflict)
  /\ Goto(r, "done")
  /\ UNCHANGED <<entry, committed, dels>> /\ NoFault

\* Mutant: after timeoutMs the duplicate runs the handler itself.
TimeoutProceeds(r) ==
  /\ pc[r] = "wait"
  /\ Goto(r, "run")
  /\ UNCHANGED <<entry, answer, committed, dels>> /\ NoFault

\* timeoutMs is over, or a GET failed and is taken for a miss.
waitTimesOut(r) ==
  /\ pc[r] = "wait"
  /\ Tell(r, Conflict) /\ Goto(r, "done")
  /\ UNCHANGED <<entry, committed, dels>> /\ NoFault

-----------------------------------------------------------------------------
(* Running the handler *)

handlerCommits(r) ==
  /\ pc[r] = "run"
  /\ committed' = committed \cup {r}
  /\ Goto(r, "respond")
  /\ UNCHANGED <<entry, answer, dels>> /\ NoFault

\* The handler answers 2xx: the response leaves, the SET is on its way.
handlerResponds(r) ==
  /\ pc[r] = "respond"
  /\ Tell(r, Ok(r)) /\ Goto(r, "persist")
  /\ UNCHANGED <<entry, committed, dels>> /\ NoFault

\* The handler fails (status >= 400, or throws) without effect.
handlerFails(r) ==
  /\ pc[r] = "run"
  /\ Tell(r, Failure) /\ Goto(r, "clear")
  /\ UNCHANGED <<entry, committed, dels>> /\ NoFault

\* The trade committed, but the handler only saw an error.
handlerFailsLate(r) ==
  /\ pc[r] = "run" /\ Fault("ambiguous")
  /\ committed' = committed \cup {r}
  /\ Tell(r, Failure) /\ Goto(r, "clear")
  /\ UNCHANGED <<entry, dels>>

\* persistResult below 400: unconditional SET.  Redis serves a connection's
\* commands in order, so a DEL of the same request goes first.
persistResult(r) ==
  /\ pc[r] = "persist" /\ r \notin dels
  /\ entry' = Resolved(r)
  /\ Goto(r, "done")
  /\ UNCHANGED <<answer, committed, dels>> /\ NoFault

\* persistResult from 400 on: unconditional DEL.
clearInFlight(r) ==
  /\ pc[r] = "clear" /\ r \notin dels
  /\ entry' = Absent
  /\ Goto(r, "done")
  /\ UNCHANGED <<answer, committed, dels>> /\ NoFault

\* The SET or DEL fails and is only logged.
cacheWriteFails(r) ==
  /\ pc[r] \in {"persist", "clear"} /\ r \notin dels /\ Fault("redis")
  /\ Goto(r, "done")
  /\ UNCHANGED <<entry, answer, committed, dels>>

-----------------------------------------------------------------------------
(* What the clients, the clock and the processes do *)

\* The client disconnects before the response: 'close' issues a DEL while
\* the handler goes on.
clientCloses(r) ==
  /\ pc[r] \in {"run", "respond"} /\ r \notin dels /\ Fault("close")
  /\ dels' = dels \cup {r}
  /\ UNCHANGED <<entry, pc, answer, committed>>

cacheInvalidate(r) ==
  /\ r \in dels
  /\ \/ entry' = Absent /\ NoFault
     \/ Fault("redis") /\ UNCHANGED entry
  /\ dels' = dels \ {r}
  /\ UNCHANGED <<pc, answer, committed>>

Running(r) == pc[r] \in {"run", "respond", "persist", "clear"}

\* IN_FLIGHT_TTL_SECONDS is over under a running handler ...
inFlightExpires ==
  /\ entry.kind = "inProgress" /\ Running(entry.by) /\ Fault("expiry")
  /\ entry' = Absent
  /\ UNCHANGED <<pc, answer, committed, dels>>

\* Mutant: the in-flight marker is written without a TTL.
MarkerWithoutTtl ==
  /\ entry.kind = "resolved" /\ ~ Running(entry.by)
  /\ entry' = Absent
  /\ UNCHANGED <<pc, answer, committed, dels>> /\ NoFault

\* ... or after its handler died or lost its write: the safety net.
orphanExpires ==
  /\ entry.kind = "inProgress" /\ ~ Running(entry.by)
  /\ entry' = Absent
  /\ UNCHANGED <<pc, answer, committed, dels>> /\ NoFault

\* IDEMPOTENCY_TTL_SECONDS is over.
storedExpires ==
  /\ entry.kind = "resolved" /\ Fault("expiry")
  /\ entry' = Absent
  /\ UNCHANGED <<pc, answer, committed, dels>>

\* The process serving r dies.
crash(r) ==
  /\ pc[r] \notin {"new", "done", "dead"} /\ Fault("crash")
  /\ Goto(r, "dead")
  /\ dels' = dels \ {r}
  /\ UNCHANGED <<entry, answer, committed>>

Serve(r) ==
  \/ checkExisting(r) \/ pollInFlight(r) \/ waitTimesOut(r)
  \/ handlerCommits(r) \/ handlerResponds(r) \/ handlerFails(r)
  \/ persistResult(r) \/ clearInFlight(r) \/ cacheInvalidate(r)

Next ==
  \/ \E r \in Req :
       \/ cacheSetRawNx(r) \/ setNxFailsOpen(r) \/ Serve(r)
       \/ checkMisses(r) \/ handlerFailsLate(r) \/ cacheWriteFails(r)
       \/ clientCloses(r) \/ crash(r)
  \/ inFlightExpires \/ orphanExpires \/ storedExpires

\* Handlers end, Redis answers or times out, waits are bounded by timeoutMs, and keys carry a TTL.
Spec ==
  /\ Init /\ [][Next]_vars
  /\ \A r \in Req : WF_vars(Serve(r))
  /\ WF_vars(orphanExpires)

-----------------------------------------------------------------------------
(* Properties *)

\* Between them, any number of duplicates commit the trade at most once:
\* failures hand the key over cleanly.  (While no client disconnects, no TTL
\* runs out, Redis answers, no outcome is ambiguous and no process dies.)
AtMostOnce == happened = {} => \A r, q \in committed : r = q

\* No two handlers of one key run together, even across crashed processes and
\* handlers that committed but failed: the key is only handed over when its
\* owner is gone or has written its verdict.  (Disconnects, early expiry and
\* the fail-open path give it away earlier.)
OneHandler ==
  happened \subseteq {"crash", "ambiguous"} =>
    \A r, q \in Req : (Running(r) /\ Running(q)) => r = q

\* All clients that are told `ok' are told the result of the same execution,
\* whether they ran it, found it stored or waited for it.
SameAnswer ==
  happened = {} =>
    \A r, q \in Req :
      (answer[r].status = "ok" /\ answer[q].status = "ok") =>
        answer[r].by = answer[q].by

\* A response is only ever replayed for an execution that committed.
AnsweredIsCommitted ==
  \A r \in Req : answer[r].status = "ok" => answer[r].by \in committed

\* The key is never left in flight for good, whoever died or lost a write.
KeyReleased == entry.kind = "inProgress" ~> entry.kind # "inProgress"

\* "Prevents double-execution across concurrent retries".
NoDoubleExecution == \A r, q \in committed : r = q
=============================================================================
