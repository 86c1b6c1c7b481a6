------------------------- MODULE ContractSubmission -------------------------
(***************************************************************************)
(* The contract submission pipeline:                                       *)
(*   src/src/modules/contracts/contract.service.ts    submitContractCall   *)
(*   .../confirmation-poller.utils.ts                 pollForConfirmation  *)
(*   .../ledger-depth-gate.utils.ts                   waitForLedgerDepth   *)
(* Calls run concurrently, several may carry the same signed envelope (a   *)
(* client retrying after its own timeout), and every await is a step.      *)
(* The Soroban network and its RPC node are the environment: an answer may *)
(* be lost although the envelope was queued, queued envelopes are included *)
(* or forgotten, and young ledgers may be reorganised away.                *)
(***************************************************************************)
EXTENDS Integers, FiniteSets

CONSTANTS
  Sub,          \* submitContractCall calls
  Tx,           \* transaction hashes
  TxOf,         \* the envelope each call carries
  MaxAttempts,  \* SOROBAN_SUBMIT_MAX_ATTEMPTS
  Depth,        \* CONFIRMED_LEDGER_DEPTH
  MaxHead,      \* bound: ledgers the network may close
  MaxReorg,     \* bound: reorganisations
  MaxFault      \* bound: failed database writes and process crashes

ASSUME SubmissionAssumption ==
  /\ TxOf \in [Sub -> Tx]
  /\ MaxAttempts \in Nat \ {0} /\ Depth \in Nat
  /\ MaxHead \in Nat /\ MaxReorg \in Nat /\ MaxFault \in Nat

VARIABLES
  head, top,   \* newest ledger, and the newest there ever was
  queue,       \* envelopes the network may still include
  inc,         \* inclusion of each tx: [ledger, ok], ledger 0 if none
  dropped,     \* txs a reorg has removed from a ledger
  reorgs,
  row,         \* ContractTransaction.status (and errorKind)
  pc,          \* where each call is
  attempts,    \* submission attempts made
  seen,        \* outcome.ledger: the inclusion the poller reported
  released,    \* the depth gate reported depthConfirmed
  verdict,     \* what the call returned or threw, and its one event
  faults

network == <<head, top, queue, inc, dropped, reorgs>>
vars == <<head, top, queue, inc, dropped, reorgs, row, pc, attempts, seen,
          released, verdict, faults>>

Ledger == 0..MaxHead
Terminal == {"CONFIRMED", "FAILED user", "FAILED transient"}
NotIncluded == [ledger |-> 0, ok |-> FALSE]
Included(t) == inc[t].ledger # 0

TypeOK ==
  /\ head \in Ledger /\ top \in Ledger /\ head <= top
  /\ queue \in SUBSET Tx
  /\ inc \in [Tx -> [ledger : Ledger, ok : BOOLEAN]]
  /\ dropped \in SUBSET Tx
  /\ reorgs \in 0..MaxReorg
  /\ row \in [Tx -> {"none", "PENDING"} \cup Terminal]
  /\ pc \in [Sub -> {"new", "submit", "track", "poll", "depth", "confirm",
                     "fail user", "fail transient", "done", "lost"}]
  /\ attempts \in [Sub -> 0..MaxAttempts]
  /\ seen \in [Sub -> Ledger]
  /\ released \in [Sub -> BOOLEAN]
  /\ verdict \in [Sub -> {"none", "throw user", "throw transient"} \cup Terminal]
  /\ faults \in 0..MaxFault

Init ==
  /\ head = 0 /\ top = 0 /\ queue = {}
  /\ inc = [t \in Tx |-> NotIncluded]
  /\ dropped = {} /\ reorgs = 0
  /\ row = [t \in Tx |-> "none"]
  /\ pc = [s \in Sub |-> "new"]
  /\ attempts = [s \in Sub |-> 0]
  /\ seen = [s \in Sub |-> 0]
  /\ released = [s \in Sub |-> FALSE]
  /\ verdict = [s \in Sub |-> "none"]
  /\ faults = 0

-----------------------------------------------------------------------------
(* The network *)

\* A ledger closes with some of the queued transactions, applied or failed.
CloseLedger ==
  /\ head < MaxHead
  /\ head' = head + 1
  /\ top' = IF head + 1 > top THEN head + 1 ELSE top
  /\ \E S \in SUBSET queue : \E good \in SUBSET S :
       /\ queue' = queue \ S
       /\ inc' = [t \in Tx |-> IF t \in S
                               THEN [ledger |-> head + 1, ok |-> t \in good]
                               ELSE inc[t]]
  /\ UNCHANGED <<dropped, reorgs, row, pc, attempts, seen, released, verdict,
                 faults>>

\* Ledgers less than Depth deep may be replaced: their transactions go back
\* to the queue or are forgotten.
Reorg ==
  /\ reorgs < MaxReorg
  /\ reorgs' = reorgs + 1
  /\ \E n \in Ledger :
       /\ n < head /\ n >= top - Depth
       /\ head' = n
       /\ LET D == {t \in Tx : inc[t].ledger > n} IN
          /\ inc' = [t \in Tx |-> IF t \in D THEN NotIncluded ELSE inc[t]]
          /\ dropped' = dropped \cup D
          /\ \E S \in SUBSET D : queue' = queue \cup S
  /\ UNCHANGED <<top, row, pc, attempts, seen, released, verdict, faults>>

\* An envelope reaches the network, unless it is there already; or it does not.
Enqueue(t) == queue' = IF Included(t) THEN queue ELSE queue \cup {t}

-----------------------------------------------------------------------------
(* submitContractCall *)

Goto(s, l) == pc' = [pc EXCEPT ![s] = l]

submitContractCall(s) ==
  /\ pc[s] = "new"
  /\ Goto(s, "submit")
  /\ UNCHANGED <<network, row, attempts, seen, released, verdict, faults>>

Attempt(s) ==
  /\ pc[s] = "submit"
  /\ attempts' = [attempts EXCEPT ![s] = @ + 1]

\* The node answers with a hash and a status other than ERROR: PENDING or
\* DUPLICATE, but also TRY_AGAIN_LATER, which queues nothing.
submitOnce(s) ==
  /\ Attempt(s)
  /\ Enqueue(TxOf[s]) \/ UNCHANGED queue
  /\ Goto(s, "track")
  /\ UNCHANGED <<head, top, inc, dropped, reorgs, row, seen, released,
                 verdict, faults>>

\* Mutant: one attempt too many.
ExtraAttempt(s) ==
  /\ Attempt(s)
  /\ Enqueue(TxOf[s]) \/ UNCHANGED queue
  /\ \/ attempts'[s] <= MaxAttempts /\ UNCHANGED <<pc, verdict>>
     \/ /\ attempts'[s] > MaxAttempts
        /\ Goto(s, "done")
        /\ verdict' = [verdict EXCEPT ![s] = "throw transient"]
  /\ UNCHANGED <<head, top, inc, dropped, reorgs, row, seen, released, faults>>

\* The attempt fails with an error classified as transient: the answer was
\* lost (queued or not), the breaker is open, or the status was ERROR.
submitTransient(s) ==
  /\ Attempt(s)
  /\ Enqueue(TxOf[s]) \/ UNCHANGED queue
  /\ \/ attempts'[s] < MaxAttempts /\ UNCHANGED <<pc, verdict>>
     \/ /\ attempts'[s] = MaxAttempts
        /\ Goto(s, "done")
        /\ verdict' = [verdict EXCEPT ![s] = "throw transient"]
  /\ UNCHANGED <<head, top, inc, dropped, reorgs, row, seen, released, faults>>

\* A user error is terminal, whatever earlier attempts queued.
submitUserError(s) ==
  /\ Attempt(s)
  /\ Goto(s, "done")
  /\ verdict' = [verdict EXCEPT ![s] = "throw user"]
  /\ UNCHANGED <<network, row, seen, released, faults>>

\* Mutant: an upsert instead of a create.
UpsertPending(s) ==
  /\ pc[s] = "track"
  /\ row' = [row EXCEPT ![TxOf[s]] = "PENDING"]
  /\ Goto(s, "poll")
  /\ UNCHANGED <<network, attempts, seen, released, verdict, faults>>

\* create, whose unique violation and other failures are swallowed
recordPending(s) ==
  /\ pc[s] = "track"
  /\ \/ /\ row' = [row EXCEPT ![TxOf[s]] = IF @ = "none" THEN "PENDING" ELSE @]
        /\ UNCHANGED faults
     \/ faults < MaxFault /\ faults' = faults + 1 /\ UNCHANGED row
  /\ Goto(s, "poll")
  /\ UNCHANGED <<network, attempts, seen, released, verdict>>

\* Mutant: FAILED is taken for an inclusion like any other.
PollIgnoresStatus(s) ==
  /\ pc[s] = "poll" /\ Included(TxOf[s])
  /\ seen' = [seen EXCEPT ![s] = inc[TxOf[s]].ledger]
  /\ Goto(s, "depth")
  /\ UNCHANGED <<network, row, attempts, released, verdict, faults>>

\* One poll that resolves; a poll that finds nothing or fails is a stutter.
\* An answer without the including ledger is taken to be of the latest one,
\* which every answer of the RPC carries (so the final `?? 0' is not reached).
pollForConfirmation(s) ==
  /\ pc[s] = "poll" /\ Included(TxOf[s])
  /\ \/ /\ inc[TxOf[s]].ok
        /\ \E ledger \in {inc[TxOf[s]].ledger, head} :
             seen' = [seen EXCEPT ![s] = ledger]
        /\ Goto(s, "depth")
     \/ /\ ~ inc[TxOf[s]].ok
        /\ Goto(s, "fail user") /\ UNCHANGED seen
  /\ UNCHANGED <<network, row, attempts, released, verdict, faults>>

\* Mutant: a timeout returns without updating the row.
TimeoutLeavesRow(s) ==
  /\ pc[s] = "poll"
  /\ Goto(s, "done")
  /\ UNCHANGED <<network, row, attempts, seen, released, verdict, faults>>

\* Mutant: the deadline is only looked at when the transaction was found.
DeadlineAfterFound(s) ==
  /\ pc[s] = "poll" /\ Included(TxOf[s])
  /\ Goto(s, "fail transient")
  /\ UNCHANGED <<network, row, attempts, seen, released, verdict, faults>>

pollTimesOut(s) ==
  /\ pc[s] = "poll"
  /\ Goto(s, "fail transient")
  /\ UNCHANGED <<network, row, attempts, seen, released, verdict, faults>>

\* Mutant: the including ledger is counted as one of depth.
DeepEnoughEarly(latestLedger, txLedger) == latestLedger - txLedger + 1 >= Depth

\* latestLedger - txLedger >= CONFIRMED_LEDGER_DEPTH; the transaction's own
\* status in the same answer is not looked at.
DeepEnough(latestLedger, txLedger) == latestLedger - txLedger >= Depth

waitForLedgerDepth(s) ==
  /\ pc[s] = "depth" /\ DeepEnough(head, seen[s])
  /\ released' = [released EXCEPT ![s] = TRUE]
  /\ Goto(s, "confirm")
  /\ UNCHANGED <<network, row, attempts, seen, verdict, faults>>

depthTimesOut(s) ==
  /\ pc[s] = "depth"
  /\ Goto(s, "confirm")
  /\ UNCHANGED <<network, row, attempts, seen, released, verdict, faults>>

\* update, which fails (and is logged) if there is no row
Resolve(s, status) ==
  /\ \/ /\ row' = [row EXCEPT ![TxOf[s]] = IF @ = "none" THEN @ ELSE status]
        /\ UNCHANGED faults
     \/ faults < MaxFault /\ faults' = faults + 1 /\ UNCHANGED row
  /\ verdict' = [verdict EXCEPT ![s] = status]
  /\ Goto(s, "done")
  /\ UNCHANGED <<network, attempts, seen, released>>

persistConfirmed(s) == pc[s] = "confirm" /\ Resolve(s, "CONFIRMED")

persistFailed(s) ==
  \/ pc[s] = "fail user" /\ Resolve(s, "FAILED user")
  \/ pc[s] = "fail transient" /\ Resolve(s, "FAILED transient")

\* The process dies: the calls in it are gone, nothing resumes them.
crash ==
  /\ faults < MaxFault /\ faults' = faults + 1
  /\ pc' = [s \in Sub |-> IF pc[s] \in {"new", "done"} THEN pc[s] ELSE "lost"]
  /\ UNCHANGED <<network, row, attempts, seen, released, verdict>>

Step(s) ==
  \/ submitOnce(s) \/ submitTransient(s) \/ submitUserError(s)
  \/ recordPending(s)
  \/ pollForConfirmation(s) \/ pollTimesOut(s)
  \/ waitForLedgerDepth(s) \/ depthTimesOut(s)
  \/ persistConfirmed(s) \/ persistFailed(s)

Next ==
  \/ CloseLedger \/ Reorg \/ crash
  \/ \E s \in Sub : submitContractCall(s) \/ Step(s)

\* Requests, polls and deadlines of a running call end.
Spec == Init /\ [][Next]_vars /\ \A s \in Sub : WF_vars(Step(s))

-----------------------------------------------------------------------------
(* Properties *)

\* The tracking row never contradicts the chain: CONFIRMED means applied and
\* a FAILED of kind `user' means included and failed, whichever of several
\* calls with the same envelope wrote it last, if no reorg intervened.
RowTruthful ==
  \A t \in Tx \ dropped :
    /\ row[t] = "CONFIRMED" => Included(t) /\ inc[t].ok
    /\ row[t] = "FAILED user" => Included(t) /\ ~ inc[t].ok

\* The depth gate's arithmetic: a call it released holds an inclusion that no
\* reorg can undo any more (unless one already had before the gate looked).
ReleasedIsDeep ==
  \A s \in Sub : (released[s] /\ TxOf[s] \notin dropped) =>
    Included(TxOf[s]) /\ inc[TxOf[s]].ok /\ top - inc[TxOf[s]].ledger >= Depth

Tracking == {"poll", "depth", "confirm", "fail user", "fail transient"}

\* A PENDING row is never forgotten: as long as no write failed and no
\* process died, some call is still on its way to resolve it.
PendingHasOwner ==
  \A t \in Tx : (row[t] = "PENDING" /\ faults = 0) =>
    \E s \in Sub : TxOf[s] = t /\ pc[s] \in Tracking

\* A late call with the same envelope never reopens a resolved row, nor takes
\* a verdict of the chain back for the opposite one.
VerdictStays ==
  [][\A t \in Tx : row[t] \in Terminal =>
       /\ row'[t] \in Terminal
       /\ t \notin dropped =>
            /\ row[t] = "CONFIRMED" => row'[t] # "FAILED user"
            /\ row[t] = "FAILED user" => row'[t] # "CONFIRMED"]_vars

\* Retries, polling and the depth gate are all bounded: a call that started
\* returns, throws, or died with its process.
CallTerminates == \A s \in Sub : pc[s] = "submit" ~> pc[s] \in {"done", "lost"}

\* "must wait until the ledger that included the transaction is at least
\* CONFIRMED_LEDGER_DEPTH ledgers deep": what the gate released is on chain.
ReleasedIsOnChain ==
  \A s \in Sub : released[s] => Included(TxOf[s]) /\ inc[TxOf[s]].ok
=============================================================================
