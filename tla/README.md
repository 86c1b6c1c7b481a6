# accesslayer-server in TLA+

Access Layer's server is an Express/TypeScript backend (Prisma on Postgres,
Redis, Soroban and Horizon RPC) for a market in creator keys on Stellar. This
directory holds TLA+ models of the parts of it whose correctness depends on
interleavings, failures and ordering, the TLC configurations that check them on
small instances, and TLAPS proofs of their safety properties for every value of
the constants. Paths below are relative to the repository.

## Inventory

| Component | State | Operations | What is hard |
|---|---|---|---|
| Reorg guard `src/modules/indexer/reorg-guard.service.ts` | `LedgerCheckpoint`, `IngestedEvent`, and the read models it rolls back | `ingestLedger` = detect, `findForkPoint`, `rollbackToLedger`, re-ingest, `recordLedgerIngestion` | crashes between non-transactional writes, reorgs between and during calls, two competing resume points |
| Trade pipeline `indexer-pipeline.service.ts`, `ownership.service.ts`, `persist-circulating-supply.service.ts` | `Activity`, `KeyOwnership`, `circulatingSupply`, `IndexedLedger` | `processTradeEvents`, `advanceIndexerCursorForBatch` | partial application and replay of a ledger |
| Circuit breaker `src/utils/circuit-breaker.utils.ts` | per-dependency state, counters, half-open slot, timer | `execute`, `checkState`, `recordSuccess/Failure`, `probe` | results that settle after the state has changed, recovery without traffic |
| Contract submission `src/modules/contracts/*` | `ContractTransaction` row | `submitContractCall`, poller, depth gate | lost answers, duplicate envelopes, reorgs, timeouts, crashes |
| Idempotency `src/middlewares/idempotency.middleware.ts` | one Redis entry per (wallet, key) | take the key, wait, replay, persist, clear | duplicates, disconnects, TTLs, Redis outages, crashes |
| Key positions: `creator/sell.controller.ts`, `keys/key-deprecation.service.ts`, `ownership/ownership.service.ts`, `webhooks/horizon-webhook.routes.ts`, `keys/key-freeze.service.ts` | `KeyOwnership.balance`, `circulatingSupply`, pending orders | sell, buyback, indexed trades, payment, freeze | absolute writes after a read beside increments, duplicate deliveries |
| Event indexers `src/modules/indexer/*-indexer.service.ts` | one read model per family, event logs, `IndexerDLQ`, caches, `IndexedLedger` | `processIndexerEvents` and a handler per event type | replays, overlapping workers, poison events, dispatch by family, stale caches |
| Governance `governance/`, `keys/key-proposal-votes.service.ts`, two indexers, a job | `GovernanceProposal` with its tally, `GovernanceVote`, snapshots | create, vote (three paths), extend, execute, close | lost tally updates, late sweeps, deadlines |
| Admin multisig `admin/multisig-proposal.service.ts` | `MultisigProposal`, `MultisigSignature` | create, sign, reject | counts from a stale read |
| Auto-invest `auto-invest/auto-invest.service.ts` | `AutoInvestExecution` | evaluate, claim, buy, record | duplicate listing events, lost answers |
| Key exports `keys/key-export.service.ts` | `KeyExportJob`, promise chain | create, process, download | chain that must not stop, restarts |
| Merkle event log `events/events.service.ts`, `utils/merkle.ts` | `Event`, `MerkleTreeState`, `MerklePartitionRoot` | ingest, close, publish, prove | incremental tree, retried publication, overlap |
| Outgoing webhooks `webhooks/webhook.service.ts` | `Webhook`, `WebhookEvent` | register, dispatch, retry | deliveries of one webhook update each other's events |
| Sequencer and locks, nonces, swaps, vesting, staking | queues, locks, mirrored rows | per service | compare-then-act, TTLs |
| Everything else (search, portfolio, leaderboards, profiles, ACL, status, routes) | queries and caches | reads | no protocol |

How they interact: a trade request passes the idempotency middleware, then a
handler that changes the database directly (sell) or submits to the chain; the
contract service submits envelopes through the Soroban client, which goes
through the breaker. Independently, a polling worker (outside the repository)
feeds closed ledgers to `ingestLedger`, which builds the trade read models, and
batches of events to `processIndexerEvents`, which builds all others. Governance,
dividends and positions are written by the API and by the indexer alike. Redis
and Postgres accesses consult breakers of their own.

`PROJECT.json` lists the hazards of this code line by line, with the properties
that cover them.

## Modules

| Module | Models |
|---|---|
| `ReorgGuard` | one `ingestLedger` call at a time, step by step, over a chain that grows and is reorganised, with crashes |
| `CircuitBreaker` | one breaker with any number of clients |
| `ContractSubmission` | concurrent `submitContractCall`s and the network |
| `Idempotency` | the requests that share one idempotency key |
| `EventProjections` | workers that run `processIndexerEvents` over batches of a log, with every handler, its cache and the cursor |
| `OrderedDelivery` | what `EventProjections` promises: at-least-once delivery in family order with a resume mark |
| `Governance` | one proposal and everybody who votes on it, extends, executes and closes it |
| `KeyPositions` | the writers of the positions in one key and of its supply |
| `Multisig`, `AutoInvest`, `ExportJobs`, `MerkleLog` | one proposal, one rule and listing, the export chain, one partition |
| `Services` | the last five side by side |
| `MC*` | instances for TLC (functions and sets as constants) |
| `*Proofs` | the theorems of each module (`ServicesProofs`: all five services) |
| `SetSums` | sums over finite sets, with the lemmas the proofs need |

Operators named `Mutant: ...` in a comment are wrong variants of the
definition after them (a dropped guard, an off-by-one, a missing reset). Each
one breaks the property it belongs to (`PROJECT.json`, `mutants`), which shows
that the property depends on that line of the code.

### ReorgGuard

A ledger hash is the chain's prefix: two hashes are equal exactly when the
histories below them are. Tables are functions: `cp` (LedgerCheckpoint), `ing`
(IngestedEvent), `activity`, `ownership` and `supply` count, per trade and
ledger, how often it is in the history, in its owner's position and in the
creator's last supply recount; amounts and prices are left out because buying
and selling add to the same counts. Two trades of one creator by two owners
make "the pairs and creators affected by a rollback" a real distinction.

One action per await: entry without (`ingestLedger`) or with a mismatch
(`ingestLedgerReorg`), one iteration of the walk (`findForkPoint`), the rollback
transaction, header and events of each re-ingested ledger, the three writes of
each event, the cursor, and the recording transaction. `crash` covers a killed
process and a call that throws; the worker then resumes from the newest
checkpoint (`getResumePoint`) or from `IndexedLedger` as the documentation
describes, depending on the constant `ResumeFrom`. `CloseLedger` and `Reorg` are
the network's. A transaction appears at most once on the canonical chain.

A trade that misses one of the seven required fields (`Incomplete`) is passed over
with a warning and recorded with the rest of its ledger (`skipIncomplete`,
`recordLedgerIngestion`): CONFIRMED promises nothing for it, and
`ConfirmedHasEffects` says so in both directions. A trade whose time cannot be
parsed throws on every delivery; it stops the worker at its ledger, so it never
gets an effect or a status, and is an event of `EventProjections`, not of `Tx`.
`MayInclude` bounds which trades the new ledgers of a branch may carry.

Abstractions to keep in mind: hashes are always present; the source of
canonical headers is configured; events of a ledger are processed in any order;
price snapshots, price history and holding snapshots are not modelled.

### CircuitBreaker

A step ends at an await, as in Node. Time is the flag `elapsed`; the rolling
window may lose any number of its oldest events before a record. The failure
count saturates at the threshold, beyond which the code no longer tells values
apart. Clients are of two kinds, those that use `execute` and those that use
`checkState`/`isOpen` with explicit records; `clientEvent` is the Redis client's
'ready' and 'error'. Recovery probes may overlap, `MaxProbes` of them.

### ContractSubmission

`row` is the status of `ContractTransaction` with its error kind; `pc` follows a
call through submission, tracking, polling, depth gate and resolution. The
network queues an envelope or not whatever the answer was, includes it as
applied or failed, and may replace ledgers less than `Depth` deep. A poll that
finds nothing is a stutter; deadlines are actions that may fire at any time. An
answer may lack the ledger of the transaction; the poller then takes the head of
the chain instead (`seen`), which can only delay the depth gate.
Failed writes and crashes share the budget `MaxFault`.

### Idempotency

`entry` is the Redis value, `dels` the fire-and-forget deletions under way (a
connection's commands are served in order, so a request's DEL precedes its later
SET). A handler commits or fails; `handlerFailsLate` is a commit that was
reported as a failure. Faults are counted and their kinds remembered in
`happened`, so that each property says which faults it tolerates.

### EventProjections and OrderedDelivery

The chain's events are a log, positions in it stand for (ledger, event index).
A worker takes the events after the cursor up to some point (`Fetch`) and handles
them in the order the code dispatches them: family by family (`Dispatch`, in the
order of the calls in `processIndexerEvents`), in chain order within a family
(`Before`). One action per handler and statement; statements of one transaction
are one action when the transaction begins with the insert of the unique event
row, which then serialises it. Handlers that share a shape share an operator:
`InsertOnce` (a row of its own, duplicates skipped), `LogAndFold` (log row and
running total in one transaction), `NewestWinsSteps` (updateMany, create, retry),
`CreateObject`/`EndObject`. What a handler does with an event it cannot parse is
the table `Strict`/`ToDLQ`; four families (`Dated`) warn of a missing field but throw
on a time they cannot read (`garbled`). An auction or a curve update remembers only
the last event that ended it (`EndedBy`), so another one, also a replayed one, ends
it again; a poll is closed once. `stored` holds the events with a row of their own,
`view` one read-model row per key, `claim` and `seen` the links of distributions,
`cache` whether the Redis entry still agrees with the row. Faults are a crash or
throw at any step, a failed cache deletion and a lost cursor write.

Within a family events are handled for the first time in chain order because a
batch starts right after the cursor and the cursor only passes handled events.
That, and that the cursor never passes an unhandled event, is the abstract
specification `OrderedDelivery`; `DeliverySpec` maps handled events to those
applied, queued as dead letters or (social metadata) logged, and the mark to
`IndexedLedger`. The mark may move back: a slow worker overwrites it.

Governance events are dispatched by the same function and modelled in
`Governance`; trades enter here only as "in the balances or not", since
`ReorgGuard` and `KeyPositions` have their details.

### Governance

A vote is an attempt: checks outside the transaction, the transaction's read,
and its commit with the unique vote row; the attempts of `SnapshotVotes`,
`HolderVotes` and `ChainVotes` follow the three code paths and differ in what they
check and re-check. The tally is written as an absolute value computed from the
read. `cast` is the weight that transactions folded in (history), against which
the stored tally is compared. The sweep reads and writes in two steps and runs in
two places (the job and, in the model, a second process). Delegated balances are
part of a holder's weight (`HolderWeights`). Time is a counter.

### KeyPositions, Multisig, AutoInvest, ExportJobs, MerkleLog, Services

The five share no table and do not call one another. `Services` puts them into
one specification in which each behaviour belongs to one service (`focus`); their
product would only multiply unrelated interleavings.

- `KeyPositions`: seven possible operations on two holders, one action per await.
  Sells and buybacks read first and write absolute values at the end, the
  indexer's sale reads, writes and may fall back to a decrement, purchases and
  payments increment. `earned` is what the holder should have; `busyTwice` and
  `crowded` remember which operations overlapped.
- `Multisig`: a request reads the proposal with its signatures and writes later.
- `AutoInvest`: the purchase is external and may go through although it reports an
  error.
- `ExportJobs`: the promise chain as a queue and the job at work. The check for
  PENDING at the start of a job is left out of the action: `ExportsKept` shows that
  it never turns a job away (theorem `ExportsSafe`).
- `MerkleLog`: hashes are terms (`<<e>>`, `<<a, b>>`), so that equal roots mean equal
  trees. One action per stored node. `attested` keeps the roots and counts the calls
  that attested them. One close runs at a time: `closePartition` is an operator's
  request, and two that overlap are not modelled.

## Runs

| Run | States | Shows |
|---|---|---|
| `reorg` | 2.41 M | `ConfirmedHasEffects`, `FaultFreeReadModel`, `VerifiedPrefix`, `CatchesUp` with 3 ledgers, 3 trades (one incomplete), 2 reorgs, 1 fault |
| `reorg_replay` | violated | replay after a crash duplicates Activity rows |
| `reorg_cursor_resume` | violated | resuming from `IndexedLedger` passes rolled-back ledgers |
| `breaker` | 25 k | count, slot and recovery with 2+2 clients, threshold 3, window of 4, 2 probes |
| `contract` | 340 k | truth and stability of the row, ownership of PENDING rows, depth and termination with 2 calls of one envelope |
| `contract_depth` | violated | the gate releases a transaction that is no longer on chain |
| `idempotency` | 39 k | executions, answers and release of the key with 3 requests and 2 faults |
| `idempotency_retry` | violated | a disconnect lets the retry execute the trade again |
| `governance` | 412 k | `TallySound`, `PassedHadQuorum`, `AnswerIsRecord`, `TerminalStays`, `DueIsClosed` with two wallets voting by three paths, two sweepers, one extension, one failure |
| `governance_tally` | violated | concurrent votes lose weight from the tally |
| `projections` | 368 k | `ViewMatchesLog`, `NewestWins`, `CacheFollows`, `DistributionsSound`, `IndexerProgresses` and the refinement `DeliverySpec` for two workers over 36 logs of up to four events, one fault |
| `services` | 470 k | `PositionsAddUp`, `ExecutedByThreshold`, `OneBuyPerListing`, `ExportsKept`, `ProofsVerify`, `ExportsEnd` |

Bounds. Three ledgers and two reorgs are enough for a reorg of a reorg, a fork
point at genesis, in the middle and at the parent, and a reorg while a repair is
running; one fault is placed at every step. What `FaultFreeReadModel` says of
positions and supply when a repair was overtaken first fails with four ledgers
and three reorgs (no fault needed), so the property excludes it; the inductive invariants behind the remaining statement were checked with
those bounds before they were proved. A
threshold of three with a window of four lets the count and the rate trip
independently. Two calls are what a race over one row needs, and two attempts
what a retry needs; four ledgers with depth two leave room for a reorg after the
poll. Three requests make a third one meet what two others left behind; two
faults let one undo the handling of the other.

The logs of `projections` are one per question: every event type occurs, a
replaced or superseded event for every newest-wins family, unparsable events of
the throwing, queueing and skipping kind and unparsable times, social events whose
two clocks disagree, reserves deployed before and after they accrue, auctions and
curve updates ended twice, claims that fit one, several or no distribution, and
distributions with trades before and after them; two workers are what an overlap needs and one fault is placed at
every step. In `governance` one wallet votes by two paths and the other by the
third, so that duplicates and lost updates meet. In `services` any three of the
seven operations of `KeyPositions` run in any overlap (a third one meets what two
left behind), five ballots of three admins with threshold two include a double
signature and a rejection, and trees of up to six leaves have every shape of
promotion at three levels; overlapping ingestions stop at three events, where
`ProofsVerify` says nothing more.

Deadlock is checked for the breaker, which never stops. The other systems do
stop: the chain, the clock or the log reach their bounds, calls and requests end.

Fairness. `ReorgGuard`: the worker keeps polling and its requests end (weak
fairness of `Worker`, not of the network or of crashes). `CircuitBreaker`: timers
fire and a probe's request ends (the Soroban and Horizon probes abort after three
seconds, database queries time out, and a Redis client without an offline queue
answers or fails). `ContractSubmission`: each call's own steps, which are all
bounded by attempts and deadlines. `Idempotency`: a request that runs makes
progress, and Redis expires the in-flight marker. `EventProjections`: each
worker keeps polling and its batch goes on (not crashes or faults, which are
bounded). `Governance`: a started vote transaction goes on and the job sweeps at
every interval. `Services`: the export chain runs while its process does; nothing
else is assumed fair.

## What the violated runs mean

Each states a sentence of the repository's documentation or comments and is
violated by what the code does; `PROJECT.json` quotes the sentences.

- Event processing is not idempotent across a crash, since Activity rows are
  created without a key and outside the transaction that records the ledger.
- The cursor is not moved back by a rollback. With the checkpoint as resume
  point the same property holds in the state space of run `reorg`.
- The depth gate compares ledger numbers and ignores the status in the answer
  it reads, so it does not notice that the transaction was reorganised away.
- The 'close' listener frees the key while the handler is still running.
- Tally and vote row commit together, but the tally is computed from a read that
  another vote's transaction has overtaken, so they diverge all the same.

Other properties are stated with the faults, overlaps or inputs the code does
not withstand excluded. They do not catch the excluded case going wrong; what they
show is that nothing else goes wrong. The hazards in `PROJECT.json` give the lines.

- `VerifiedPrefix` and the second half of `FaultFreeReadModel`: a reorg during a
  repair.
- `PendingHasOwner`: a crash or a failed update. Nothing resumes the polling of the
  row.
- `PositionsAddUp`: overlapping operations of one holder, failed statements, API
  sells mixed with the indexer's supply recount. It shows the arithmetic of each
  path and that operations of one holder never touch another.
- `ExecutedByThreshold`: overlapping signers leave a proposal pending or both
  executed and rejected.
- `ProofsVerify`: overlapping ingestions. For attestations it says that a second one
  takes a failure: when the contract call went through and its answer or the row's
  update is lost, the retry attests the root again, although the comment in
  `events.service.ts` (lines 318-320) promises that no second one is submitted.
- `ViewMatchesLog`: reserves whose events are out of order (`Backed`). A deployment
  before the first accrual creates the reserve with balance 0, so that it drifts from
  its log for good, although the header of `reserve-indexer.service.ts` (lines 11-12)
  says it "can never drift"; and one that exceeds the balance drives it below zero,
  although the comment at lines 206-207 promises "Floor at zero": line 208 is a plain
  decrement. The model follows the code in both.
- `NewestWins` for social metadata: a crash or an overlap between log row and snapshot.
  Also, the snapshot has two clocks. An event of a later ledger with an older
  `socialUpdatedAt` is skipped, and one without `socialUpdatedAt` goes by its ledger
  alone, so "newest" means: of the events behind the cursor it holds none that
  another beats by both clocks, and what it does not hold is older by
  `socialUpdatedAt`.
- `CacheFollows`: auctions and curve updates ended by several events (`EndsAgain`).
  Their replay is not without effect: each event is written again, and a crash
  between such a write and the cache drop, with the cursor already past both,
  leaves an answer that only its TTL removes.
- `DistributionsSound`: later trades. A dividend is split over the balances found in
  the database, and the trades of a batch are handled before its dividends, so
  trades after the distribution in the same batch enter the split as well, although
  `dividend-indexer.service.ts` (line 66) says "at distribution time".
- `IndexerProgresses`: events every delivery of which throws (`Poison`): unparsable ones
  of the throwing families, those that refer to an object that does not exist, and
  revenue claims that no single distribution can take, because several match or
  none has enough left.
- `ExportsEnd`: a restart. `ExportsKept` (no job is lost otherwise, and none taken
  back) is the part of it that is proved.

The case excluded from `FaultFreeReadModel` is a flaw of the rollback, not of the
model: it rebuilds the positions of the CONFIRMED `IngestedEvent` rows above the
fork point. When the chain is reorganised again during a repair, a trade can be
ingested at two ledgers while it has one such row; once that row is REORGED, the
rollback that deletes the trade's other Activity row leaves its position alone.
TLC finds this with one trade, four ledgers and three reorgs when the exclusion
is dropped.

## Proofs

Each proof module defines an inductive invariant, shows that the initial states
satisfy it and that every step preserves it, and derives the theorems; TLC
checked every invariant on the runs' instances first. Assumptions are those of
the modules' `ASSUME`s, except where a theorem of `ReorgGuardProofs` states one of
its own. The `ASSUME`s say what the code takes for granted: bounds are numbers,
sets of wallets and signers are finite, weights are not negative, rows of `EventProjections` belong to one table
each (`SameTable`), an order has one buyer (`KeyPositions`).

- `CircuitBreakerProofs`: the invariants together are inductive.
  `ClosedBelowThreshold` needs `OpenHasRecovery` and the types.
- `IdempotencyProofs`: the strengthening is that a running handler owns the
  marker while nothing has given it away (`RunnerOwnsKey`), and that a commit is
  either still running or visible as the resolved entry (`CommitOwnsKey`).
- `ContractSubmissionProofs`: in addition to the invariants, no queued
  transaction is included and no included one lies above the head (`NetworkSound`), a
  call in `submit` has attempts left, and what a call
  has seen on chain still holds, at that ledger or below it, unless a reorg dropped it
  (`PollStillHolds`).
- `ReorgGuardProofs` has four layers.
  - `IInv` follows one call: which of its events already have their Activity row,
    their position and their supply (`ProcessedHold`), and where its ledger numbers
    may be (`Positions`). `ConfirmedHasEffects` is then preserved by a rollback
    because CONFIRMED events at or below the fork point keep their rows and pairs
    are rebuilt from them, and by the recording transaction because all events of
    its ledger are processed.
  - `LinkInv`: the stored checkpoints are the history of one hash, with no gap
    (`StackOf`); a call that repairs follows a header that is still canonical, since
    a reorg would set `raced`. `VerifiedPrefix` follows. It needs
    `ResumeFrom = "checkpoint"` (run `reorg_cursor_resume` shows why) and
    `[]ForkInWindow`: whenever the walk runs, its window holds a checkpoint that the
    incoming chain does not contradict, or all checkpoints. A deeper fork leaves
    abandoned ledgers below the window, which the code accepts on purpose ("Stellar
    reorgs are short"). The hypothesis bounds the forks, not the chain: the theorem
    holds for chains of any length, and for those no longer than the walk it needs
    no hypothesis (`ShortChainIsVerified`). With a walk of one checkpoint TLC finds
    both a violation without `ForkInWindow` and none with it, among states whose
    window is not the whole table.
  - `FreshInv` and `HistoryInv`: a hash that left the chain never comes back, because
    every ledger closed since the last reorg is of a new branch (`Fresh`); so a
    canonical checkpoint was canonical when its events were fetched, and its rows are
    written once (`HistoryIsCanonical`, for any window and during repairs too).
  - `RowsInv`: every stored ledger's trades have their `IngestedEvent` row at that
    ledger, so a trade that a rollback does not select has no row above the fork
    point and what the rollback does not rebuild needs no rebuilding. This is the
    part that fails when a repair is overtaken. With `HistoryInv` it gives
    `FaultFreeReadModel`, again under `[]ForkInWindow`.
- `GovernanceProofs`: every tally, stored or read, is at most what committed
  transactions cast, its options add up, and what was cast is at most the sum of
  the weights on the vote rows (`TalliesSound`); an attempt that committed finds its
  own row on record (`VotesKept`). An outcome that is written, or about to be, had
  its quorum when it was evaluated (`OutcomesQuorate`), hence `PassedHadQuorum`.
  `AnswerIsRecord` and the action property `TerminalStays` use the same invariant.
- `EventProjectionsProofs`: the two dozen handlers are first reduced to a dozen
  shapes of step (`HandlerCases`: what is inserted, folded, skipped, queued, dropped
  from the cache). `CoreInv` (a worker's list is what is left of a batch that begins
  after the cursor, in family order; everything it is done with is covered;
  handling twice is handling once) gives the refinement of `OrderedDelivery`, step
  by step. On top of it one invariant per family of read models: running totals,
  reserves and bids (`ViewInv`), newest-wins rows and the social snapshot
  (`SocialInv`: with one batch at a time and no fault, the snapshot was last written
  from an event before the one being handled, so only `socialUpdatedAt` can make that
  one stale, and every event that has its log row is heeded or is being handled), caches (`CacheInv`), splits over balances (`SplitInv`) and booked
  claims (`ClaimInv`).
- `ServicesProofs`: a step of `Services` is a step of one service (`ServiceSteps`), so
  each has its own invariant. `MultisigInv`: what a request has read is part of what
  is stored, so it can only undercount. `InvestInv`: at most one evaluation holds the
  claim on a listing. `PositionsInv`: a holder whose operations did not overlap has
  the balance earned so far less what the operation in progress still has to write
  (`Due`), and the supply is the sum of the balances where only one kind of writer
  was at work (`SupplyIsSum`). `JobsInv`: the chain holds a job once and not the one
  at work, whose status follows its stage (`ChainOrdered`), and `ExportsKept`, the part
  of `ExportsEnd` that needs no fairness, holds with it.
  `MerkleInv`, for every number of leaves: undisturbed, the stored rows are the tree
  of the leaves, that is the leaves (`LeavesStored`), every node left of the path
  from the last leaf to the root (`LeftOfPath`), and that path up to the level the
  ingestion in progress has written (`PathUpTo`). Appending a leaf keeps the first
  two because the nodes it changes are all on the new last path (`GrowLeaf`,
  `GrowPath`). From the rows alone the rehash (`RehashIsRoot`) and the climb of a
  verifier (`ClimbIsRoot`) are the root: both are recursive functions whose value at
  every level is known from the rows, so the function of those values satisfies the
  defining equation, and the least level at which another solution differs gives a
  contradiction. Powers of two, which the SMT backend does not interpret, are the
  numbers of subsets of finite sets (`PowerOfTwo`). The five invariants together give
  `TypeOK`.
- `SetSums`: the sums over finite sets that the last three use. The community
  modules' sum is a recursive function that picks elements in an unknown order;
  what the invariants need of it (the empty sum, one element more, one value
  changed, monotonicity) is proved from its definition by taking the least
  counterexample, since the induction theorems cannot be instantiated.

Only model-checked: liveness (`CatchesUp`, `Recovers`, `CallTerminates`,
`KeyReleased`, `DueIsClosed`, `IndexerProgresses`, `ExportsEnd`), which needs
fairness. Every invariant and every action property of the passing runs, and the
refinement, are theorems.

## Plan

1. The hazards of `PROJECT.json` that no property covers yet: nonce consumption,
   webhook deliveries, dividend claims without a snapshot reference, and the
   rollback's omission of swaps, bundles and discount tiers.
2. The parts listed below that keep state of their own, webhooks and atomic swaps
   first.

## Not modelled

- Outgoing webhooks, nonces, the job lock, swaps, bundles and discount tiers:
  small protocols beside the modelled ones; `PROJECT.json` lists their hazards.
- The creator sequencer and its Redis lock: nothing in the server calls them.
- Vesting, staking, flash-loan guard, alerts, notifications, referrals,
  campaigns, followers: one-row writes that mirror a contract or a request.
- Routes, validation, search, portfolio, leaderboards, statistics, formatting,
  authentication: by far most of the code by lines. They read and format, keep
  no state between requests other than caches with a TTL, and offer nothing for
  a model checker to find that a unit test would not.
- The database, Redis, Horizon and the Stellar network, which appear as
  environments; cost basis, prices, fees and rounding.
