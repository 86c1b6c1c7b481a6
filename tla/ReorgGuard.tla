----------------------------- MODULE ReorgGuard -----------------------------
(***************************************************************************)
(* Reorg-aware ledger ingestion:                                           *)
(*   src/src/modules/indexer/reorg-guard.service.ts   ingestLedger & co.   *)
(*   src/src/modules/indexer/indexer-pipeline.service.ts                   *)
(*                                              processTradeEvents         *)
(* The Stellar chain and the polling worker that calls ingestLedger live   *)
(* outside the repository; they are the environment of this module.        *)
(*                                                                         *)
(* A ledger hash commits to the whole history below it, so the hash of     *)
(* ledger n is the chain's prefix of length n; two hashes are equal iff    *)
(* the histories are.  A trade is a model value; ownership[t][n] counts    *)
(* how often trade t, seen at ledger n, is folded into the KeyOwnership    *)
(* row of its (owner, creator) pair, and supply[t][n] how often the last   *)
(* recomputation of its creator's circulatingSupply counted it.            *)
(***************************************************************************)
EXTENDS Integers, Sequences, FiniteSets

CONSTANTS
  Tx,          \* trade events, each the only event of its transaction
  OwnerOf,     \* [Tx -> wallets]
  CreatorOf,   \* [Tx -> creators]
  Incomplete,  \* the trade events that miss a field the pipeline requires
  MaxLedger,   \* bound: ledgers the chain may close
  MaxPerLedger,\* bound: trades in one ledger
  MayInclude,  \* bound: per branch, the trades its new ledgers may include
  MaxReorg,    \* bound: reorganisations of the chain
  MaxCrash,    \* bound: crashes, failed calls and lost cursor writes
  MaxWalk,     \* MAX_FORK_WALKBACK_LEDGERS
  ResumeFrom   \* what a restarted worker reads: "checkpoint" or "cursor"

ASSUME ConstantsAssumption ==
  /\ Incomplete \subseteq Tx
  /\ \A b \in 0..MaxReorg : MayInclude[b] \subseteq Tx
  /\ MaxLedger \in Nat /\ MaxPerLedger \in Nat /\ MaxReorg \in Nat
  /\ MaxCrash \in Nat /\ MaxWalk \in Nat \ {0}
  /\ ResumeFrom \in {"checkpoint", "cursor"}

VARIABLES
  chain,      \* the canonical chain: Seq of [branch, txs]
  branch,     \* number of reorganisations so far
  cp,         \* LedgerCheckpoint: ledger -> ledgerHash, NoHash if no row
  ing,        \* IngestedEvent: trade -> [ledger, status]
  activity,   \* Activity: number of rows per trade and ledger_sequence
  ownership,  \* KeyOwnership, see above
  supply,     \* CreatorProfile.circulatingSupply, see above
  cursor,     \* IndexedLedger.ledger
  pc,         \* where the ingestLedger call in progress is
  hdr,        \* its header argument
  seq,        \* the ledger it walks over, fetches or processes
  cur, evs,   \* header and events of the ledger being (re-)ingested
  todo, ev,   \* events not yet started, event being written
  next,       \* the worker's poll position
  crashes,    \* faults so far
  raced       \* the chain was reorganised under a running repair

db   == <<cp, ing, activity, ownership, supply, cursor>>
call == <<pc, hdr, seq, cur, evs, todo, ev>>
env  == <<chain, branch, raced>>
vars == <<chain, branch, cp, ing, activity, ownership, supply, cursor,
          pc, hdr, seq, cur, evs, todo, ev, next, crashes, raced>>

Ledgers == 1..MaxLedger
NoHash  == << >>
Block   == [branch : 0..MaxReorg, txs : SUBSET Tx]
Hash    == Seq(Block)

Prefix(n) == SubSeq(chain, 1, n)
Parent(h) == SubSeq(h, 1, Len(h) - 1)
Included  == UNION {chain[i].txs : i \in 1..Len(chain)}

\* n is the newest (oldest) ledger of S.
NewestOf(S, n) == n \in S /\ \A m \in S : m <= n
OldestOf(S, n) == n \in S /\ \A m \in S : n <= m

\* The position row a trade is folded into.
PairOf(t) == <<OwnerOf[t], CreatorOf[t]>>

TypeOK ==
  /\ chain \in Hash /\ Len(chain) <= MaxLedger
  /\ branch \in 0..MaxReorg
  /\ cp \in [Ledgers -> Hash]
  /\ ing \in [Tx -> [ledger : 0..MaxLedger,
                     status : {"none", "CONFIRMED", "REORGED"}]]
  /\ activity \in [Tx -> [Ledgers -> Nat]]
  /\ ownership \in [Tx -> [Ledgers -> Nat]]
  /\ supply \in [Tx -> [Ledgers -> Nat]]
  /\ cursor \in 0..MaxLedger
  /\ pc \in {"idle", "walk", "rollback", "header", "events", "process",
             "ownership", "supply", "record"}
  /\ hdr \in Hash /\ Len(hdr) <= MaxLedger
  /\ seq \in 0..MaxLedger
  /\ cur \in Hash
  /\ evs \in SUBSET Tx /\ todo \in SUBSET evs
  /\ ev \in SUBSET evs
  /\ next \in 1..(MaxLedger + 1)
  /\ crashes \in 0..MaxCrash
  /\ raced \in BOOLEAN

Init ==
  /\ chain = << >> /\ branch = 0
  /\ cp = [n \in Ledgers |-> NoHash]
  /\ ing = [t \in Tx |-> [ledger |-> 0, status |-> "none"]]
  /\ activity  = [t \in Tx |-> [n \in Ledgers |-> 0]]
  /\ ownership = activity
  /\ supply    = activity
  /\ cursor = 0
  /\ pc = "idle" /\ hdr = NoHash /\ seq = 0
  /\ cur = NoHash /\ evs = {} /\ todo = {} /\ ev = {}
  /\ next = 1
  /\ crashes = 0
  /\ raced = FALSE

-----------------------------------------------------------------------------
(* Environment: the network closes ledgers and, rarely, abandons a suffix. *)

CloseLedger ==
  /\ Len(chain) < MaxLedger
  /\ \E S \in SUBSET (MayInclude[branch] \ Included) :
       /\ Cardinality(S) <= MaxPerLedger
       /\ chain' = Append(chain, [branch |-> branch, txs |-> S])
  /\ UNCHANGED <<branch, raced, db, call, next, crashes>>

\* A call is between its walk and the last re-ingested ledger.
Repairing ==
  \/ pc \in {"walk", "rollback", "header", "events"}
  \/ pc # "idle" /\ seq < Len(hdr)

Reorg ==
  /\ branch < MaxReorg
  /\ \E n \in 0..(Len(chain) - 1) : chain' = Prefix(n)
  /\ branch' = branch + 1
  /\ raced' = (raced \/ Repairing)
  /\ UNCHANGED <<db, call, next, crashes>>

-----------------------------------------------------------------------------
(* ingestLedger *)

\* Mutant: the parent hash is not compared.
NoParentCheck(h) == FALSE /\ Len(h) > 1

\* The header names a parent other than the one stored for its sequence.
ParentMismatch(h) ==
  /\ Len(h) > 1
  /\ cp[Len(h) - 1] # NoHash
  /\ cp[Len(h) - 1] # Parent(h)

\* Entry: the parent agrees, or nothing is stored to compare it with.
ingestLedger ==
  /\ pc = "idle" /\ next <= Len(chain)
  /\ ~ ParentMismatch(Prefix(next))
  /\ hdr' = Prefix(next) /\ cur' = Prefix(next) /\ seq' = next
  /\ evs' = chain[next].txs /\ todo' = chain[next].txs
  /\ pc' = "process"
  /\ UNCHANGED <<env, db, ev, next, crashes>>

\* Entry: reorg detected, start the walk at the stored parent.
ingestLedgerReorg ==
  /\ pc = "idle" /\ next <= Len(chain)
  /\ ParentMismatch(Prefix(next))
  /\ hdr' = Prefix(next) /\ seq' = next - 1
  /\ pc' = "walk"
  /\ UNCHANGED <<env, db, cur, evs, todo, ev, next, crashes>>

\* The stored checkpoints findForkPoint loads, newest first, MaxWalk of them.
Stored == {n \in Ledgers : n < Len(hdr) /\ cp[n] # NoHash}
Window == {n \in Stored : Cardinality({m \in Stored : m >= n}) <= MaxWalk}

\* What the incoming chain says about ledger s: hdr names its own parent,
\* older hashes are fetched now (NoHash: the source has no such ledger).
IncomingHash(s) ==
  IF s = Len(hdr) - 1 THEN Parent(hdr)
  ELSE IF s <= Len(chain) THEN Prefix(s) ELSE NoHash

\* One iteration of findForkPoint's loop; seq ends as the fork point.
findForkPoint ==
  /\ pc = "walk"
  /\ LET older == {n \in Window : n < seq} IN
     \/ /\ IncomingHash(seq) \in {NoHash, cp[seq]}
        /\ pc' = "rollback" /\ seq' = seq
     \/ /\ IncomingHash(seq) \notin {NoHash, cp[seq]}
        /\ pc' = "walk" /\ \E n \in older : NewestOf(older, n) /\ seq' = n
     \/ /\ IncomingHash(seq) \notin {NoHash, cp[seq]} /\ older = {}
        /\ pc' = "rollback"
        /\ \E oldest \in Window :
             OldestOf(Window, oldest) /\ seq' = oldest - 1
  /\ UNCHANGED <<env, db, hdr, cur, evs, todo, ev, next, crashes>>

\* Mutant: gte for gt, the fork point's own rows are deleted too.
SurvivingBelow(f) ==
  [t \in Tx |-> [n \in Ledgers |-> IF n >= f THEN 0 ELSE activity[t][n]]]

\* Activity rows that survive a rollback to ledger f.
Surviving(f) ==
  [t \in Tx |-> [n \in Ledgers |-> IF n > f THEN 0 ELSE activity[t][n]]]

\* Mutant: the first ledger after the fork point is forgotten.
ReorgedEventsLate(f) ==
  {t \in Tx : ing[t].ledger > f + 1 /\ ing[t].status = "CONFIRMED"}

\* The events rollbackToLedger selects.
ReorgedEvents(f) ==
  {t \in Tx : ing[t].ledger > f /\ ing[t].status = "CONFIRMED"}

\* rollbackToLedger's transaction, with seq the fork point.
rollbackToLedger ==
  /\ pc = "rollback"
  /\ LET bad   == ReorgedEvents(seq)
         pairs == {PairOf(t) : t \in bad}
         keys  == {CreatorOf[t] : t \in bad}
     IN /\ ing' = [t \in Tx |-> IF t \in bad
                                THEN [ing[t] EXCEPT !.status = "REORGED"]
                                ELSE ing[t]]
        /\ activity' = Surviving(seq)
        /\ ownership' = [t \in Tx |-> IF PairOf(t) \in pairs
                                      THEN Surviving(seq)[t] ELSE ownership[t]]
        /\ supply' = [t \in Tx |-> IF CreatorOf[t] \in keys
                                   THEN Surviving(seq)[t] ELSE supply[t]]
  /\ cp' = [n \in Ledgers |-> IF n > seq THEN NoHash ELSE cp[n]]
  /\ pc' = "header" /\ seq' = seq + 1
  /\ UNCHANGED <<env, cursor, hdr, cur, evs, todo, ev, next, crashes>>

\* Re-ingestion loop: fetch the canonical header of ledger seq.
fetchHeader ==
  /\ pc = "header" /\ seq < Len(hdr) /\ seq <= Len(chain)
  /\ cur' = Prefix(seq)
  /\ pc' = "events"
  /\ UNCHANGED <<env, db, hdr, seq, evs, todo, ev, next, crashes>>

\* Mutant: the pipeline gets the fetched events, the record the old ones.
StaleEvents ==
  /\ pc = "events"
  /\ todo' = IF seq <= Len(chain) THEN chain[seq].txs ELSE {}
  /\ pc' = "process"
  /\ UNCHANGED <<env, db, hdr, seq, cur, evs, ev, next, crashes>>

\* ... and, in a later request, its events (none if it is gone by then).
fetchEvents ==
  /\ pc = "events"
  /\ evs' = IF seq <= Len(chain) THEN chain[seq].txs ELSE {}
  /\ todo' = evs'
  /\ pc' = "process"
  /\ UNCHANGED <<env, db, hdr, seq, cur, ev, next, crashes>>

\* Mutant: no break on a missing header.
LoopWithoutBreak ==
  /\ pc = "header" /\ seq = Len(hdr)
  /\ cur' = hdr /\ seq' = Len(hdr)
  /\ evs' = hdr[Len(hdr)].txs /\ todo' = hdr[Len(hdr)].txs
  /\ pc' = "process"
  /\ UNCHANGED <<env, db, hdr, ev, next, crashes>>

\* The loop ends, or breaks because a canonical header is missing: the
\* incoming ledger itself is ingested.  Its events came with the call.
endReingest ==
  /\ pc = "header" /\ (seq = Len(hdr) \/ seq > Len(chain))
  /\ cur' = hdr /\ seq' = Len(hdr)
  /\ evs' = hdr[Len(hdr)].txs /\ todo' = hdr[Len(hdr)].txs
  /\ pc' = "process"
  /\ UNCHANGED <<env, db, hdr, ev, next, crashes>>

-----------------------------------------------------------------------------
(* processTradeEvents: one event after the other, no enclosing transaction. *)

Bump(f, t, n) == [f EXCEPT ![t][n] = @ + 1]

\* A trade without one of the required fields is logged and passed over; it
\* stays in evs and is recorded with the ledger's other events.
skipIncomplete ==
  /\ pc = "process"
  /\ \E t \in todo \cap Incomplete : todo' = todo \ {t}
  /\ UNCHANGED <<env, db, pc, hdr, seq, cur, evs, ev, next, crashes>>

\* prisma.activity.create
createActivity ==
  /\ pc = "process"
  /\ \E t \in todo \ Incomplete :
       /\ activity' = Bump(activity, t, seq)
       /\ todo' = todo \ {t} /\ ev' = {t}
  /\ pc' = "ownership"
  /\ UNCHANGED <<env, cp, ing, ownership, supply, cursor,
                 hdr, seq, cur, evs, next, crashes>>

\* recordKeyPurchase / recordKeySale (or updateOwnership when it throws)
recordKeyTrade ==
  /\ pc = "ownership"
  /\ \E t \in ev : ownership' = Bump(ownership, t, seq)
  /\ pc' = "supply"
  /\ UNCHANGED <<env, cp, ing, activity, supply, cursor,
                 hdr, seq, cur, evs, todo, ev, next, crashes>>

\* persistCirculatingSupply: recount the creator's Activity rows
persistCirculatingSupply ==
  /\ pc = "supply"
  /\ \E t \in ev :
       supply' = [u \in Tx |-> IF CreatorOf[u] = CreatorOf[t]
                               THEN activity[u] ELSE supply[u]]
  /\ pc' = "process" /\ ev' = {}
  /\ UNCHANGED <<env, cp, ing, activity, ownership, cursor,
                 hdr, seq, cur, evs, todo, next, crashes>>

\* advanceIndexerCursorForBatch: no write when no event carries a ledger (an
\* incomplete trade may be missing just that); updateIndexedLedger swallows a
\* failed write.
advanceIndexerCursor ==
  /\ pc = "process" /\ todo = {}
  /\ \/ evs \subseteq Incomplete /\ UNCHANGED <<cursor, crashes>>
     \/ evs # {} /\ cursor' = seq /\ UNCHANGED crashes
     \/ /\ evs # {} /\ crashes < MaxCrash
        /\ crashes' = crashes + 1 /\ UNCHANGED cursor
  /\ pc' = "record"
  /\ UNCHANGED <<env, cp, ing, activity, ownership, supply,
                 hdr, seq, cur, evs, todo, ev, next>>

\* recordLedgerIngestion's transaction, then the loop or the call goes on.
recordLedgerIngestion ==
  /\ pc = "record"
  /\ ing' = [t \in Tx |-> IF t \in evs
                          THEN [ledger |-> seq, status |-> "CONFIRMED"]
                          ELSE ing[t]]
  /\ cp' = [cp EXCEPT ![seq] = cur]
  /\ IF seq < Len(hdr)
     THEN pc' = "header" /\ seq' = seq + 1 /\ UNCHANGED next
     ELSE pc' = "idle" /\ next' = seq + 1 /\ UNCHANGED seq
  /\ UNCHANGED <<env, activity, ownership, supply, cursor,
                 hdr, cur, evs, todo, ev, crashes>>

-----------------------------------------------------------------------------
(* The process dies or the call throws; the worker resumes. *)

\* getResumePoint: one past the newest checkpoint, or the first ledger.
getResumePoint(n) ==
  NewestOf({0} \cup {m \in Ledgers : cp[m] # NoHash}, n - 1)

crash ==
  /\ crashes < MaxCrash /\ pc # "idle"
  /\ crashes' = crashes + 1
  /\ pc' = "idle"
  /\ \/ ResumeFrom = "cursor" /\ next' = cursor + 1
     \/ /\ ResumeFrom = "checkpoint"
        /\ \E n \in 1..(MaxLedger + 1) : getResumePoint(n) /\ next' = n
  /\ evs' = {} /\ todo' = {} /\ ev' = {}
  /\ hdr' = NoHash /\ cur' = NoHash /\ seq' = 0
  /\ UNCHANGED <<env, db>>

Worker ==
  \/ ingestLedger \/ ingestLedgerReorg
  \/ findForkPoint \/ rollbackToLedger
  \/ fetchHeader \/ fetchEvents \/ endReingest
  \/ skipIncomplete \/ createActivity \/ recordKeyTrade \/ persistCirculatingSupply
  \/ advanceIndexerCursor \/ recordLedgerIngestion

Next == CloseLedger \/ Reorg \/ Worker \/ crash

Spec == Init /\ [][Next]_vars /\ WF_vars(Worker)

-----------------------------------------------------------------------------
(* Properties *)

\* The stored checkpoint of ledger n is the canonical one.
Canonical(n) == n <= Len(chain) /\ cp[n] = Prefix(n)

\* CONFIRMED does not tell a skipped trade from a processed one: for a trade
\* with every required field it is never a promise without effects (the trade
\* is in the transaction history, in its owner's position and in its creator's
\* supply, whatever crashed, was rolled back or re-ingested), and a trade that
\* misses one is in none of them at any ledger, confirmed or not.
ConfirmedHasEffects ==
  \A t \in Tx :
    /\ (ing[t].status = "CONFIRMED" /\ t \notin Incomplete) =>
         /\ activity[t][ing[t].ledger] >= 1
         /\ ownership[t][ing[t].ledger] >= 1
         /\ supply[t][ing[t].ledger] >= 1
    /\ t \in Incomplete =>
         \A n \in Ledgers :
           activity[t][n] + ownership[t][n] + supply[t][n] = 0

Count(b) == IF b THEN 1 ELSE 0

\* Without a fault, the transaction history holds each complete trade of a
\* canonical ledger exactly once, and nothing of a ledger that was rolled back, however
\* the chain was reorganised between (or during) calls; positions and supply
\* agree with it, unless the chain was reorganised again during a repair.
FaultFreeReadModel ==
  (crashes = 0 /\ pc = "idle") =>
    /\ \A n \in Ledgers, t \in Tx :
         /\ Canonical(n) => activity[t][n] = Count(t \in chain[n].txs \ Incomplete)
         /\ cp[n] = NoHash => activity[t][n] = 0
    /\ ~ raced => ownership = activity /\ supply = activity

\* The parent check of the next call is enough: if it would pass, every
\* ledger below the poll position is ingested from the canonical chain.
\* (Unless the chain was reorganised again while a call was repairing it:
\* the re-ingestion loop does not check that the headers it fetches link.)
VerifiedPrefix ==
  (pc = "idle" /\ next > 1 /\ ~ raced) =>
    /\ cp[next - 1] # NoHash
    /\ Canonical(next - 1) => \A n \in 1..(next - 1) : Canonical(n)

\* Replaying a ledger after a failure creates no duplicate rows
\* (docs/indexer/CONTRIBUTOR_EXPECTATIONS.md).
NoDuplicateRows == \A t \in Tx, n \in Ledgers : activity[t][n] <= 1

\* A ledger that rollbackToLedger emptied is ingested again before the worker
\* passes it: "No events are missed" (docs/indexer/RECOVERY.md) when it resumes
\* from IndexedLedger, "Highest fully-processed ledger" (PIPELINE_REFERENCE.md).
RolledBackIsReingested ==
  (pc = "idle" /\ ~ raced) =>
    \A n \in 1..(next - 1) :
      (/\ n <= Len(chain) /\ cp[n] = NoHash
       /\ \E u \in Tx : ing[u] = [ledger |-> n, status |-> "REORGED"])
      => \A t \in chain[n].txs \ Incomplete : activity[t][n] >= 1

\* Detection, walk, rollback and re-ingestion always end: the worker keeps
\* reaching the head of the chain.
CatchesUp == []<>(pc = "idle" /\ next > Len(chain))
=============================================================================
