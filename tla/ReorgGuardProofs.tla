-------------------------- MODULE ReorgGuardProofs --------------------------
(* Safety of ReorgGuard for every set of trades, owners and creators, any  *)
(* length of chain and any number of reorganisations and crashes.          *)
EXTENDS ReorgGuard, SequenceTheorems, FiniteSetTheorems, TLAPS

\* The three parts of TypeOK.
TypeEnv ==
  /\ chain \in Hash /\ Len(chain) <= MaxLedger
  /\ branch \in 0..MaxReorg
  /\ raced \in BOOLEAN

TypeDb ==
  /\ cp \in [Ledgers -> Hash]
  /\ ing \in [Tx -> [ledger : 0..MaxLedger,
                     status : {"none", "CONFIRMED", "REORGED"}]]
  /\ activity \in [Tx -> [Ledgers -> Nat]]
  /\ ownership \in [Tx -> [Ledgers -> Nat]]
  /\ supply \in [Tx -> [Ledgers -> Nat]]
  /\ cursor \in 0..MaxLedger

TypeCall ==
  /\ pc \in {"idle", "walk", "rollback", "header", "events", "process",
             "ownership", "supply", "record"}
  /\ hdr \in Hash /\ Len(hdr) <= MaxLedger
  /\ seq \in 0..MaxLedger
  /\ cur \in Hash
  /\ evs \in SUBSET Tx /\ todo \in SUBSET evs
  /\ ev \in SUBSET evs
  /\ next \in 1..(MaxLedger + 1)
  /\ crashes \in 0..MaxCrash

\* TypeOK is its three parts.
LEMMA TypeParts == TypeOK <=> TypeEnv /\ TypeDb /\ TypeCall
  BY DEF TypeOK, TypeEnv, TypeDb, TypeCall

\* A ledger's events are being processed.
Working == {"process", "ownership", "supply", "record"}

\* Where a call may be: ledger numbers stay below the incoming header's, an
\* event is in hand only while it is written, only one, and never a skipped one.
Positions ==
  /\ pc \in {"walk", "events"} => seq >= 1 /\ seq < Len(hdr)
  /\ pc = "rollback" => seq < Len(hdr)
  /\ pc = "header" \/ pc \in Working => seq >= 1 /\ seq <= Len(hdr)
  /\ pc \notin {"ownership", "supply"} => ev = {}
  /\ pc = "record" => todo = {}
  /\ \A t, u \in ev : t = u
  /\ ev \cap Incomplete = {}

\* Trade t, seen at ledger n, is in all three read models.
Holds(t, n) == activity[t][n] >= 1 /\ ownership[t][n] >= 1 /\ supply[t][n] >= 1

ConfirmedHolds ==
  \A t \in Tx : ing[t].status = "CONFIRMED" =>
    /\ ing[t].ledger \in Ledgers
    /\ t \notin Incomplete => Holds(t, ing[t].ledger)

\* What the pipeline has done with the events of the ledger in progress.
ProcessedHold ==
  /\ pc \in Working => \A t \in evs \ (todo \cup ev \cup Incomplete) : Holds(t, seq)
  /\ pc \in {"ownership", "supply"} => \A t \in ev : activity[t][seq] >= 1
  /\ pc = "supply" => \A t \in ev : ownership[t][seq] >= 1

IInv == /\ TypeEnv /\ TypeDb /\ TypeCall
        /\ Positions /\ ConfirmedHolds /\ ProcessedHold

-----------------------------------------------------------------------------
(* The operators *)

\* A prefix of the chain is a hash of the length asked for.
LEMMA PrefixType ==
  ASSUME TypeEnv, NEW n \in 0..Len(chain)
  PROVE  Prefix(n) \in Hash /\ Len(Prefix(n)) = n
  BY DEF TypeEnv, Hash, Prefix

\* The trades of a ledger are trades.
LEMMA BlockType ==
  ASSUME NEW h \in Hash, NEW n \in 1..Len(h)
  PROVE  h[n].txs \in SUBSET Tx
<1>1. h[n] \in Block
  BY DEF Hash
<1> QED
  BY <1>1 DEF Block

\* Bump counts one more row and takes none away.
LEMMA BumpCounts ==
  ASSUME NEW f \in [Tx -> [Ledgers -> Nat]], NEW t \in Tx, NEW n \in Ledgers
  PROVE  /\ Bump(f, t, n) \in [Tx -> [Ledgers -> Nat]]
         /\ Bump(f, t, n)[t][n] >= 1
         /\ \A u \in Tx, m \in Ledgers : Bump(f, t, n)[u][m] >= f[u][m]
<1>1. Bump(f, t, n) = [f EXCEPT ![t] = [f[t] EXCEPT ![n] = f[t][n] + 1]]
  BY DEF Bump
<1>2. f[t] \in [Ledgers -> Nat] /\ f[t][n] \in Nat
  OBVIOUS
<1>3. [f[t] EXCEPT ![n] = f[t][n] + 1] \in [Ledgers -> Nat]
  BY <1>2
<1>4. Bump(f, t, n) \in [Tx -> [Ledgers -> Nat]]
  BY <1>1, <1>3
<1>5. Bump(f, t, n)[t][n] >= 1
  BY <1>1, <1>2, <1>3
<1>6. ASSUME NEW u \in Tx, NEW m \in Ledgers
      PROVE  Bump(f, t, n)[u][m] >= f[u][m]
  <2>1. CASE u = t
    BY <1>1, <1>2, <1>3, <2>1
  <2>2. CASE u # t
    BY <1>1, <2>2
  <2> QED
    BY <2>1, <2>2
<1> QED
  BY <1>4, <1>5, <1>6

\* A rollback keeps the rows up to the fork point and drops the others.
LEMMA SurvivingRows ==
  ASSUME TypeDb, NEW f \in 0..MaxLedger
  PROVE  /\ Surviving(f) \in [Tx -> [Ledgers -> Nat]]
         /\ \A t \in Tx, n \in Ledgers : n <= f => Surviving(f)[t][n] = activity[t][n]
<1>1. activity \in [Tx -> [Ledgers -> Nat]]
  BY DEF TypeDb
<1>2. \A t \in Tx : [n \in Ledgers |-> IF n > f THEN 0 ELSE activity[t][n]]
                     \in [Ledgers -> Nat]
  BY <1>1
<1>3. Surviving(f) \in [Tx -> [Ledgers -> Nat]]
  BY <1>2 DEF Surviving
<1>4. ASSUME NEW t \in Tx, NEW n \in Ledgers, n <= f
      PROVE  Surviving(f)[t][n] = activity[t][n]
  <2>1. ~ (n > f)
    BY <1>4, ConstantsAssumption DEF Ledgers
  <2> QED
    BY <2>1 DEF Surviving
<1> QED
  BY <1>3, <1>4

-----------------------------------------------------------------------------
(* The initial state and the steps *)

\* Nothing stored, nothing in progress.
LEMMA InitInv == Init => IInv
<1> SUFFICES ASSUME Init PROVE IInv
  OBVIOUS
<1> USE ConstantsAssumption DEF Init
<1>1. TypeEnv
  <2>1. chain \in Hash /\ Len(chain) <= MaxLedger /\ branch \in 0..MaxReorg
    BY DEF Hash
  <2> QED
    BY <2>1 DEF TypeEnv
<1>2. TypeDb
  BY DEF TypeDb, Hash, NoHash
<1>3. TypeCall
  BY DEF TypeCall, Hash, NoHash
<1>4. Positions /\ ConfirmedHolds /\ ProcessedHold
  BY DEF Positions, ConfirmedHolds, ProcessedHold, Working
<1> QED
  BY <1>1, <1>2, <1>3, <1>4 DEF IInv

\* A new ledger includes trades only.
LEMMA IncludedTrades ==
  ASSUME TypeEnv
  PROVE  SUBSET (MayInclude[branch] \ Included) \subseteq SUBSET (Tx \ Included)
<1>1. MayInclude[branch] \subseteq Tx
  BY ConstantsAssumption DEF TypeEnv
<1> QED
  BY <1>1

\* The chain moves on, or back, under the worker: its own state is untouched.
LEMMA EnvInv == IInv /\ (CloseLedger \/ Reorg) => IInv'
<1> SUFFICES ASSUME IInv, CloseLedger \/ Reorg PROVE IInv'
  OBVIOUS
<1> USE ConstantsAssumption DEF IInv
<1>1. UNCHANGED <<db, call, next, crashes>>
  BY DEF CloseLedger, Reorg
<1>2. TypeEnv'
  <2>1. CASE CloseLedger
    <3>1. PICK S \in SUBSET (Tx \ Included) :
            chain' = Append(chain, [branch |-> branch, txs |-> S])
      BY <2>1, IncludedTrades DEF CloseLedger
    <3>2. [branch |-> branch, txs |-> S] \in Block
      BY DEF Block, TypeEnv
    <3>3. Len(chain) < MaxLedger /\ UNCHANGED <<branch, raced>>
      BY <2>1 DEF CloseLedger
    <3>4. chain' \in Hash /\ Len(chain') = Len(chain) + 1 /\ Len(chain) \in Nat
      BY <3>1, <3>2 DEF TypeEnv, Hash
    <3>5. Len(chain') <= MaxLedger
      BY <3>3, <3>4
    <3> QED
      BY <3>3, <3>4, <3>5 DEF TypeEnv
  <2>2. CASE Reorg
    <3>1. PICK n \in 0..(Len(chain) - 1) : chain' = Prefix(n)
      BY <2>2 DEF Reorg
    <3>2. chain \in Hash /\ Len(chain) \in Nat /\ Len(chain) <= MaxLedger
      BY DEF TypeEnv, Hash
    <3>3. n \in 0..Len(chain)
      BY <3>2
    <3>4. chain' \in Hash /\ Len(chain') = n
      BY <3>1, <3>3, PrefixType
    <3>5. Len(chain') <= MaxLedger
      BY <3>2, <3>3, <3>4
    <3>6. branch' \in 0..MaxReorg
      BY <2>2 DEF Reorg, TypeEnv
    <3>7. raced' \in BOOLEAN
      BY <2>2, Zenon DEF Reorg, TypeEnv
    <3> QED
      BY <3>4, <3>5, <3>6, <3>7 DEF TypeEnv
  <2> QED
    BY <2>1, <2>2
<1>3. TypeDb' /\ TypeCall'
  BY <1>1 DEF db, call, TypeDb, TypeCall
<1>4. Positions'
  BY <1>1 DEF call, Positions
<1>5. ConfirmedHolds' /\ ProcessedHold'
  BY <1>1 DEF db, call, ConfirmedHolds, ProcessedHold, Holds
<1> QED
  BY <1>2, <1>3, <1>4, <1>5

\* Steps of the worker that leave the read models alone and are not yet, or no
\* longer, working on a ledger.
LEMMA ReadModelsKept ==
  ASSUME IInv, UNCHANGED <<ing, activity, ownership, supply>>
  PROVE  ConfirmedHolds'
  BY DEF IInv, ConfirmedHolds, Holds

\* ingestLedger enters the pipeline, or detects a reorg.
LEMMA IngestInv == IInv /\ (ingestLedger \/ ingestLedgerReorg) => IInv'
<1> SUFFICES ASSUME IInv, ingestLedger \/ ingestLedgerReorg PROVE IInv'
  OBVIOUS
<1> USE ConstantsAssumption DEF IInv
<1>1. /\ pc = "idle" /\ next <= Len(chain) /\ hdr' = Prefix(next)
      /\ UNCHANGED <<chain, branch, raced, cp, ing, activity, ownership, supply,
                     cursor, ev, next, crashes>>
  BY DEF ingestLedger, ingestLedgerReorg, env, db
<1>2. /\ next \in 1..Len(chain) /\ next \in 1..MaxLedger
      /\ chain \in Hash
  <2>1. Len(chain) \in Nat /\ Len(chain) <= MaxLedger /\ chain \in Hash
    BY DEF TypeEnv, Hash
  <2>2. next \in 1..(MaxLedger + 1)
    BY DEF TypeCall
  <2> QED
    BY <1>1, <2>1, <2>2
<1>3. hdr' \in Hash /\ Len(hdr') = next
  <2>1. next \in 0..Len(chain)
    BY <1>2
  <2> QED
    BY <1>1, <2>1, PrefixType
<1>4. TypeEnv' /\ TypeDb'
  BY <1>1 DEF TypeEnv, TypeDb
<1>5. ev = {}
  BY <1>1 DEF Positions
<1>6. CASE ingestLedger
  <2>1. /\ cur' = hdr' /\ seq' = next /\ pc' = "process"
        /\ evs' = chain[next].txs /\ todo' = evs'
    BY <1>1, <1>6 DEF ingestLedger
  <2>2. evs' \in SUBSET Tx
    BY <1>2, <2>1, BlockType
  <2>3. Len(hdr') <= MaxLedger /\ seq' \in 0..MaxLedger
    BY <1>2, <1>3, <2>1
  <2>4. TypeCall'
    BY <1>1, <1>3, <1>5, <2>1, <2>2, <2>3 DEF TypeCall
  <2>5. seq' >= 1 /\ seq' <= Len(hdr')
    BY <1>2, <1>3, <2>1
  <2>6. Positions'
    BY <1>1, <1>5, <2>1, <2>5 DEF Positions, Working
  <2>7. ProcessedHold'
    BY <1>1, <1>5, <2>1 DEF ProcessedHold
  <2> QED
    BY <1>1, <1>4, <2>4, <2>6, <2>7, ReadModelsKept
<1>7. CASE ingestLedgerReorg
  <2>1. /\ seq' = next - 1 /\ pc' = "walk" /\ UNCHANGED <<cur, evs, todo>>
        /\ Len(hdr') > 1
    BY <1>1, <1>7 DEF ingestLedgerReorg, ParentMismatch
  <2>2. Len(hdr') <= MaxLedger /\ seq' \in 0..MaxLedger
        /\ seq' >= 1 /\ seq' < Len(hdr')
    BY <1>2, <1>3, <2>1
  <2>3. TypeCall'
    BY <1>1, <1>3, <2>1, <2>2 DEF TypeCall
  <2>4. Positions'
    BY <1>1, <1>5, <2>1, <2>2 DEF Positions, Working
  <2>5. ProcessedHold'
    BY <2>1 DEF ProcessedHold, Working
  <2> QED
    BY <1>1, <1>4, <2>3, <2>4, <2>5, ReadModelsKept
<1> QED
  BY <1>6, <1>7

\* The walk only visits stored ledgers below the incoming one.
LEMMA WalkInv == IInv /\ findForkPoint => IInv'
<1> SUFFICES ASSUME IInv, findForkPoint PROVE IInv'
  OBVIOUS
<1> USE ConstantsAssumption DEF IInv
<1>1. /\ pc = "walk" /\ pc' \in {"walk", "rollback"}
      /\ UNCHANGED <<chain, branch, raced, cp, ing, activity, ownership, supply,
                     cursor, hdr, cur, evs, todo, ev, next, crashes>>
  BY DEF findForkPoint, env, db
<1>2. \A n \in Window : n \in 1..MaxLedger /\ n < Len(hdr)
  BY DEF Window, Stored, Ledgers
<1>3. /\ seq \in 0..MaxLedger /\ seq >= 1 /\ seq < Len(hdr)
      /\ Len(hdr) \in Nat /\ Len(hdr) <= MaxLedger
  BY <1>1 DEF Positions, TypeCall, Hash
<1>4. /\ seq' \in 0..MaxLedger /\ seq' < Len(hdr)
      /\ pc' = "walk" => seq' >= 1
  <2>1. \/ pc' = "rollback" /\ seq' = seq
        \/ pc' = "walk" /\ seq' \in Window
        \/ pc' = "rollback" /\ \E n \in Window : seq' = n - 1
    BY DEF findForkPoint, NewestOf, OldestOf
  <2>2. CASE pc' = "rollback" /\ seq' = seq
    BY <1>3, <2>2
  <2>3. CASE pc' = "walk" /\ seq' \in Window
    BY <1>2, <1>3, <2>3
  <2>4. CASE pc' = "rollback" /\ \E n \in Window : seq' = n - 1
    BY <1>2, <1>3, <2>4
  <2> QED
    BY <2>1, <2>2, <2>3, <2>4
<1>5. TypeEnv' /\ TypeDb'
  BY <1>1 DEF TypeEnv, TypeDb
<1>6. TypeCall'
  BY <1>1, <1>4 DEF TypeCall
<1>7. Positions'
  BY <1>1, <1>4 DEF Positions, Working
<1>8. ProcessedHold'
  BY <1>1 DEF ProcessedHold, Working
<1> QED
  BY <1>1, <1>5, <1>6, <1>7, <1>8, ReadModelsKept

\* The rollback un-confirms what it deletes: a trade that stays CONFIRMED is
\* at or below the fork point, where every rebuilt row keeps it.
LEMMA RollbackInv == IInv /\ rollbackToLedger => IInv'
<1> SUFFICES ASSUME IInv, rollbackToLedger PROVE IInv'
  OBVIOUS
<1> USE ConstantsAssumption DEF IInv
<1> DEFINE bad   == ReorgedEvents(seq)
           pairs == {PairOf(t) : t \in bad}
           keys  == {CreatorOf[t] : t \in bad}
<1>1. /\ pc = "rollback" /\ pc' = "header" /\ seq' = seq + 1
      /\ UNCHANGED <<chain, branch, raced, cursor, hdr, cur, evs, todo, ev, next,
                     crashes>>
  BY DEF rollbackToLedger, env
<1>2. /\ ing' = [t \in Tx |-> IF t \in bad
                              THEN [ing[t] EXCEPT !.status = "REORGED"]
                              ELSE ing[t]]
      /\ activity' = Surviving(seq)
      /\ ownership' = [t \in Tx |-> IF PairOf(t) \in pairs
                                    THEN Surviving(seq)[t] ELSE ownership[t]]
      /\ supply' = [t \in Tx |-> IF CreatorOf[t] \in keys
                                 THEN Surviving(seq)[t] ELSE supply[t]]
      /\ cp' = [n \in Ledgers |-> IF n > seq THEN NoHash ELSE cp[n]]
  BY DEF rollbackToLedger
<1>3. /\ seq \in 0..MaxLedger /\ seq < Len(hdr)
      /\ Len(hdr) \in Nat /\ Len(hdr) <= MaxLedger
  BY <1>1 DEF Positions, TypeCall, Hash
<1>4. /\ seq' \in 0..MaxLedger /\ seq' >= 1 /\ seq' <= Len(hdr)
  BY <1>1, <1>3
<1>5. /\ Surviving(seq) \in [Tx -> [Ledgers -> Nat]]
      /\ \A t \in Tx, n \in Ledgers :
           n <= seq => Surviving(seq)[t][n] = activity[t][n]
  BY <1>3, SurvivingRows
<1> HIDE DEF bad, pairs, keys
<1>6. TypeDb'
  <2>1. cp' \in [Ledgers -> Hash]
    BY <1>2 DEF TypeDb, NoHash, Hash
  <2>2. ing' \in [Tx -> [ledger : 0..MaxLedger,
                         status : {"none", "CONFIRMED", "REORGED"}]]
    BY <1>2 DEF TypeDb
  <2>3. ownership' \in [Tx -> [Ledgers -> Nat]] /\ supply' \in [Tx -> [Ledgers -> Nat]]
    BY <1>2, <1>5 DEF TypeDb
  <2> QED
    BY <1>1, <1>2, <1>5, <2>1, <2>2, <2>3 DEF TypeDb
<1>7. TypeEnv' /\ TypeCall'
  BY <1>1, <1>4 DEF TypeEnv, TypeCall
<1>8. Positions'
  BY <1>1, <1>4 DEF Positions, Working
<1>9. ProcessedHold'
  BY <1>1 DEF ProcessedHold, Working
<1>10. ConfirmedHolds'
  <2> SUFFICES ASSUME NEW t \in Tx, ing'[t].status = "CONFIRMED"
               PROVE  /\ ing'[t].ledger \in Ledgers
                      /\ t \notin Incomplete =>
                           /\ activity'[t][ing'[t].ledger] >= 1
                           /\ ownership'[t][ing'[t].ledger] >= 1
                           /\ supply'[t][ing'[t].ledger] >= 1
    BY DEF ConfirmedHolds, Holds
  <2>1. t \notin bad /\ ing'[t] = ing[t]
    BY <1>2 DEF TypeDb
  <2>2. ing[t].ledger \in Ledgers /\ (t \notin Incomplete => Holds(t, ing[t].ledger))
    BY <2>1 DEF ConfirmedHolds
  <2>3. ~ (ing[t].ledger > seq)
    BY <2>1 DEF bad, ReorgedEvents
  <2>4. ing[t].ledger <= seq
    BY <1>3, <2>2, <2>3 DEF Ledgers
  <2>5. ASSUME t \notin Incomplete
        PROVE  /\ activity'[t][ing[t].ledger] >= 1
               /\ ownership'[t][ing[t].ledger] >= 1
               /\ supply'[t][ing[t].ledger] >= 1
    <3>1. Surviving(seq)[t][ing[t].ledger] >= 1
      BY <1>5, <2>2, <2>4, <2>5 DEF Holds
    <3> QED
      BY <1>2, <2>2, <2>5, <3>1 DEF Holds
  <2> QED
    BY <2>1, <2>2, <2>5
<1> QED
  BY <1>6, <1>7, <1>8, <1>9, <1>10

\* The re-ingestion loop: header, then events, or on to the incoming ledger.
LEMMA LoopInv == IInv /\ (fetchHeader \/ fetchEvents \/ endReingest) => IInv'
<1> SUFFICES ASSUME IInv, fetchHeader \/ fetchEvents \/ endReingest PROVE IInv'
  OBVIOUS
<1> USE ConstantsAssumption DEF IInv
<1>1. /\ pc \in {"header", "events"}
      /\ UNCHANGED <<chain, branch, raced, cp, ing, activity, ownership, supply,
                     cursor, hdr, ev, next, crashes>>
  BY DEF fetchHeader, fetchEvents, endReingest, env, db
<1>2. TypeEnv' /\ TypeDb'
  BY <1>1 DEF TypeEnv, TypeDb
<1>3. /\ ev = {} /\ chain \in Hash /\ hdr \in Hash
      /\ Len(chain) \in Nat /\ Len(hdr) \in Nat /\ Len(hdr) <= MaxLedger
      /\ seq \in 0..MaxLedger /\ seq >= 1 /\ seq <= Len(hdr)
  BY <1>1 DEF Positions, TypeEnv, TypeCall, Hash
<1>4. CASE fetchHeader
  <2>1. /\ pc' = "events" /\ cur' = Prefix(seq) /\ UNCHANGED <<seq, evs, todo>>
        /\ seq < Len(hdr) /\ seq <= Len(chain)
    BY <1>4 DEF fetchHeader
  <2>2. seq \in 0..Len(chain)
    BY <1>3, <2>1
  <2>3. cur' \in Hash
    BY <2>1, <2>2, PrefixType
  <2>4. TypeCall'
    BY <1>1, <2>1, <2>3 DEF TypeCall
  <2>5. Positions'
    BY <1>1, <1>3, <2>1 DEF Positions, Working
  <2>6. ProcessedHold'
    BY <2>1 DEF ProcessedHold, Working
  <2> QED
    BY <1>1, <1>2, <2>4, <2>5, <2>6, ReadModelsKept
<1>5. CASE fetchEvents
  <2>1. /\ pc' = "process" /\ UNCHANGED <<seq, cur>>
        /\ evs' = (IF seq <= Len(chain) THEN chain[seq].txs ELSE {}) /\ todo' = evs'
    BY <1>5 DEF fetchEvents
  <2>2. evs' \in SUBSET Tx
    <3>1. CASE seq <= Len(chain)
      <4>1. seq \in 1..Len(chain)
        BY <1>3, <3>1
      <4> QED
        BY <1>3, <2>1, <3>1, <4>1, BlockType
    <3>2. CASE ~ (seq <= Len(chain))
      BY <2>1, <3>2
    <3> QED
      BY <3>1, <3>2
  <2>3. TypeCall'
    BY <1>1, <1>3, <2>1, <2>2 DEF TypeCall
  <2>4. Positions'
    BY <1>1, <1>3, <2>1 DEF Positions, Working
  <2>5. ProcessedHold'
    BY <1>1, <1>3, <2>1 DEF ProcessedHold
  <2> QED
    BY <1>1, <1>2, <2>3, <2>4, <2>5, ReadModelsKept
<1>6. CASE endReingest
  <2>1. /\ pc' = "process" /\ cur' = hdr /\ seq' = Len(hdr)
        /\ evs' = hdr[Len(hdr)].txs /\ todo' = evs'
    BY <1>6 DEF endReingest
  <2>2. Len(hdr) \in 1..Len(hdr) /\ Len(hdr) \in 0..MaxLedger
    BY <1>3
  <2>3. evs' \in SUBSET Tx
    BY <1>3, <2>1, <2>2, BlockType
  <2>4. TypeCall'
    BY <1>1, <1>3, <2>1, <2>2, <2>3 DEF TypeCall
  <2>5. Positions'
    BY <1>1, <1>3, <2>1, <2>2 DEF Positions, Working
  <2>6. ProcessedHold'
    BY <1>1, <1>3, <2>1 DEF ProcessedHold
  <2> QED
    BY <1>1, <1>2, <2>4, <2>5, <2>6, ReadModelsKept
<1> QED
  BY <1>4, <1>5, <1>6

\* The ledger being processed is a ledger.
LEMMA SeqIsLedger ==
  ASSUME IInv, pc \in Working
  PROVE  seq \in Ledgers /\ seq <= Len(hdr) /\ Len(hdr) \in Nat
<1>1. /\ seq \in 0..MaxLedger /\ seq >= 1 /\ seq <= Len(hdr)
      /\ Len(hdr) \in Nat
  BY DEF IInv, Positions, TypeCall, Hash
<1> QED
  BY <1>1, ConstantsAssumption DEF Ledgers

\* The counts are numbers.
LEMMA CountsAreNat ==
  ASSUME TypeDb, NEW t \in Tx, NEW n \in Ledgers
  PROVE  activity[t][n] \in Nat /\ ownership[t][n] \in Nat /\ supply[t][n] \in Nat
  BY DEF TypeDb

\* A step that only adds to the read models keeps what was there.
LEMMA GrowthKeeps ==
  ASSUME IInv, TypeDb', ing' = ing,
         \A u \in Tx, m \in Ledgers : Holds(u, m) => Holds(u, m)'
  PROVE  ConfirmedHolds'
  BY DEF IInv, ConfirmedHolds

\* A trade that misses a field leaves the worklist, and nothing else changes.
LEMMA SkipInv == IInv /\ skipIncomplete => IInv'
<1> SUFFICES ASSUME IInv, skipIncomplete PROVE IInv'
  OBVIOUS
<1> USE ConstantsAssumption DEF IInv
<1>1. PICK t \in todo \cap Incomplete : todo' = todo \ {t}
  BY DEF skipIncomplete
<1>2. /\ pc = "process" /\ UNCHANGED <<chain, branch, raced, cp, ing, activity, ownership,
                     supply, cursor, pc, hdr, seq, cur, evs, ev, next, crashes>>
  BY DEF skipIncomplete, env, db
<1>3. TypeEnv' /\ TypeDb'
  BY <1>2 DEF TypeEnv, TypeDb
<1>4. TypeCall'
  BY <1>1, <1>2 DEF TypeCall
<1>5. Positions'
  BY <1>2 DEF Positions, Working
<1>6. ProcessedHold'
  BY <1>1, <1>2 DEF ProcessedHold, Working, Holds
<1> QED
  BY <1>2, <1>3, <1>4, <1>5, <1>6, ReadModelsKept

\* prisma.activity.create takes one event in hand.
LEMMA CreateInv == IInv /\ createActivity => IInv'
<1> SUFFICES ASSUME IInv, createActivity PROVE IInv'
  OBVIOUS
<1> USE ConstantsAssumption DEF IInv
<1>1. PICK t \in todo \ Incomplete :
        activity' = Bump(activity, t, seq) /\ todo' = todo \ {t} /\ ev' = {t}
  BY DEF createActivity
<1>2. /\ pc = "process" /\ pc' = "ownership"
      /\ UNCHANGED <<chain, branch, raced, cp, ing, ownership, supply, cursor, hdr,
                     seq, cur, evs, next, crashes>>
  BY DEF createActivity, env
<1>3. /\ seq \in Ledgers /\ t \in Tx /\ t \in evs /\ ev = {}
      /\ activity \in [Tx -> [Ledgers -> Nat]]
  BY <1>2, SeqIsLedger DEF Working, TypeCall, TypeDb, Positions
<1>4. /\ activity' \in [Tx -> [Ledgers -> Nat]]
      /\ activity'[t][seq] >= 1
      /\ \A u \in Tx, m \in Ledgers : activity'[u][m] >= activity[u][m]
  BY <1>1, <1>3, BumpCounts
<1>5. TypeEnv' /\ TypeDb'
  BY <1>2, <1>4 DEF TypeEnv, TypeDb
<1>6. TypeCall'
  BY <1>1, <1>2, <1>3 DEF TypeCall
<1>7. Positions'
  BY <1>1, <1>2 DEF Positions, Working
<1>8. ASSUME NEW u \in Tx, NEW m \in Ledgers, Holds(u, m)
      PROVE  Holds(u, m)'
  <2>1. activity[u][m] \in Nat /\ activity'[u][m] \in Nat
    BY <1>4, CountsAreNat DEF TypeDb
  <2>2. activity'[u][m] >= 1
    BY <1>4, <1>8, <2>1 DEF Holds
  <2> QED
    BY <1>2, <1>8, <2>2 DEF Holds
<1>9. ProcessedHold'
  <2>1. \A u \in evs \ (todo \cup ev \cup Incomplete) : Holds(u, seq)
    BY <1>2 DEF ProcessedHold, Working
  <2>2. ASSUME NEW u \in evs \ (todo' \cup ev' \cup Incomplete) PROVE Holds(u, seq)'
    <3>1. u \in evs \ (todo \cup ev \cup Incomplete) /\ u \in Tx
      BY <1>1, <1>3, <2>2 DEF TypeCall
    <3>2. activity'[u][seq] >= 1 /\ ownership'[u][seq] >= 1 /\ supply'[u][seq] >= 1
      BY <1>2, <1>3, <1>8, <2>1, <3>1 DEF Holds
    <3> QED
      BY <1>2, <3>2 DEF Holds
  <2> QED
    BY <1>1, <1>2, <1>4, <2>2 DEF ProcessedHold, Holds
<1> QED
  BY <1>2, <1>5, <1>6, <1>7, <1>8, <1>9, GrowthKeeps

\* recordKeyPurchase / recordKeySale
LEMMA OwnershipInv == IInv /\ recordKeyTrade => IInv'
<1> SUFFICES ASSUME IInv, recordKeyTrade PROVE IInv'
  OBVIOUS
<1> USE ConstantsAssumption DEF IInv
<1>1. PICK t \in ev : ownership' = Bump(ownership, t, seq)
  BY DEF recordKeyTrade
<1>2. /\ pc = "ownership" /\ pc' = "supply"
      /\ UNCHANGED <<chain, branch, raced, cp, ing, activity, supply, cursor, hdr,
                     seq, cur, evs, todo, ev, next, crashes>>
  BY DEF recordKeyTrade, env
<1>3. /\ seq \in Ledgers /\ t \in Tx /\ \A u \in ev : u = t
      /\ ownership \in [Tx -> [Ledgers -> Nat]]
  BY <1>2, SeqIsLedger DEF Working, TypeCall, TypeDb, Positions
<1>4. /\ ownership' \in [Tx -> [Ledgers -> Nat]]
      /\ ownership'[t][seq] >= 1
      /\ \A u \in Tx, m \in Ledgers : ownership'[u][m] >= ownership[u][m]
  BY <1>1, <1>3, BumpCounts
<1>5. TypeEnv' /\ TypeDb'
  BY <1>2, <1>4 DEF TypeEnv, TypeDb
<1>6. TypeCall'
  BY <1>2 DEF TypeCall
<1>7. Positions'
  BY <1>2 DEF Positions, Working
<1>8. ASSUME NEW u \in Tx, NEW m \in Ledgers, Holds(u, m)
      PROVE  Holds(u, m)'
  <2>1. ownership[u][m] \in Nat /\ ownership'[u][m] \in Nat
    BY <1>4, CountsAreNat DEF TypeDb
  <2>2. ownership'[u][m] >= 1
    BY <1>4, <1>8, <2>1 DEF Holds
  <2> QED
    BY <1>2, <1>8, <2>2 DEF Holds
<1>9. ProcessedHold'
  <2>1. \A u \in evs \ (todo \cup ev \cup Incomplete) : u \in Tx /\ Holds(u, seq)
    BY <1>2 DEF ProcessedHold, Working, TypeCall
  <2>2. ASSUME NEW u \in evs \ (todo \cup ev \cup Incomplete)
        PROVE  activity'[u][seq] >= 1 /\ ownership'[u][seq] >= 1 /\ supply'[u][seq] >= 1
    BY <1>2, <1>3, <1>8, <2>1, <2>2 DEF Holds
  <2>3. \A u \in ev : activity[u][seq] >= 1
    BY <1>2 DEF ProcessedHold
  <2> QED
    BY <1>2, <1>3, <1>4, <2>2, <2>3 DEF ProcessedHold, Holds
<1> QED
  BY <1>2, <1>5, <1>6, <1>7, <1>8, <1>9, GrowthKeeps

\* persistCirculatingSupply copies the counts of the creator's Activity rows,
\* which hold every trade that the supply held.
LEMMA SupplyInv == IInv /\ persistCirculatingSupply => IInv'
<1> SUFFICES ASSUME IInv, persistCirculatingSupply PROVE IInv'
  OBVIOUS
<1> USE ConstantsAssumption DEF IInv
<1>1. PICK t \in ev : supply' = [u \in Tx |-> IF CreatorOf[u] = CreatorOf[t]
                                              THEN activity[u] ELSE supply[u]]
  BY DEF persistCirculatingSupply
<1>2. /\ pc = "supply" /\ pc' = "process" /\ ev' = {}
      /\ UNCHANGED <<chain, branch, raced, cp, ing, activity, ownership, cursor, hdr,
                     seq, cur, evs, todo, next, crashes>>
  BY DEF persistCirculatingSupply, env
<1>3. seq \in Ledgers /\ t \in Tx /\ \A u \in ev : u = t
  BY <1>2, SeqIsLedger DEF Working, TypeCall, Positions
<1>4. supply' \in [Tx -> [Ledgers -> Nat]]
  BY <1>1 DEF TypeDb
<1>5. TypeEnv' /\ TypeDb'
  BY <1>2, <1>4 DEF TypeEnv, TypeDb
<1>6. TypeCall'
  BY <1>2 DEF TypeCall
<1>7. Positions'
  BY <1>2, SeqIsLedger DEF Positions, Working
<1>8. ASSUME NEW u \in Tx, NEW m \in Ledgers, Holds(u, m)
      PROVE  Holds(u, m)'
  BY <1>1, <1>2, <1>8 DEF Holds
<1>9. ProcessedHold'
  <2>1. \A u \in evs \ (todo \cup ev \cup Incomplete) : u \in Tx /\ Holds(u, seq)
    BY <1>2 DEF ProcessedHold, Working, TypeCall
  <2>2. /\ activity'[t][seq] >= 1 /\ ownership'[t][seq] >= 1
        /\ supply'[t][seq] >= 1
    <3>1. activity[t][seq] >= 1 /\ ownership[t][seq] >= 1
      BY <1>2 DEF ProcessedHold
    <3>2. supply'[t] = activity[t]
      BY <1>1, <1>3
    <3> QED
      BY <1>2, <3>1, <3>2
  <2>3. ASSUME NEW u \in evs \ (todo \cup ev \cup Incomplete)
        PROVE  activity'[u][seq] >= 1 /\ ownership'[u][seq] >= 1 /\ supply'[u][seq] >= 1
    BY <1>2, <1>3, <1>8, <2>1, <2>3 DEF Holds
  <2> QED
    BY <1>2, <1>3, <2>2, <2>3 DEF ProcessedHold, Holds
<1> QED
  BY <1>2, <1>5, <1>6, <1>7, <1>8, <1>9, GrowthKeeps

\* advanceIndexerCursorForBatch
LEMMA CursorInv == IInv /\ advanceIndexerCursor => IInv'
<1> SUFFICES ASSUME IInv, advanceIndexerCursor PROVE IInv'
  OBVIOUS
<1> USE ConstantsAssumption DEF IInv
<1>1. /\ pc = "process" /\ todo = {} /\ pc' = "record"
      /\ UNCHANGED <<chain, branch, raced, cp, ing, activity, ownership, supply, hdr,
                     seq, cur, evs, todo, ev, next>>
  BY DEF advanceIndexerCursor, env
<1>2. cursor' \in 0..MaxLedger
  BY DEF advanceIndexerCursor, TypeDb, TypeCall
<1>3. crashes' \in 0..MaxCrash
  <2>1. crashes \in 0..MaxCrash
    BY DEF TypeCall
  <2>2. crashes' = crashes \/ (crashes < MaxCrash /\ crashes' = crashes + 1)
    BY DEF advanceIndexerCursor
  <2> QED
    BY <2>1, <2>2
<1>4. TypeEnv' /\ TypeDb'
  BY <1>1, <1>2 DEF TypeEnv, TypeDb
<1>5. TypeCall'
  BY <1>1, <1>3 DEF TypeCall
<1>6. Positions'
  BY <1>1 DEF Positions, Working
<1>7. ProcessedHold'
  BY <1>1 DEF ProcessedHold, Working, Holds
<1> QED
  BY <1>1, <1>4, <1>5, <1>6, <1>7, ReadModelsKept

\* recordLedgerIngestion confirms events that are all in the read models.
LEMMA RecordInv == IInv /\ recordLedgerIngestion => IInv'
<1> SUFFICES ASSUME IInv, recordLedgerIngestion PROVE IInv'
  OBVIOUS
<1> USE ConstantsAssumption DEF IInv
<1>1. /\ pc = "record"
      /\ ing' = [t \in Tx |-> IF t \in evs
                              THEN [ledger |-> seq, status |-> "CONFIRMED"]
                              ELSE ing[t]]
      /\ cp' = [cp EXCEPT ![seq] = cur]
      /\ UNCHANGED <<chain, branch, raced, activity, ownership, supply, cursor, hdr,
                     cur, evs, todo, ev, crashes>>
  BY DEF recordLedgerIngestion, env
<1>2. \/ pc' = "header" /\ seq' = seq + 1 /\ next' = next /\ seq < Len(hdr)
      \/ pc' = "idle" /\ next' = seq + 1 /\ seq' = seq
  BY DEF recordLedgerIngestion
<1>3. /\ seq \in Ledgers /\ seq <= Len(hdr) /\ Len(hdr) \in Nat
      /\ Len(hdr) <= MaxLedger /\ seq \in 1..MaxLedger
      /\ ev = {} /\ todo = {}
  BY <1>1, SeqIsLedger DEF Working, Positions, TypeCall, Ledgers
<1>4. /\ seq' \in 0..MaxLedger /\ next' \in 1..(MaxLedger + 1)
      /\ pc' = "header" => seq' >= 1 /\ seq' <= Len(hdr)
      /\ pc' \in {"header", "idle"}
  <2>1. next \in 1..(MaxLedger + 1)
    BY DEF TypeCall
  <2> QED
    BY <1>2, <1>3, <2>1
<1>5. TypeDb'
  <2>1. [ledger |-> seq, status |-> "CONFIRMED"]
          \in [ledger : 0..MaxLedger, status : {"none", "CONFIRMED", "REORGED"}]
    BY <1>3
  <2>2. ing' \in [Tx -> [ledger : 0..MaxLedger,
                         status : {"none", "CONFIRMED", "REORGED"}]]
    BY <1>1, <2>1 DEF TypeDb
  <2>3. cp' \in [Ledgers -> Hash]
    BY <1>1, <1>3 DEF TypeDb, TypeCall
  <2> QED
    BY <1>1, <2>2, <2>3 DEF TypeDb
<1>6. TypeEnv' /\ TypeCall'
  BY <1>1, <1>4 DEF TypeEnv, TypeCall
<1>7. Positions'
  BY <1>1, <1>3, <1>4 DEF Positions, Working
<1>8. ProcessedHold'
  BY <1>4 DEF ProcessedHold, Working
<1>9. ConfirmedHolds'
  <2> SUFFICES ASSUME NEW t \in Tx, ing'[t].status = "CONFIRMED"
               PROVE  /\ ing'[t].ledger \in Ledgers
                      /\ t \notin Incomplete => Holds(t, ing'[t].ledger)
    BY <1>1 DEF ConfirmedHolds, Holds
  <2>1. CASE t \in evs
    <3>1. ing'[t].ledger = seq
      BY <1>1, <2>1
    <3>2. t \notin Incomplete => Holds(t, seq)
      BY <1>1, <1>3, <2>1 DEF ProcessedHold, Working
    <3> QED
      BY <1>3, <3>1, <3>2
  <2>2. CASE t \notin evs
    BY <1>1, <2>2 DEF ConfirmedHolds
  <2> QED
    BY <2>1, <2>2
<1> QED
  BY <1>5, <1>6, <1>7, <1>8, <1>9

\* A crash forgets the call and keeps the tables.
LEMMA CrashInv == IInv /\ crash => IInv'
<1> SUFFICES ASSUME IInv, crash PROVE IInv'
  OBVIOUS
<1> USE ConstantsAssumption DEF IInv
<1>1. /\ pc' = "idle" /\ evs' = {} /\ todo' = {} /\ ev' = {}
      /\ hdr' = NoHash /\ cur' = NoHash /\ seq' = 0
      /\ crashes < MaxCrash /\ crashes' = crashes + 1
      /\ UNCHANGED <<chain, branch, raced, cp, ing, activity, ownership, supply, cursor>>
  BY DEF crash, env, db
<1>2. next' \in 1..(MaxLedger + 1)
  BY DEF crash, TypeDb
<1>3. crashes' \in 0..MaxCrash
  <2>1. crashes \in 0..MaxCrash
    BY DEF TypeCall
  <2> QED
    BY <1>1, <2>1
<1>4. TypeEnv' /\ TypeDb'
  BY <1>1 DEF TypeEnv, TypeDb
<1>5. TypeCall'
  BY <1>1, <1>2, <1>3 DEF TypeCall, NoHash, Hash
<1>6. Positions' /\ ProcessedHold'
  BY <1>1 DEF Positions, ProcessedHold, Working
<1> QED
  BY <1>1, <1>4, <1>5, <1>6, ReadModelsKept

\* Every step keeps the invariant.
LEMMA StepInv == IInv /\ [Next]_vars => IInv'
<1> SUFFICES ASSUME IInv, [Next]_vars PROVE IInv'
  OBVIOUS
<1>1. CASE UNCHANGED vars
  <2>1. TypeEnv' /\ TypeDb' /\ TypeCall'
    BY <1>1 DEF IInv, vars, TypeEnv, TypeDb, TypeCall
  <2>2. Positions' /\ ConfirmedHolds' /\ ProcessedHold'
    BY <1>1 DEF IInv, vars, Positions, ConfirmedHolds, ProcessedHold, Holds
  <2> QED
    BY <2>1, <2>2 DEF IInv
<1>2. CASE Worker
  BY <1>2, IngestInv, WalkInv, RollbackInv, LoopInv, SkipInv, CreateInv,
     OwnershipInv, SupplyInv, CursorInv, RecordInv DEF Worker
<1> QED
  BY <1>1, <1>2, EnvInv, CrashInv DEF Next

\* Hence every behaviour has it.
LEMMA Inductive == Spec => []IInv
  BY InitInv, StepInv, PTL DEF Spec

\* Tables, cursor and call state keep their types; in particular the walk, the
\* rollback and the re-ingestion loop only ever touch existing ledgers.
THEOREM TypeCorrect == Spec => []TypeOK
<1>1. IInv => TypeOK
  BY TypeParts DEF IInv
<1> QED
  BY <1>1, Inductive, PTL

\* A trade that the pipeline skips is in no read model.
SkippedEmpty ==
  \A t \in Incomplete, n \in Ledgers :
    activity[t][n] = 0 /\ ownership[t][n] = 0 /\ supply[t][n] = 0

\* Only createActivity and recordKeyTrade add rows, and only for the event in
\* hand; recount and rollback copy or delete rows of the history.
LEMMA SkippedStep == IInv /\ SkippedEmpty /\ [Next]_vars => SkippedEmpty'
<1> SUFFICES ASSUME IInv, SkippedEmpty, [Next]_vars, NEW u \in Incomplete, NEW m \in Ledgers
             PROVE  activity'[u][m] = 0 /\ ownership'[u][m] = 0 /\ supply'[u][m] = 0
  BY DEF SkippedEmpty
<1> USE ConstantsAssumption DEF IInv
<1>1. activity[u][m] = 0 /\ ownership[u][m] = 0 /\ supply[u][m] = 0 /\ u \in Tx
  BY DEF SkippedEmpty
<1>2. CASE UNCHANGED <<activity, ownership, supply>>
  BY <1>1, <1>2
<1>3. CASE createActivity
  <2>1. PICK t \in todo \ Incomplete : activity' = Bump(activity, t, seq)
    BY <1>3 DEF createActivity
  <2>2. pc = "process" /\ UNCHANGED <<ownership, supply>>
    BY <1>3 DEF createActivity
  <2>3. seq \in Ledgers /\ t \in Tx /\ u # t /\ activity \in [Tx -> [Ledgers -> Nat]]
    BY <2>2, SeqIsLedger DEF Working, TypeCall, TypeDb
  <2>4. activity'[u] = activity[u]
    BY <1>1, <2>1, <2>3 DEF Bump
  <2> QED
    BY <1>1, <2>2, <2>4
<1>4. CASE recordKeyTrade
  <2>1. PICK t \in ev : ownership' = Bump(ownership, t, seq)
    BY <1>4 DEF recordKeyTrade
  <2>2. UNCHANGED <<activity, supply>>
    BY <1>4 DEF recordKeyTrade
  <2>3. t \in Tx /\ u # t /\ ownership \in [Tx -> [Ledgers -> Nat]]
    BY DEF TypeCall, TypeDb, Positions
  <2>4. ownership'[u] = ownership[u]
    BY <1>1, <2>1, <2>3 DEF Bump
  <2> QED
    BY <1>1, <2>2, <2>4
<1>5. CASE persistCirculatingSupply
  <2>1. PICK t \in ev : supply' = [v \in Tx |-> IF CreatorOf[v] = CreatorOf[t]
                                                THEN activity[v] ELSE supply[v]]
    BY <1>5 DEF persistCirculatingSupply
  <2>2. UNCHANGED <<activity, ownership>>
    BY <1>5 DEF persistCirculatingSupply
  <2> QED
    BY <1>1, <2>1, <2>2
<1>6. CASE rollbackToLedger
  <2>1. Surviving(seq)[u][m] = 0 /\ activity' = Surviving(seq)
    BY <1>1, <1>6 DEF Surviving, rollbackToLedger
  <2>2. ownership'[u] \in {Surviving(seq)[u], ownership[u]}
    BY <1>1, <1>6 DEF rollbackToLedger
  <2>3. supply'[u] \in {Surviving(seq)[u], supply[u]}
    BY <1>1, <1>6 DEF rollbackToLedger
  <2> QED
    BY <1>1, <2>1, <2>2, <2>3
<1>7. CASE CloseLedger \/ Reorg \/ crash \/ UNCHANGED vars
  BY <1>2, <1>7 DEF CloseLedger, Reorg, crash, db, vars
<1>8. CASE ingestLedger \/ ingestLedgerReorg \/ findForkPoint
             \/ fetchHeader \/ fetchEvents \/ endReingest
  BY <1>2, <1>8 DEF ingestLedger, ingestLedgerReorg, findForkPoint, fetchHeader,
                    fetchEvents, endReingest, db
<1>9. CASE skipIncomplete \/ advanceIndexerCursor \/ recordLedgerIngestion
  BY <1>2, <1>9 DEF skipIncomplete, advanceIndexerCursor, recordLedgerIngestion, db
<1> QED
  BY <1>3, <1>4, <1>5, <1>6, <1>7, <1>8, <1>9 DEF Next, Worker

\* CONFIRMED is as good as the pipeline's own check: a confirmed trade with every
\* required field is in the transaction history, in its owner's position and in
\* its creator's supply, and a skipped one, confirmed all the same, is in none of
\* them, across crashes, replays, reorgs and rollbacks.
THEOREM ConfirmedIsEffective == Spec => []ConfirmedHasEffects
<1>1. IInv /\ SkippedEmpty => ConfirmedHasEffects
  <2> SUFFICES ASSUME IInv, SkippedEmpty PROVE ConfirmedHasEffects
    OBVIOUS
  <2>1. ASSUME NEW t \in Tx, ing[t].status = "CONFIRMED", t \notin Incomplete
        PROVE  /\ activity[t][ing[t].ledger] >= 1
               /\ ownership[t][ing[t].ledger] >= 1
               /\ supply[t][ing[t].ledger] >= 1
    BY <2>1 DEF IInv, ConfirmedHolds, Holds
  <2>2. ASSUME NEW t \in Incomplete, NEW n \in Ledgers
        PROVE  activity[t][n] + ownership[t][n] + supply[t][n] = 0
    BY DEF SkippedEmpty
  <2> QED
    BY <2>1, <2>2 DEF ConfirmedHasEffects
<1>2. Init => SkippedEmpty
  BY ConstantsAssumption DEF Init, SkippedEmpty
<1> QED
  BY <1>1, <1>2, SkippedStep, InitInv, StepInv, PTL DEF Spec

-----------------------------------------------------------------------------
(* Prefixes of hashes *)

\* The history that hash h commits to, up to ledger n.
Cut(h, n) == SubSeq(h, 1, n)

\* Two hashes are equal when they commit to the same ledgers.
LEMMA HashEqual ==
  ASSUME NEW g \in Hash, NEW h \in Hash, Len(g) = Len(h),
         \A i \in 1..Len(g) : g[i] = h[i]
  PROVE  g = h
  BY SeqEqual DEF Hash

\* The length and the ledgers of a prefix.
LEMMA CutFacts ==
  ASSUME NEW h \in Hash, NEW n \in 0..Len(h)
  PROVE  /\ Cut(h, n) \in Hash /\ Len(Cut(h, n)) = n
         /\ \A i \in 1..n : Cut(h, n)[i] = h[i]
  BY DEF Hash, Cut

\* A prefix is a prefix of every longer prefix; the whole hash is one of its own.
LEMMA CutOfCut ==
  ASSUME NEW h \in Hash, NEW n \in 0..Len(h), NEW m \in 0..n
  PROVE  Cut(Cut(h, n), m) = Cut(h, m)
<1>1. Len(h) \in Nat /\ m \in 0..Len(h)
  BY DEF Hash
<1>2. Cut(h, n) \in Hash /\ Len(Cut(h, n)) = n /\ \A i \in 1..n : Cut(h, n)[i] = h[i]
  BY CutFacts
<1>3. m \in 0..Len(Cut(h, n))
  BY <1>2
<1>4. /\ Cut(Cut(h, n), m) \in Hash /\ Len(Cut(Cut(h, n), m)) = m
      /\ \A i \in 1..m : Cut(Cut(h, n), m)[i] = Cut(h, n)[i]
  BY <1>2, <1>3, CutFacts
<1>5. /\ Cut(h, m) \in Hash /\ Len(Cut(h, m)) = m
      /\ \A i \in 1..m : Cut(h, m)[i] = h[i]
  BY <1>1, CutFacts
<1>6. \A i \in 1..m : Cut(Cut(h, n), m)[i] = Cut(h, m)[i]
  BY <1>2, <1>4, <1>5
<1> QED
  BY <1>4, <1>5, <1>6, HashEqual

\* A hash is its own longest prefix.
LEMMA CutWhole ==
  ASSUME NEW h \in Hash
  PROVE  Cut(h, Len(h)) = h
<1>1. Len(h) \in 0..Len(h)
  BY DEF Hash
<1> QED
  BY <1>1, CutFacts, HashEqual

\* A prefix of positive length is not the missing hash.
LEMMA CutStored ==
  ASSUME NEW h \in Hash, NEW n \in 1..Len(h)
  PROVE  Cut(h, n) # NoHash
<1>1. n \in 0..Len(h)
  BY DEF Hash
<1>2. Len(Cut(h, n)) = n
  BY <1>1, CutFacts
<1> QED
  BY <1>2 DEF NoHash

\* Closing a ledger changes no prefix of the chain.
LEMMA CutAppend ==
  ASSUME NEW h \in Hash, NEW b \in Block, NEW n \in 0..Len(h)
  PROVE  /\ Append(h, b) \in Hash /\ Len(Append(h, b)) = Len(h) + 1
         /\ Append(h, b)[Len(h) + 1] = b
         /\ \A i \in 1..Len(h) : Append(h, b)[i] = h[i]
         /\ Cut(Append(h, b), n) = Cut(h, n)
<1>1. /\ Append(h, b) \in Hash /\ Len(Append(h, b)) = Len(h) + 1 /\ Len(h) \in Nat
      /\ \A i \in 1..Len(h) : Append(h, b)[i] = h[i]
      /\ Append(h, b)[Len(h) + 1] = b
  BY AppendProperties DEF Hash
<1>2. n \in 0..Len(Append(h, b))
  BY <1>1
<1>3. /\ Cut(Append(h, b), n) \in Hash /\ Len(Cut(Append(h, b), n)) = n
      /\ \A i \in 1..n : Cut(Append(h, b), n)[i] = Append(h, b)[i]
  BY <1>1, <1>2, CutFacts
<1>4. \A i \in 1..n : Cut(Append(h, b), n)[i] = Cut(h, n)[i]
  BY <1>1, <1>3, CutFacts
<1>5. Cut(Append(h, b), n) = Cut(h, n)
  BY <1>3, <1>4, CutFacts, HashEqual
<1> QED
  BY <1>1, <1>5

\* A trade is in at most one ledger of a hash.
Distinct(h) == \A i, j \in 1..Len(h) : i # j => h[i].txs \cap h[j].txs = {}

\* Abandoning a suffix repeats no trade.
LEMMA DistinctCut ==
  ASSUME NEW h \in Hash, Distinct(h), NEW n \in 0..Len(h)
  PROVE  Distinct(Cut(h, n))
<1>1. Len(h) \in Nat /\ Len(Cut(h, n)) = n /\ \A i \in 1..n : Cut(h, n)[i] = h[i]
  BY CutFacts DEF Hash
<1>2. ASSUME NEW i \in 1..n, NEW j \in 1..n, i # j
      PROVE  Cut(h, n)[i].txs \cap Cut(h, n)[j].txs = {}
  <2>1. i \in 1..Len(h) /\ j \in 1..Len(h)
    BY <1>1
  <2>2. h[i].txs \cap h[j].txs = {}
    BY <1>2, <2>1 DEF Distinct
  <2> QED
    BY <1>1, <2>2
<1> QED
  BY <1>1, <1>2 DEF Distinct

-----------------------------------------------------------------------------
(* The stored checkpoints form one chain *)

\* The ledgers stored are those of hash h up to k, and none above.
StackOf(h, k) ==
  /\ h \in Hash /\ Distinct(h) /\ k \in 0..Len(h) /\ k <= MaxLedger
  /\ \A n \in 1..k : cp[n] = Cut(h, n)
  /\ \A n \in Ledgers : n > k => cp[n] = NoHash

Stacked(k) == \E h \in Hash : StackOf(h, k)

\* No repair was overtaken by a reorg, and no restart used the cursor.
Steady == ~ raced /\ (crashes = 0 \/ ResumeFrom = "checkpoint")

\* The checkpoints the call in progress builds on, and those it still has to
\* verify; while it repairs, the chain it follows is the canonical one.
Linked ==
  /\ pc = "idle" => Stacked(next - 1)
  /\ pc \in {"walk", "rollback"} => Stacked(Len(hdr) - 1)
  /\ pc = "rollback" => \A n \in 1..seq : cp[n] = Cut(hdr, n)
  /\ pc \in {"header", "events"} \cup Working => StackOf(hdr, seq - 1)
  /\ pc \in {"events"} \cup Working => cur = Cut(hdr, seq)
  /\ Repairing => Len(hdr) <= Len(chain) /\ hdr = Cut(chain, Len(hdr))

LinkInv == Distinct(chain) /\ Distinct(hdr) /\ (Steady => Linked)

\* What is stored below the top of a stack belongs to the top's history.
LEMMA StackFacts ==
  ASSUME NEW k, NEW h \in Hash, StackOf(h, k)
  PROVE  /\ k \in 0..MaxLedger
         /\ \A n \in 1..k : cp[n] # NoHash
         /\ \A n \in 1..k : \A m \in 1..n : cp[m] = Cut(cp[n], m)
<1>1. /\ k \in 0..Len(h) /\ Len(h) \in Nat /\ k <= MaxLedger
      /\ \A n \in 1..k : cp[n] = Cut(h, n)
  BY DEF StackOf, Hash
<1>2. ASSUME NEW n \in 1..k
      PROVE  cp[n] # NoHash
  BY <1>1, CutStored
<1>3. ASSUME NEW n \in 1..k, NEW m \in 1..n
      PROVE  cp[m] = Cut(cp[n], m)
  <2>1. n \in 0..Len(h) /\ m \in 0..n /\ m \in 1..k
    BY <1>1
  <2> QED
    BY <1>1, <2>1, CutOfCut
<1>4. k \in 0..MaxLedger
  BY <1>1, ConstantsAssumption
<1> QED
  BY <1>2, <1>3, <1>4

\* Where the next ledger's parent is the top of the stack, the ledger extends it.
LEMMA StackExtends ==
  ASSUME NEW k \in Nat, Stacked(k), NEW h \in Hash, Distinct(h), Len(h) > k,
         k > 0 => cp[k] = Cut(h, k)
  PROVE  StackOf(h, k)
<1>1. PICK g \in Hash : StackOf(g, k)
  BY DEF Stacked
<1>2. k \in 0..Len(h) /\ k <= MaxLedger /\ \A n \in Ledgers : n > k => cp[n] = NoHash
  BY <1>1 DEF StackOf, Hash
<1>3. ASSUME NEW n \in 1..k PROVE cp[n] = Cut(h, n)
  <2>1. cp[n] = Cut(cp[k], n)
    BY <1>1, StackFacts
  <2>2. n \in 0..k /\ k > 0
    OBVIOUS
  <2>3. Cut(Cut(h, k), n) = Cut(h, n)
    BY <1>2, <2>2, CutOfCut
  <2> QED
    BY <2>1, <2>2, <2>3
<1> QED
  BY <1>2, <1>3 DEF StackOf

\* Every prefix of the canonical history is canonical.
LEMMA PrefixOfHdr ==
  ASSUME TypeEnv, TypeCall, Len(hdr) <= Len(chain), hdr = Cut(chain, Len(hdr)),
         NEW n \in 0..Len(hdr)
  PROVE  Prefix(n) = Cut(hdr, n)
<1>1. chain \in Hash /\ Len(hdr) \in Nat /\ Len(chain) \in Nat
  BY DEF TypeEnv, TypeCall, Hash
<1>2. Len(hdr) \in 0..Len(chain)
  BY <1>1
<1>3. Cut(Cut(chain, Len(hdr)), n) = Cut(chain, n)
  BY <1>1, <1>2, CutOfCut
<1> QED
  BY <1>3 DEF Prefix, Cut

\* At first nothing is stored.
LEMMA LinkInit == Init => LinkInv
<1> SUFFICES ASSUME Init PROVE LinkInv
  OBVIOUS
<1>1. Distinct(<< >>) /\ << >> \in Hash /\ Len(<< >>) = 0
  BY DEF Distinct, Hash
<1>2. StackOf(<< >>, 0)
  BY <1>1, ConstantsAssumption DEF Init, StackOf
<1>3. Stacked(next - 1)
  BY <1>1, <1>2 DEF Stacked, Init
<1>4. pc = "idle" /\ ~ Repairing
  BY DEF Init, Repairing
<1> QED
  BY <1>1, <1>3, <1>4 DEF LinkInv, Linked, Init, NoHash, Working

\* The network closes or abandons ledgers.
LEMMA LinkEnv == IInv /\ LinkInv /\ (CloseLedger \/ Reorg) => LinkInv'
<1> SUFFICES ASSUME IInv, LinkInv, CloseLedger \/ Reorg PROVE LinkInv'
  OBVIOUS
<1>1. UNCHANGED <<cp, pc, hdr, seq, cur, next, crashes>>
  BY DEF CloseLedger, Reorg, db, call
<1>2. chain \in Hash /\ Len(chain) \in Nat /\ hdr \in Hash /\ Len(hdr) \in Nat
  BY DEF IInv, TypeEnv, TypeCall, Hash
<1>3. Distinct(hdr')
  BY <1>1 DEF LinkInv
<1>4. ASSUME NEW k PROVE (Stacked(k) => Stacked(k)') /\ (StackOf(hdr, k) => StackOf(hdr, k)')
  BY <1>1 DEF Stacked, StackOf
<1>5. CASE CloseLedger
  <2>1. PICK S \in SUBSET (Tx \ Included) :
          chain' = Append(chain, [branch |-> branch, txs |-> S])
    BY <1>5, IncludedTrades DEF CloseLedger, IInv
  <2> DEFINE b == [branch |-> branch, txs |-> S]
  <2>2. b \in Block /\ b.txs = S
    BY DEF Block, IInv, TypeEnv
  <2> HIDE DEF b
  <2>3. chain' = Append(chain, b)
    BY <2>1 DEF b
  <2>4. /\ Len(chain') = Len(chain) + 1 /\ chain'[Len(chain) + 1] = b
        /\ \A i \in 1..Len(chain) : chain'[i] = chain[i]
        /\ \A n \in 0..Len(chain) : Cut(chain', n) = Cut(chain, n)
    <3>1. 0 \in 0..Len(chain)
      BY <1>2
    <3> QED
      BY <1>2, <2>2, <2>3, <3>1, CutAppend
  <2>5. Distinct(chain')
    <3> SUFFICES ASSUME NEW i \in 1..Len(chain'), NEW j \in 1..Len(chain'), i < j
                 PROVE  chain'[i].txs \cap chain'[j].txs = {}
      <4>1. \A i, j \in 1..Len(chain') : i # j => i < j \/ j < i
        BY <1>2, <2>4
      <4> QED
        BY <4>1 DEF Distinct
    <3>1. i \in 1..Len(chain) /\ chain'[i] = chain[i]
      BY <1>2, <2>4
    <3>2. CASE j \in 1..Len(chain)
      BY <2>4, <3>1, <3>2 DEF LinkInv, Distinct
    <3>3. CASE j = Len(chain) + 1
      <4>1. chain[i].txs \subseteq Included
        BY <3>1 DEF Included
      <4>2. chain'[j].txs = S
        BY <2>2, <2>4, <3>3
      <4> QED
        BY <2>1, <3>1, <4>1, <4>2
    <3> QED
      BY <1>2, <2>4, <3>2, <3>3
  <2>6. ASSUME Steady' PROVE Linked'
    <3>1. Steady /\ Linked
      BY <1>1, <1>5, <2>6 DEF Steady, CloseLedger, LinkInv
    <3>2. Repairing' => Repairing
      BY <1>1 DEF Repairing
    <3>3. Repairing => Len(hdr) <= Len(chain') /\ hdr = Cut(chain', Len(hdr))
      BY <1>2, <2>4, <3>1 DEF Linked
    <3> QED
      BY <1>1, <1>4, <3>1, <3>2, <3>3 DEF Linked
  <2> QED
    BY <1>3, <2>5, <2>6 DEF LinkInv
<1>6. CASE Reorg
  <2>1. PICK n \in 0..(Len(chain) - 1) : chain' = Cut(chain, n)
    BY <1>6 DEF Reorg, Prefix, Cut
  <2>2. Distinct(chain')
    <3>1. n \in 0..Len(chain)
      BY <1>2
    <3> QED
      BY <1>2, <2>1, <3>1, DistinctCut DEF LinkInv
  <2>3. ASSUME Steady' PROVE Linked'
    <3>1. raced' = (raced \/ Repairing)
      BY <1>6 DEF Reorg
    <3>2. ~ raced' /\ ~ raced /\ ~ Repairing
      BY <2>3, <3>1 DEF Steady
    <3>3. Steady /\ Linked
      BY <1>1, <2>3, <3>2 DEF Steady, LinkInv
    <3>4. ~ Repairing'
      BY <1>1, <3>2 DEF Repairing
    <3> QED
      BY <1>1, <1>4, <3>3, <3>4 DEF Linked
  <2> QED
    BY <1>3, <2>2, <2>3 DEF LinkInv
<1> QED
  BY <1>5, <1>6


\* The type facts the steps below share.
LEMMA HashTypes ==
  ASSUME IInv
  PROVE  /\ chain \in Hash /\ Len(chain) \in Nat /\ Len(chain) <= MaxLedger
         /\ hdr \in Hash /\ Len(hdr) \in Nat /\ Len(hdr) <= MaxLedger
         /\ seq \in 0..MaxLedger /\ next \in 1..(MaxLedger + 1)
         /\ MaxLedger \in Nat /\ cp \in [Ledgers -> Hash]
  BY ConstantsAssumption DEF IInv, TypeEnv, TypeDb, TypeCall, Hash

\* ingestLedger: a parent that agrees is the top of the stack.
LEMMA LinkIngest == IInv /\ LinkInv /\ (ingestLedger \/ ingestLedgerReorg) => LinkInv'
<1> SUFFICES ASSUME IInv, LinkInv, ingestLedger \/ ingestLedgerReorg PROVE LinkInv'
  OBVIOUS
<1>1. /\ pc = "idle" /\ next <= Len(chain) /\ hdr' = Cut(chain, next)
      /\ UNCHANGED <<chain, raced, cp, next, crashes>>
  BY DEF ingestLedger, ingestLedgerReorg, env, db, Prefix, Cut
<1>2. /\ next \in 1..Len(chain) /\ next \in 0..Len(chain) /\ next - 1 \in Nat
      /\ next - 1 \in 0..next
  BY <1>1, HashTypes
<1>3. hdr' \in Hash /\ Len(hdr') = next /\ Distinct(hdr')
  BY <1>1, <1>2, HashTypes, CutFacts, DistinctCut DEF LinkInv
<1>4. Distinct(chain')
  BY <1>1 DEF LinkInv
<1>5. ASSUME Steady' PROVE Stacked(next - 1)
  BY <1>1, <1>5 DEF Steady, LinkInv, Linked
<1>6. CASE ingestLedger
  <2>1. ~ ParentMismatch(hdr') /\ pc' = "process" /\ cur' = hdr' /\ seq' = next
    BY <1>1, <1>6 DEF ingestLedger, Prefix, Cut
  <2>2. ASSUME Steady' PROVE StackOf(hdr', next - 1)
    <3>1. ASSUME next - 1 > 0 PROVE cp[next - 1] = Cut(hdr', next - 1)
      <4>1. PICK h \in Hash : StackOf(h, next - 1)
        BY <1>5, <2>2 DEF Stacked
      <4>2. next - 1 \in 1..(next - 1)
        BY <1>2, <3>1
      <4>3. cp[next - 1] # NoHash
        BY <4>1, <4>2, StackFacts
      <4> QED
        BY <1>2, <1>3, <2>1, <3>1, <4>3 DEF ParentMismatch, Parent, Cut
    <3> QED
      BY <1>2, <1>3, <1>5, <2>2, <3>1, StackExtends
  <2>3. cur' = Cut(hdr', seq')
    BY <1>3, <2>1, CutWhole
  <2>4. ~ Repairing'
    BY <1>2, <1>3, <2>1 DEF Repairing
  <2>5. ASSUME Steady' PROVE StackOf(hdr, seq - 1)'
    BY <1>1, <2>1, <2>2, <2>5 DEF StackOf
  <2>6. Steady' => Linked'
    BY <2>1, <2>3, <2>4, <2>5 DEF Linked
  <2> QED
    BY <1>3, <1>4, <2>6 DEF LinkInv
<1>7. CASE ingestLedgerReorg
  <2>1. pc' = "walk"
    BY <1>7 DEF ingestLedgerReorg
  <2>2. ASSUME Steady' PROVE Stacked(Len(hdr) - 1)'
    BY <1>1, <1>3, <1>5, <2>2 DEF Stacked, StackOf
  <2>3. Len(hdr') <= Len(chain') /\ hdr' = Cut(chain', Len(hdr'))
    BY <1>1, <1>3
  <2>4. Steady' => Linked'
    BY <2>1, <2>2, <2>3 DEF Linked, Working
  <2> QED
    BY <1>3, <1>4, <2>4 DEF LinkInv
<1> QED
  BY <1>6, <1>7

\* The walk meets no fork that is deeper than it goes: the window still holds
\* the checkpoint of a ledger the incoming chain does not contradict, or it
\* holds every checkpoint there is.
ForkInWindow ==
  pc = "walk" => \/ Window = Stored
                 \/ \E n \in Window : n <= seq /\ IncomingHash(n) \in {NoHash, cp[n]}

\* That is so on every chain no longer than the walk.
LEMMA WholeWindow ==
  ASSUME MaxLedger <= MaxWalk
  PROVE  ForkInWindow
<1>1. MaxLedger \in Nat /\ MaxWalk \in Nat
  BY ConstantsAssumption
<1>2. IsFiniteSet(1..MaxLedger) /\ Cardinality(1..MaxLedger) = MaxLedger
  BY <1>1, FS_Interval
<1>3. ASSUME NEW n \in Stored
      PROVE  Cardinality({m \in Stored : m >= n}) <= MaxWalk
  <2>1. {m \in Stored : m >= n} \in SUBSET (1..MaxLedger)
    BY DEF Stored, Ledgers
  <2>2. Cardinality({m \in Stored : m >= n}) <= Cardinality(1..MaxLedger)
    BY <1>2, <2>1, FS_Subset
  <2>3. Cardinality({m \in Stored : m >= n}) \in Nat
    BY <1>2, <2>1, FS_Subset, FS_CardinalityType
  <2> QED
    BY <1>1, <1>2, <2>2, <2>3
<1> QED
  BY <1>3 DEF Window, ForkInWindow

\* The walk ends at a ledger whose history is that of the incoming header.
LEMMA LinkWalk == IInv /\ LinkInv /\ ForkInWindow /\ findForkPoint => LinkInv'
<1> SUFFICES ASSUME IInv, LinkInv, ForkInWindow, findForkPoint PROVE LinkInv'
  OBVIOUS
<1>1. /\ pc = "walk" /\ pc' \in {"walk", "rollback"}
      /\ UNCHANGED <<chain, raced, cp, hdr, cur, next, crashes>>
  BY DEF findForkPoint, env, db
<1>2. seq \in 1..(Len(hdr) - 1) /\ Len(hdr) - 1 \in Nat
  BY <1>1, HashTypes DEF IInv, Positions
<1>3. ASSUME Steady' PROVE Linked /\ Repairing /\ Stacked(Len(hdr) - 1)
  BY <1>1, <1>3 DEF Steady, LinkInv, Linked, Repairing
<1>4. ASSUME Steady', pc' = "rollback" PROVE \A n \in 1..seq' : cp[n] = Cut(hdr, n)
  <2>1. PICK h \in Hash : StackOf(h, Len(hdr) - 1)
    BY <1>3, <1>4 DEF Stacked
  <2>2. Len(hdr) <= Len(chain) /\ hdr = Cut(chain, Len(hdr))
    BY <1>3, <1>4 DEF Linked
  <2>3. IncomingHash(seq) = Cut(hdr, seq)
    <3>1. CASE seq = Len(hdr) - 1
      BY <3>1 DEF IncomingHash, Parent, Cut
    <3>2. CASE seq # Len(hdr) - 1
      <4>1. seq <= Len(chain) /\ seq \in 0..Len(hdr)
        BY <1>2, <2>2, HashTypes
      <4>2. Prefix(seq) = Cut(hdr, seq)
        BY <2>2, <4>1, PrefixOfHdr DEF IInv
      <4> QED
        BY <3>2, <4>1, <4>2 DEF IncomingHash
    <3> QED
      BY <3>1, <3>2
  <2>4. Cut(hdr, seq) # NoHash
    <3>1. seq \in 1..Len(hdr)
      BY <1>2, HashTypes
    <3> QED
      BY <3>1, HashTypes, CutStored
  <2>5. \/ IncomingHash(seq) \in {NoHash, cp[seq]} /\ seq' = seq
        \/ /\ IncomingHash(seq) \notin {NoHash, cp[seq]} /\ {n \in Window : n < seq} = {}
           /\ \E oldest \in Window : OldestOf(Window, oldest) /\ seq' = oldest - 1
    BY <1>4 DEF findForkPoint
  <2>6. CASE IncomingHash(seq) \in {NoHash, cp[seq]} /\ seq' = seq
    <3>1. cp[seq] = Cut(hdr, seq)
      BY <2>3, <2>4, <2>6
    <3>2. ASSUME NEW n \in 1..seq PROVE cp[n] = Cut(hdr, n)
      <4>1. cp[n] = Cut(cp[seq], n)
        BY <1>2, <2>1, StackFacts
      <4>2. seq \in 0..Len(hdr) /\ n \in 0..seq
        BY <1>2, HashTypes
      <4> QED
        BY <3>1, <4>1, <4>2, HashTypes, CutOfCut
    <3> QED
      BY <2>6, <3>2
  <2>7. CASE /\ IncomingHash(seq) \notin {NoHash, cp[seq]} /\ {n \in Window : n < seq} = {}
             /\ \E oldest \in Window : OldestOf(Window, oldest) /\ seq' = oldest - 1
    <3>0. Window = Stored
      <4>1. \A n \in Window : n \in Int /\ ~ n < seq
        BY <2>7 DEF Window, Stored, Ledgers
      <4>2. \A n \in Window : n <= seq => n = seq
        BY <1>2, <4>1
      <4> QED
        BY <1>1, <2>7, <4>2 DEF ForkInWindow
    <3>1. PICK oldest \in Window : OldestOf(Window, oldest) /\ seq' = oldest - 1
      BY <2>7
    <3>2. 1 \in Stored
      <4>1. 1 \in 1..(Len(hdr) - 1) /\ 1 \in Ledgers /\ 1 < Len(hdr)
        BY <1>2, HashTypes DEF Ledgers
      <4>2. cp[1] # NoHash
        BY <2>1, <4>1, StackFacts
      <4> QED
        BY <4>1, <4>2 DEF Stored
    <3>3. oldest <= 1 /\ oldest \in 1..MaxLedger
      BY <3>0, <3>1, <3>2 DEF OldestOf, Stored, Ledgers
    <3>4. seq' = 0
      BY <3>1, <3>3, ConstantsAssumption
    <3> QED
      BY <3>4
  <2> QED
    BY <2>5, <2>6, <2>7
<1>5. ASSUME Steady' PROVE Stacked(Len(hdr) - 1)'
  BY <1>1, <1>3, <1>5 DEF Stacked, StackOf
<1>6. ASSUME Steady' PROVE Len(hdr') <= Len(chain') /\ hdr' = Cut(chain', Len(hdr'))
  BY <1>1, <1>3, <1>6 DEF Linked
<1>7. Steady' => Linked'
  BY <1>1, <1>4, <1>5, <1>6 DEF Linked, Working
<1> QED
  BY <1>1, <1>7 DEF LinkInv


\* The rollback removes exactly what the walk could not confirm.
LEMMA LinkRollback == IInv /\ LinkInv /\ rollbackToLedger => LinkInv'
<1> SUFFICES ASSUME IInv, LinkInv, rollbackToLedger PROVE LinkInv'
  OBVIOUS
<1>1. /\ pc = "rollback" /\ pc' = "header" /\ seq' = seq + 1
      /\ UNCHANGED <<chain, raced, hdr, cur, next, crashes>>
      /\ cp' = [n \in Ledgers |-> IF n > seq THEN NoHash ELSE cp[n]]
  BY DEF rollbackToLedger, env
<1>2. seq \in Nat /\ seq \in 0..Len(hdr) /\ seq <= MaxLedger
  BY <1>1, HashTypes DEF IInv, Positions
<1>3. ASSUME Steady' PROVE Linked /\ Repairing /\ \A n \in 1..seq : cp[n] = Cut(hdr, n)
  BY <1>1, <1>3 DEF Steady, LinkInv, Linked, Repairing
<1>4. ASSUME Steady' PROVE StackOf(hdr, seq - 1)'
  <2>1. \A n \in 1..seq : n \in Ledgers /\ ~ (n > seq)
    BY <1>2, HashTypes DEF Ledgers
  <2>2. \A n \in 1..seq : cp'[n] = Cut(hdr, n)
    BY <1>1, <1>3, <1>4, <2>1
  <2>3. \A n \in Ledgers : n > seq => cp'[n] = NoHash
    BY <1>1
  <2>4. seq' - 1 = seq
    BY <1>1, <1>2
  <2> QED
    BY <1>1, <1>2, <2>2, <2>3, <2>4, HashTypes DEF StackOf, LinkInv
<1>5. ASSUME Steady' PROVE Len(hdr') <= Len(chain') /\ hdr' = Cut(chain', Len(hdr'))
  BY <1>1, <1>3, <1>5 DEF Linked
<1>6. Steady' => Linked'
  BY <1>1, <1>4, <1>5 DEF Linked, Working
<1> QED
  BY <1>1, <1>6 DEF LinkInv

\* The re-ingestion loop follows the incoming header's history.
LEMMA LinkLoop == IInv /\ LinkInv /\ (fetchHeader \/ fetchEvents \/ endReingest) => LinkInv'
<1> SUFFICES ASSUME IInv, LinkInv, fetchHeader \/ fetchEvents \/ endReingest PROVE LinkInv'
  OBVIOUS
<1>1. /\ pc \in {"header", "events"}
      /\ UNCHANGED <<chain, raced, cp, hdr, next, crashes>>
  BY DEF fetchHeader, fetchEvents, endReingest, env, db
<1>2. seq \in 1..Len(hdr)
  BY <1>1, HashTypes DEF IInv, Positions
<1>3. ASSUME Steady' PROVE /\ Linked /\ StackOf(hdr, seq - 1)
                           /\ Len(hdr) <= Len(chain) /\ hdr = Cut(chain, Len(hdr))
  BY <1>1, <1>3 DEF Steady, LinkInv, Linked, Repairing
<1>4. CASE fetchHeader
  <2>1. pc' = "events" /\ cur' = Prefix(seq) /\ seq' = seq
    BY <1>4 DEF fetchHeader
  <2>2. ASSUME Steady' PROVE cur' = Cut(hdr, seq)
    <3>1. seq \in 0..Len(hdr)
      BY <1>2, HashTypes
    <3> QED
      BY <1>3, <2>1, <2>2, <3>1, PrefixOfHdr DEF IInv
  <2>3. ASSUME Steady' PROVE StackOf(hdr, seq - 1)'
    BY <1>1, <1>3, <2>1, <2>3 DEF StackOf
  <2>4. Steady' => Linked'
    BY <1>1, <1>3, <2>1, <2>2, <2>3 DEF Linked, Working
  <2> QED
    BY <1>1, <2>4 DEF LinkInv
<1>5. CASE fetchEvents
  <2>1. pc = "events" /\ pc' = "process" /\ UNCHANGED <<seq, cur>>
    BY <1>5 DEF fetchEvents
  <2>2. ASSUME Steady' PROVE StackOf(hdr, seq - 1)' /\ cur' = Cut(hdr, seq)
    BY <1>1, <1>3, <2>1, <2>2 DEF StackOf, Linked
  <2>3. Steady' => Linked'
    BY <1>1, <1>3, <2>1, <2>2 DEF Linked, Working
  <2> QED
    BY <1>1, <2>3 DEF LinkInv
<1>6. CASE endReingest
  <2>1. /\ pc' = "process" /\ cur' = hdr /\ seq' = Len(hdr)
        /\ seq = Len(hdr) \/ seq > Len(chain)
    BY <1>6 DEF endReingest
  <2>2. cur' = Cut(hdr', seq')
    BY <1>1, <2>1, HashTypes, CutWhole
  <2>3. ASSUME Steady' PROVE seq' = seq
    BY <1>2, <1>3, <2>1, <2>3, HashTypes
  <2>4. ASSUME Steady' PROVE StackOf(hdr, seq - 1)'
    BY <1>1, <1>3, <2>3, <2>4 DEF StackOf
  <2>5. ~ Repairing'
    BY <1>1, <2>1, HashTypes DEF Repairing
  <2>6. Steady' => Linked'
    BY <2>1, <2>2, <2>4, <2>5 DEF Linked
  <2> QED
    BY <1>1, <2>6 DEF LinkInv
<1> QED
  BY <1>4, <1>5, <1>6

\* The pipeline and the cursor do not touch the checkpoints.
LEMMA LinkPipeline ==
  IInv /\ LinkInv /\ (skipIncomplete \/ createActivity \/ recordKeyTrade
                      \/ persistCirculatingSupply \/ advanceIndexerCursor) => LinkInv'
<1> SUFFICES ASSUME IInv, LinkInv, skipIncomplete \/ createActivity \/ recordKeyTrade
                      \/ persistCirculatingSupply \/ advanceIndexerCursor
             PROVE LinkInv'
  OBVIOUS
<1>1. /\ pc \in Working /\ pc' \in Working
      /\ UNCHANGED <<chain, raced, cp, hdr, seq, cur, next>>
  BY DEF skipIncomplete, createActivity, recordKeyTrade, persistCirculatingSupply,
         advanceIndexerCursor, env, db, Working
<1>2. crashes' = 0 => crashes = 0
  <2>1. crashes \in Nat /\ (crashes' = crashes \/ crashes' = crashes + 1)
    BY ConstantsAssumption DEF IInv, TypeCall, skipIncomplete, createActivity,
       recordKeyTrade, persistCirculatingSupply, advanceIndexerCursor
  <2> QED
    BY <2>1
<1>3. ASSUME Steady' PROVE Linked
  BY <1>1, <1>2, <1>3 DEF Steady, LinkInv
<1>4. ASSUME Steady' PROVE StackOf(hdr, seq - 1)' /\ cur' = Cut(hdr', seq')
  BY <1>1, <1>3, <1>4 DEF StackOf, Linked
<1>5. Repairing' => Repairing
  BY <1>1 DEF Repairing, Working
<1>6. ASSUME Steady', Repairing'
      PROVE  Len(hdr') <= Len(chain') /\ hdr' = Cut(chain', Len(hdr'))
  BY <1>1, <1>3, <1>5, <1>6 DEF Linked
<1>7. Steady' => Linked'
  BY <1>1, <1>4, <1>6 DEF Linked, Working
<1> QED
  BY <1>1, <1>7 DEF LinkInv

\* A recorded ledger is the next one of the stack.
LEMMA LinkRecord == IInv /\ LinkInv /\ recordLedgerIngestion => LinkInv'
<1> SUFFICES ASSUME IInv, LinkInv, recordLedgerIngestion PROVE LinkInv'
  OBVIOUS
<1>1. /\ pc = "record" /\ cp' = [cp EXCEPT ![seq] = cur]
      /\ UNCHANGED <<chain, raced, hdr, cur, crashes>>
  BY DEF recordLedgerIngestion, env
<1>2. \/ pc' = "header" /\ seq' = seq + 1 /\ next' = next /\ seq < Len(hdr)
      \/ pc' = "idle" /\ next' = seq + 1 /\ seq' = seq
  BY DEF recordLedgerIngestion
<1>3. seq \in Ledgers /\ seq \in 1..Len(hdr) /\ seq \in 1..MaxLedger
  BY <1>1, HashTypes, SeqIsLedger DEF Working, Ledgers
<1>4. ASSUME Steady' PROVE Linked
  BY <1>1, <1>4 DEF Steady, LinkInv
<1>5. ASSUME Steady'
      PROVE  /\ \A n \in 1..seq : cp'[n] = Cut(hdr, n)
             /\ \A n \in Ledgers : n > seq => cp'[n] = NoHash
  <2>1. StackOf(hdr, seq - 1) /\ cur = Cut(hdr, seq)
    BY <1>1, <1>4, <1>5 DEF Linked, Working
  <2>2. ASSUME NEW n \in 1..seq PROVE cp'[n] = Cut(hdr, n)
    <3>1. CASE n = seq
      BY <1>1, <1>3, <2>1, <3>1, HashTypes
    <3>2. CASE n # seq
      <4>1. n \in 1..(seq - 1) /\ n \in Ledgers
        BY <1>3, <3>2, ConstantsAssumption DEF Ledgers
      <4> QED
        BY <1>1, <2>1, <3>2, <4>1, HashTypes DEF StackOf
    <3> QED
      BY <3>1, <3>2
  <2>3. ASSUME NEW n \in Ledgers, n > seq PROVE cp'[n] = NoHash
    <3>1. n # seq /\ n > seq - 1
      BY <1>3, <2>3 DEF Ledgers
    <3> QED
      BY <1>1, <2>1, <3>1, HashTypes DEF StackOf
  <2> QED
    BY <2>2, <2>3
<1>6. CASE pc' = "header" /\ seq' = seq + 1 /\ seq < Len(hdr)
  <2>1. ASSUME Steady' PROVE StackOf(hdr, seq - 1)'
    <3>1. seq' - 1 = seq /\ seq \in 0..Len(hdr) /\ seq <= MaxLedger
      BY <1>3, <1>6, HashTypes
    <3> QED
      BY <1>1, <1>5, <2>1, <3>1, HashTypes DEF StackOf, LinkInv
  <2>2. ASSUME Steady' PROVE Len(hdr') <= Len(chain') /\ hdr' = Cut(chain', Len(hdr'))
    <3>1. Repairing
      BY <1>1, <1>6 DEF Repairing
    <3> QED
      BY <1>1, <1>4, <2>2, <3>1 DEF Linked
  <2>3. Steady' => Linked'
    BY <1>6, <2>1, <2>2 DEF Linked, Working
  <2> QED
    BY <1>1, <2>3 DEF LinkInv
<1>7. CASE pc' = "idle" /\ next' = seq + 1 /\ seq' = seq
  <2>1. ASSUME Steady' PROVE Stacked(next - 1)'
    <3>1. next' - 1 = seq /\ seq \in 0..Len(hdr) /\ seq <= MaxLedger
      BY <1>3, <1>7, HashTypes
    <3>2. StackOf(hdr, next - 1)'
      BY <1>1, <1>5, <2>1, <3>1, HashTypes DEF StackOf, LinkInv
    <3> QED
      BY <1>1, <3>2, HashTypes DEF Stacked
  <2>2. Steady' => Linked'
    BY <1>7, <2>1 DEF Linked, Working, Repairing
  <2> QED
    BY <1>1, <2>2 DEF LinkInv
<1> QED
  BY <1>2, <1>6, <1>7

\* A restart from the checkpoints finds the top of the stack.
LEMMA LinkCrash == IInv /\ LinkInv /\ crash => LinkInv'
<1> SUFFICES ASSUME IInv, LinkInv, crash PROVE LinkInv'
  OBVIOUS
<1>1. /\ pc # "idle" /\ pc' = "idle" /\ hdr' = NoHash
      /\ crashes' = crashes + 1 /\ crashes \in Nat
      /\ UNCHANGED <<chain, raced, cp>>
  BY ConstantsAssumption DEF crash, env, db, IInv, TypeCall
<1>2. Distinct(hdr') /\ ~ Repairing'
  BY <1>1 DEF Distinct, NoHash, Repairing
<1>3. ASSUME Steady' PROVE Stacked(next - 1)'
  <2>1. ResumeFrom = "checkpoint" /\ Steady
    BY <1>1, <1>3 DEF Steady
  <2>2. PICK n \in 1..(MaxLedger + 1) : getResumePoint(n) /\ next' = n
    BY <2>1 DEF crash
  <2>3. PICK k \in Int : Stacked(k)
    <3>1. \/ Stacked(Len(hdr) - 1) /\ Len(hdr) - 1 \in Int
          \/ StackOf(hdr, seq - 1) /\ hdr \in Hash /\ seq - 1 \in Int
      BY <1>1, <2>1, HashTypes DEF LinkInv, Linked, IInv, TypeCall, Working
    <3> QED
      BY <3>1 DEF Stacked
  <2>4. PICK h \in Hash : StackOf(h, k)
    BY <2>3 DEF Stacked
  <2>5. /\ k \in 0..MaxLedger /\ MaxLedger \in Nat
        /\ \A m \in 1..k : cp[m] # NoHash
        /\ \A m \in Ledgers : m > k => cp[m] = NoHash
    BY <2>4, StackFacts, ConstantsAssumption DEF StackOf
  <2> DEFINE S == {0} \cup {m \in Ledgers : cp[m] # NoHash}
  <2>6. k \in S /\ \A m \in S : m <= k /\ m \in Nat
    BY <2>5 DEF Ledgers
  <2>7. n - 1 \in S /\ \A m \in S : m <= n - 1
    BY <2>2 DEF getResumePoint, NewestOf
  <2>8. n - 1 = k
    BY <2>5, <2>6, <2>7
  <2> QED
    BY <1>1, <2>2, <2>4, <2>8 DEF Stacked, StackOf
<1>4. Steady' => Linked'
  BY <1>1, <1>2, <1>3 DEF Linked, Working
<1> QED
  BY <1>1, <1>2, <1>4 DEF LinkInv

\* The stack is kept by every step, when the walk reaches the fork.
LEMMA LinkStep == IInv /\ LinkInv /\ ForkInWindow /\ [Next]_vars => LinkInv'
<1> SUFFICES ASSUME IInv, LinkInv, ForkInWindow, [Next]_vars PROVE LinkInv'
  OBVIOUS
<1>1. CASE UNCHANGED vars
  BY <1>1 DEF vars, LinkInv, Linked, Steady, Stacked, StackOf, Repairing
<1>2. CASE Worker
  BY <1>2, LinkIngest, LinkWalk, LinkRollback, LinkLoop, LinkPipeline, LinkRecord
     DEF Worker
<1> QED
  BY <1>1, <1>2, LinkEnv, LinkCrash DEF Next

\* Hence by every behaviour.
LEMMA LinkAlways == Spec /\ []ForkInWindow => []LinkInv
  BY InitInv, StepInv, LinkInit, LinkStep, PTL DEF Spec

\* The parent check of the next call is enough, for chains of every length and any
\* number of crashes, reorgs and trades, as long as no fork is deeper than
\* findForkPoint's MAX_FORK_WALKBACK_LEDGERS: a worker that resumes from the
\* checkpoints and finds the parent of its next ledger canonical has ingested every
\* ledger below it from the canonical chain.
THEOREM PrefixIsVerified ==
  ASSUME ResumeFrom = "checkpoint"
  PROVE  Spec /\ []ForkInWindow => []VerifiedPrefix
<1>1. IInv /\ LinkInv => VerifiedPrefix
  <2> SUFFICES ASSUME IInv, LinkInv, pc = "idle", next > 1, ~ raced
               PROVE  /\ cp[next - 1] # NoHash
                      /\ Canonical(next - 1) => \A n \in 1..(next - 1) : Canonical(n)
    BY DEF VerifiedPrefix
  <2>1. PICK h \in Hash : StackOf(h, next - 1)
    BY DEF LinkInv, Linked, Steady, Stacked
  <2>2. next - 1 \in 1..(next - 1) /\ next - 1 \in Nat
    BY HashTypes
  <2>3. cp[next - 1] # NoHash
    BY <2>1, <2>2, StackFacts
  <2>4. ASSUME Canonical(next - 1), NEW n \in 1..(next - 1) PROVE Canonical(n)
    <3>1. cp[n] = Cut(cp[next - 1], n)
      BY <2>1, <2>2, StackFacts
    <3>2. next - 1 <= Len(chain) /\ cp[next - 1] = Cut(chain, next - 1)
      BY <2>4 DEF Canonical, Prefix, Cut
    <3>3. next - 1 \in 0..Len(chain) /\ n \in 0..(next - 1) /\ n <= Len(chain)
      BY <2>2, <3>2, HashTypes
    <3>4. cp[n] = Cut(chain, n)
      BY <3>1, <3>2, <3>3, HashTypes, CutOfCut
    <3> QED
      BY <3>3, <3>4 DEF Canonical, Prefix, Cut
  <2> QED
    BY <2>3, <2>4
<1> QED
  BY <1>1, Inductive, LinkAlways, PTL

\* On a chain no longer than the walk findForkPoint loads every checkpoint, and no
\* assumption on the forks is needed.
COROLLARY ShortChainIsVerified ==
  ASSUME ResumeFrom = "checkpoint", MaxLedger <= MaxWalk
  PROVE  Spec => []VerifiedPrefix
  BY PrefixIsVerified, WholeWindow, PTL

-----------------------------------------------------------------------------
(* An abandoned ledger is never canonical again *)

\* Hash h is a prefix of chain c.
On(h, c) == Len(h) <= Len(c) /\ h = Cut(c, Len(h))

\* The ledgers of h that were closed since the last reorg are those of the chain.
Fresh(h, c, b) ==
  \A i \in 1..Len(h) :
    /\ h[i].branch <= b
    /\ h[i].branch = b => i <= Len(c) /\ h[i] = c[i]

\* Branches are numbers.
LEMMA BranchType ==
  ASSUME NEW h \in Hash, NEW i \in 1..Len(h)
  PROVE  h[i].branch \in Nat
<1>1. h[i] \in Block
  BY DEF Hash
<1> QED
  BY <1>1, ConstantsAssumption DEF Block

\* A ledger closed now is not one that was stored before.
LEMMA FreshGrows ==
  ASSUME NEW c \in Hash, NEW h \in Hash, NEW b \in Nat,
         NEW blk \in Block, blk.branch = b, Fresh(h, c, b)
  PROVE  /\ Fresh(h, Append(c, blk), b)
         /\ On(h, Append(c, blk)) => On(h, c)
<1>1. Len(c) \in Nat /\ Len(h) \in Nat
  BY DEF Hash
<1>2. /\ Append(c, blk) \in Hash /\ Len(Append(c, blk)) = Len(c) + 1
      /\ Append(c, blk)[Len(c) + 1] = blk
      /\ \A i \in 1..Len(c) : Append(c, blk)[i] = c[i]
      /\ \A n \in 0..Len(c) : Cut(Append(c, blk), n) = Cut(c, n)
  <2>1. 0 \in 0..Len(c)
    BY <1>1
  <2> QED
    BY <2>1, CutAppend
<1>3. Fresh(h, Append(c, blk), b)
  <2> SUFFICES ASSUME NEW i \in 1..Len(h)
               PROVE  /\ h[i].branch <= b
                      /\ h[i].branch = b => i <= Len(c) + 1 /\ h[i] = Append(c, blk)[i]
    BY <1>2 DEF Fresh
  <2>1. h[i].branch <= b /\ (h[i].branch = b => i <= Len(c) /\ h[i] = c[i])
    BY DEF Fresh
  <2> QED
    BY <1>1, <1>2, <2>1
<1>4. ASSUME On(h, Append(c, blk)) PROVE On(h, c)
  <2>1. Len(h) <= Len(c) + 1 /\ h = Cut(Append(c, blk), Len(h))
    BY <1>2, <1>4 DEF On
  <2>2. CASE Len(h) = Len(c) + 1
    <3>1. Len(h) \in 0..Len(Append(c, blk)) /\ Len(h) \in 1..Len(h)
      BY <1>1, <1>2, <2>2
    <3>2. h[Len(h)] = blk
      BY <1>2, <2>1, <2>2, <3>1, CutFacts
    <3>3. Len(h) <= Len(c)
      BY <3>1, <3>2 DEF Fresh
    <3> QED
      BY <1>1, <2>2, <3>3
  <2>3. CASE Len(h) # Len(c) + 1
    <3>1. Len(h) \in 0..Len(c)
      BY <1>1, <2>1, <2>3
    <3> QED
      BY <1>1, <1>2, <2>1, <3>1 DEF On
  <2> QED
    BY <2>2, <2>3
<1> QED
  BY <1>3, <1>4

\* The ledger that is closed is of the current branch.
LEMMA ChainStaysFresh ==
  ASSUME NEW c \in Hash, NEW b \in Nat, NEW blk \in Block, blk.branch = b,
         Fresh(c, c, b)
  PROVE  Fresh(Append(c, blk), Append(c, blk), b)
<1>1. /\ Len(c) \in Nat /\ Len(Append(c, blk)) = Len(c) + 1
      /\ Append(c, blk)[Len(c) + 1] = blk
      /\ \A i \in 1..Len(c) : Append(c, blk)[i] = c[i]
  <2>1. 0 \in 0..Len(c) /\ Len(c) \in Nat
    BY DEF Hash
  <2> QED
    BY <2>1, CutAppend
<1>2. ASSUME NEW i \in 1..Len(Append(c, blk)) PROVE Append(c, blk)[i].branch <= b
  <2>1. CASE i \in 1..Len(c)
    BY <1>1, <2>1 DEF Fresh
  <2>2. CASE i = Len(c) + 1
    BY <1>1, <2>2
  <2> QED
    BY <1>1, <2>1, <2>2
<1> QED
  BY <1>1, <1>2 DEF Fresh

\* After a reorg every ledger known so far is of an older branch.
LEMMA FreshAges ==
  ASSUME NEW c \in Hash, NEW h \in Hash, NEW b \in Nat, Fresh(h, c, b),
         NEW n \in 0..Len(c)
  PROVE  /\ Fresh(h, Cut(c, n), b + 1)
         /\ On(h, Cut(c, n)) => On(h, c)
<1>1. Len(c) \in Nat /\ Len(h) \in Nat /\ Len(Cut(c, n)) = n
  BY CutFacts DEF Hash
<1>2. ASSUME NEW i \in 1..Len(h) PROVE h[i].branch <= b + 1 /\ h[i].branch # b + 1
  BY BranchType DEF Fresh
<1>3. Fresh(h, Cut(c, n), b + 1)
  BY <1>2 DEF Fresh
<1>4. ASSUME On(h, Cut(c, n)) PROVE On(h, c)
  <2>1. Len(h) \in 0..n /\ Len(h) <= Len(c) /\ h = Cut(Cut(c, n), Len(h))
    BY <1>1, <1>4 DEF On
  <2> QED
    BY <2>1, CutOfCut DEF On
<1> QED
  BY <1>3, <1>4

\* A prefix of a fresh hash is fresh.
LEMMA FreshCut ==
  ASSUME NEW c \in Hash, NEW h \in Hash, NEW b, Fresh(h, c, b), NEW n \in 0..Len(h)
  PROVE  Fresh(Cut(h, n), c, b)
<1>1. Len(h) \in Nat /\ Len(Cut(h, n)) = n /\ \A i \in 1..n : Cut(h, n)[i] = h[i]
  BY CutFacts DEF Hash
<1>2. \A i \in 1..n : i \in 1..Len(h)
  BY <1>1
<1> QED
  BY <1>1, <1>2 DEF Fresh

\* Every hash the guard holds is fresh, and is the hash of its own ledger.
FreshInv ==
  /\ Fresh(chain, chain, branch) /\ Fresh(hdr, chain, branch)
  /\ Fresh(cur, chain, branch)
  /\ \A n \in Ledgers : /\ Fresh(cp[n], chain, branch)
                        /\ cp[n] # NoHash => Len(cp[n]) = n
  /\ pc \in {"events"} \cup Working => Len(cur) = seq

\* At first there is no hash.
LEMMA FreshInit == Init => FreshInv
  BY DEF Init, FreshInv, Fresh, NoHash, Working

\* The network makes no hash that left the chain canonical again.
LEMMA FreshEnv ==
  ASSUME IInv, FreshInv, CloseLedger \/ Reorg
  PROVE  /\ FreshInv'
         /\ On(cur, chain') => On(cur, chain)
         /\ \A n \in Ledgers : On(cp[n], chain') => On(cp[n], chain)
<1>1. UNCHANGED <<cp, pc, hdr, seq, cur>>
  BY DEF CloseLedger, Reorg, db, call
<1>2. /\ chain \in Hash /\ Len(chain) \in Nat /\ branch \in Nat /\ hdr \in Hash
      /\ cur \in Hash /\ \A n \in Ledgers : cp[n] \in Hash
  BY ConstantsAssumption DEF IInv, TypeEnv, TypeCall, TypeDb, Hash
<1>3. CASE CloseLedger
  <2>1. PICK S \in SUBSET (Tx \ Included) :
          chain' = Append(chain, [branch |-> branch, txs |-> S])
    BY <1>3, IncludedTrades DEF CloseLedger, IInv
  <2> DEFINE blk == [branch |-> branch, txs |-> S]
  <2>2. blk \in Block /\ blk.branch = branch
    BY DEF Block, IInv, TypeEnv
  <2> HIDE DEF blk
  <2>3. chain' = Append(chain, blk) /\ branch' = branch
    BY <1>3, <2>1 DEF blk, CloseLedger
  <2>4. Fresh(chain', chain', branch')
    BY <1>2, <2>2, <2>3, ChainStaysFresh DEF FreshInv
  <2>5. ASSUME NEW h \in Hash, Fresh(h, chain, branch)
        PROVE  Fresh(h, chain', branch') /\ (On(h, chain') => On(h, chain))
    BY <1>2, <2>2, <2>3, <2>5, FreshGrows
  <2> QED
    BY <1>1, <1>2, <2>4, <2>5 DEF FreshInv
<1>4. CASE Reorg
  <2>1. PICK n \in 0..(Len(chain) - 1) : chain' = Cut(chain, n)
    BY <1>4 DEF Reorg, Prefix, Cut
  <2>2. n \in 0..Len(chain) /\ branch' = branch + 1
    BY <1>2, <1>4 DEF Reorg
  <2>3. ASSUME NEW h \in Hash, Fresh(h, chain, branch)
        PROVE  Fresh(h, chain', branch') /\ (On(h, chain') => On(h, chain))
    BY <1>2, <2>1, <2>2, <2>3, FreshAges
  <2>4. Fresh(chain', chain', branch')
    <3>1. Fresh(Cut(chain, n), chain, branch) /\ Cut(chain, n) \in Hash
      BY <1>2, <2>2, FreshCut, CutFacts DEF FreshInv
    <3> QED
      BY <2>1, <2>3, <3>1
  <2> QED
    BY <1>1, <1>2, <2>3, <2>4 DEF FreshInv
<1> QED
  BY <1>3, <1>4

\* The worker only takes hashes from the chain, or from its own records.
LEMMA FreshWorker == IInv /\ FreshInv /\ (Worker \/ crash) => FreshInv'
<1> SUFFICES ASSUME IInv, FreshInv, Worker \/ crash PROVE FreshInv'
  OBVIOUS
<1>1. UNCHANGED <<chain, branch>>
  BY DEF Worker, crash, env, ingestLedger, ingestLedgerReorg, findForkPoint,
         rollbackToLedger, fetchHeader, fetchEvents, endReingest, skipIncomplete,
         createActivity, recordKeyTrade, persistCirculatingSupply, advanceIndexerCursor,
         recordLedgerIngestion
<1>2. ASSUME NEW n \in 0..Len(chain)
      PROVE  Fresh(Prefix(n), chain, branch) /\ Len(Prefix(n)) = n
  BY <1>2, HashTypes, FreshCut, CutFacts DEF FreshInv, Prefix, Cut
<1>3. Fresh(NoHash, chain, branch)
  BY DEF Fresh, NoHash
<1>4. CASE ingestLedger \/ ingestLedgerReorg
  <2>1. /\ hdr' = Prefix(next) /\ cp' = cp /\ next \in 0..Len(chain)
        /\ \/ pc' = "process" /\ cur' = Prefix(next) /\ seq' = next
           \/ pc' = "walk" /\ cur' = cur
    BY <1>4, HashTypes DEF ingestLedger, ingestLedgerReorg, db
  <2> QED
    BY <1>1, <1>2, <2>1 DEF FreshInv, Working
<1>5. CASE findForkPoint
  BY <1>1, <1>5 DEF findForkPoint, FreshInv, db, Working
<1>6. CASE rollbackToLedger
  <2>1. /\ pc' = "header" /\ UNCHANGED <<hdr, cur>>
        /\ \A n \in Ledgers : cp'[n] = NoHash \/ cp'[n] = cp[n]
    BY <1>6 DEF rollbackToLedger
  <2> QED
    BY <1>1, <1>3, <2>1 DEF FreshInv, Working
<1>7. CASE fetchHeader
  <2>1. pc' = "events" /\ UNCHANGED <<hdr, cp, seq>> /\ cur' = Prefix(seq) /\ seq \in 0..Len(chain)
    BY <1>7, HashTypes DEF fetchHeader, db
  <2> QED
    BY <1>1, <1>2, <2>1 DEF FreshInv, Working
<1>8. CASE fetchEvents
  BY <1>1, <1>8 DEF fetchEvents, FreshInv, db, Working
<1>9. CASE endReingest
  BY <1>1, <1>9 DEF endReingest, FreshInv, db, Working
<1>10. CASE skipIncomplete \/ createActivity \/ recordKeyTrade
              \/ persistCirculatingSupply \/ advanceIndexerCursor
  <2>1. pc \in Working /\ UNCHANGED <<hdr, cp, seq, cur>>
    BY <1>10 DEF skipIncomplete, createActivity, recordKeyTrade, persistCirculatingSupply,
                 advanceIndexerCursor, db, Working
  <2> QED
    BY <1>1, <2>1 DEF FreshInv
<1>11. CASE recordLedgerIngestion
  <2>1. /\ pc = "record" /\ pc' \in {"header", "idle"} /\ UNCHANGED <<hdr, cur>>
        /\ cp' = [cp EXCEPT ![seq] = cur]
    BY <1>11 DEF recordLedgerIngestion
  <2>2. Len(cur) = seq
    BY <2>1 DEF FreshInv, Working
  <2>3. \A n \in Ledgers : cp'[n] = cp[n] \/ (n = seq /\ cp'[n] = cur)
    BY <2>1, HashTypes
  <2> QED
    BY <1>1, <2>1, <2>2, <2>3 DEF FreshInv, Working
<1>12. CASE crash
  BY <1>1, <1>3, <1>12 DEF crash, FreshInv, db, Working
<1> QED
  BY <1>4, <1>5, <1>6, <1>7, <1>8, <1>9, <1>10, <1>11, <1>12 DEF Worker

-----------------------------------------------------------------------------
(* The transaction history, while nothing has failed *)

\* No checkpoint is stored from ledger k on.
EmptyFrom(k) == \A n \in Ledgers : n >= k => cp[n] = NoHash

Open ==
  /\ pc = "idle" => EmptyFrom(next)
  /\ pc \in {"walk", "rollback"} => EmptyFrom(Len(hdr))
  /\ pc \in {"header", "events"} \cup Working => EmptyFrom(seq)

\* The events in hand are those of the header in hand, if that is canonical:
\* otherwise they may come from another branch than it.
EventsMatch == pc \in Working /\ On(cur, chain) => evs = cur[seq].txs

\* The Activity row of trade t for the ledger in progress is written.
Written(t, n) == pc \in Working /\ n = seq /\ t \in evs \ (todo \cup Incomplete)

HistoryMatches ==
  \A t \in Tx, n \in Ledgers :
    /\ cp[n] # NoHash /\ On(cp[n], chain) => activity[t][n] = Count(t \in cp[n][n].txs \ Incomplete)
    /\ cp[n] = NoHash => activity[t][n] = Count(Written(t, n))

HistoryInv == crashes = 0 => Open /\ EventsMatch /\ HistoryMatches

\* Bump counts one more row for its trade and ledger, and no other.
LEMMA BumpExact ==
  ASSUME NEW f \in [Tx -> [Ledgers -> Nat]], NEW t \in Tx, NEW n \in Ledgers,
         NEW u \in Tx, NEW m \in Ledgers
  PROVE  /\ u = t /\ m = n => Bump(f, t, n)[u][m] = f[u][m] + 1
         /\ ~ (u = t /\ m = n) => Bump(f, t, n)[u][m] = f[u][m]
<1>1. Bump(f, t, n) = [f EXCEPT ![t] = [f[t] EXCEPT ![n] = f[t][n] + 1]]
  BY DEF Bump
<1>2. f[t] \in [Ledgers -> Nat]
  OBVIOUS
<1>3. CASE u = t
  <2>1. Bump(f, t, n)[u] = [f[t] EXCEPT ![n] = f[t][n] + 1]
    BY <1>1, <1>3
  <2> QED
    BY <1>2, <1>3, <2>1
<1>4. CASE u # t
  BY <1>1, <1>4
<1> QED
  BY <1>3, <1>4

\* At first there is no row.
LEMMA HistoryInit == Init => HistoryInv
  BY DEF Init, HistoryInv, Open, EmptyFrom, EventsMatch, HistoryMatches, Written,
         Count, Working

\* A ledger that is canonical after a step of the network was so before it.
LEMMA HistoryEnv == IInv /\ FreshInv /\ HistoryInv /\ (CloseLedger \/ Reorg) => HistoryInv'
<1> SUFFICES ASSUME IInv, FreshInv, HistoryInv, CloseLedger \/ Reorg, crashes' = 0
             PROVE  Open' /\ EventsMatch' /\ HistoryMatches'
  BY DEF HistoryInv
<1>1. UNCHANGED <<cp, pc, hdr, seq, cur, evs, todo, activity, next, crashes>>
  BY DEF CloseLedger, Reorg, db, call
<1>2. Open /\ EventsMatch /\ HistoryMatches
  BY <1>1 DEF HistoryInv
<1>3. Open'
  BY <1>1, <1>2 DEF Open, EmptyFrom
<1>4. /\ On(cur, chain') => On(cur, chain)
      /\ \A n \in Ledgers : On(cp[n], chain') => On(cp[n], chain)
  BY FreshEnv
<1>5. EventsMatch'
  BY <1>1, <1>2, <1>4 DEF EventsMatch
<1>6. \A t \in Tx, n \in Ledgers : Written(t, n)' <=> Written(t, n)
  BY <1>1 DEF Written
<1>7. HistoryMatches'
  BY <1>1, <1>2, <1>4, <1>6 DEF HistoryMatches, Count
<1> QED
  BY <1>3, <1>5, <1>7

\* Steps that write no rows and leave the checkpoints alone, taken before any
\* row of the ledger in progress is written.
LEMMA HistoryKept ==
  ASSUME HistoryMatches, UNCHANGED <<cp, chain, activity>>,
         \A t \in Tx, n \in Ledgers : Written(t, n)' <=> Written(t, n)
  PROVE  HistoryMatches'
  BY DEF HistoryMatches, Count

\* ingestLedger starts with no row of its ledger written.
LEMMA HistoryIngest == IInv /\ HistoryInv /\ (ingestLedger \/ ingestLedgerReorg) => HistoryInv'
<1> SUFFICES ASSUME IInv, HistoryInv, ingestLedger \/ ingestLedgerReorg, crashes' = 0
             PROVE  Open' /\ EventsMatch' /\ HistoryMatches'
  BY DEF HistoryInv
<1>1. /\ pc = "idle" /\ hdr' = Cut(chain, next)
      /\ UNCHANGED <<chain, cp, activity, next, crashes>>
      /\ next \in 0..Len(chain) /\ next \in 1..next
      /\ \/ /\ pc' = "process" /\ cur' = Cut(chain, next) /\ seq' = next
            /\ evs' = chain[next].txs /\ todo' = evs'
         \/ pc' = "walk"
  BY HashTypes DEF ingestLedger, ingestLedgerReorg, env, db, Prefix, Cut
<1>2. Open /\ HistoryMatches
  BY <1>1 DEF HistoryInv
<1>3. Len(hdr') = next /\ Cut(chain, next)[next] = chain[next]
  BY <1>1, HashTypes, CutFacts
<1>4. Open'
  BY <1>1, <1>2, <1>3 DEF Open, EmptyFrom, Working
<1>5. EventsMatch'
  BY <1>1, <1>3 DEF EventsMatch, Working
<1>6. \A t \in Tx, n \in Ledgers : Written(t, n)' <=> Written(t, n)
  BY <1>1 DEF Written, Working
<1> QED
  BY <1>1, <1>2, <1>4, <1>5, <1>6, HistoryKept

\* The walk writes nothing.
LEMMA HistoryWalk == IInv /\ HistoryInv /\ findForkPoint => HistoryInv'
<1> SUFFICES ASSUME IInv, HistoryInv, findForkPoint, crashes' = 0
             PROVE  Open' /\ EventsMatch' /\ HistoryMatches'
  BY DEF HistoryInv
<1>1. /\ pc = "walk" /\ pc' \in {"walk", "rollback"}
      /\ UNCHANGED <<chain, cp, activity, hdr, crashes>>
  BY DEF findForkPoint, env, db
<1>2. Open /\ HistoryMatches
  BY <1>1 DEF HistoryInv
<1>3. Open' /\ EventsMatch'
  BY <1>1, <1>2 DEF Open, EmptyFrom, EventsMatch, Working
<1>4. \A t \in Tx, n \in Ledgers : Written(t, n)' <=> Written(t, n)
  BY <1>1 DEF Written, Working
<1> QED
  BY <1>1, <1>2, <1>3, <1>4, HistoryKept

\* The rollback empties the ledgers above the fork point, rows and checkpoints.
LEMMA HistoryRollback == IInv /\ HistoryInv /\ rollbackToLedger => HistoryInv'
<1> SUFFICES ASSUME IInv, HistoryInv, rollbackToLedger, crashes' = 0
             PROVE  Open' /\ EventsMatch' /\ HistoryMatches'
  BY DEF HistoryInv
<1>1. /\ pc = "rollback" /\ pc' = "header" /\ seq' = seq + 1
      /\ UNCHANGED <<chain, crashes>>
      /\ cp' = [n \in Ledgers |-> IF n > seq THEN NoHash ELSE cp[n]]
      /\ activity' = Surviving(seq)
  BY DEF rollbackToLedger, env
<1>2. HistoryMatches /\ seq \in Nat
  BY <1>1, HashTypes DEF HistoryInv
<1>3. Open'
  <2>1. \A n \in Ledgers : n >= seq + 1 => n > seq
    BY <1>2, ConstantsAssumption DEF Ledgers
  <2> QED
    BY <1>1, <2>1 DEF Open, EmptyFrom, Working
<1>4. EventsMatch'
  BY <1>1 DEF EventsMatch, Working
<1>5. ASSUME NEW t \in Tx, NEW n \in Ledgers
      PROVE  /\ cp'[n] # NoHash /\ On(cp'[n], chain')
                => activity'[t][n] = Count(t \in cp'[n][n].txs \ Incomplete)
             /\ cp'[n] = NoHash => activity'[t][n] = 0
  <2>1. CASE n > seq
    BY <1>1, <2>1 DEF Surviving
  <2>2. CASE ~ (n > seq)
    <3>1. cp'[n] = cp[n] /\ activity'[t][n] = activity[t][n]
      BY <1>1, <2>2 DEF Surviving
    <3>2. ~ Written(t, n)
      BY <1>1 DEF Written, Working
    <3> QED
      BY <1>1, <1>2, <3>1, <3>2 DEF HistoryMatches, Count
  <2> QED
    BY <2>1, <2>2
<1>6. \A t \in Tx, n \in Ledgers : ~ Written(t, n)'
  BY <1>1 DEF Written, Working
<1>7. HistoryMatches'
  BY <1>5, <1>6 DEF HistoryMatches, Count
<1> QED
  BY <1>3, <1>4, <1>7

\* The loop's fetches write nothing; events fetched for a canonical header are
\* that ledger's own.
LEMMA HistoryLoop ==
  IInv /\ FreshInv /\ HistoryInv /\ (fetchHeader \/ fetchEvents \/ endReingest) => HistoryInv'
<1> SUFFICES ASSUME IInv, FreshInv, HistoryInv, fetchHeader \/ fetchEvents \/ endReingest,
                    crashes' = 0
             PROVE  Open' /\ EventsMatch' /\ HistoryMatches'
  BY DEF HistoryInv
<1>1. /\ pc \in {"header", "events"}
      /\ UNCHANGED <<chain, cp, activity, hdr, crashes>>
      /\ pc' = "events" \/ (pc' = "process" /\ todo' = evs')
  BY DEF fetchHeader, fetchEvents, endReingest, env, db
<1>2. Open /\ HistoryMatches
  BY <1>1 DEF HistoryInv
<1>3. \A t \in Tx, n \in Ledgers : Written(t, n)' <=> Written(t, n)
  BY <1>1 DEF Written, Working
<1>4. HistoryMatches'
  BY <1>1, <1>2, <1>3, HistoryKept
<1>5. seq \in 1..Len(hdr) /\ Len(hdr) \in Nat
  BY <1>1, HashTypes DEF IInv, Positions
<1>6. seq' = seq \/ seq' = Len(hdr)
  BY DEF fetchHeader, fetchEvents, endReingest
<1>7. Open'
  <2>1. EmptyFrom(seq)
    BY <1>1, <1>2 DEF Open
  <2>2. \A n \in Ledgers : n >= seq' => n >= seq
    BY <1>5, <1>6, ConstantsAssumption DEF Ledgers
  <2> QED
    BY <1>1, <2>1, <2>2 DEF Open, EmptyFrom, Working
<1>8. EventsMatch'
  <2>1. CASE fetchHeader
    BY <2>1 DEF fetchHeader, EventsMatch, Working
  <2>2. CASE fetchEvents
    <3>1. /\ evs' = IF seq <= Len(chain) THEN chain[seq].txs ELSE {}
          /\ UNCHANGED <<seq, cur>> /\ pc = "events"
      BY <2>2 DEF fetchEvents
    <3>2. Len(cur) = seq
      BY <3>1 DEF FreshInv
    <3>3. ASSUME On(cur, chain) PROVE evs' = cur[seq].txs
      <4>1. seq <= Len(chain) /\ cur = Cut(chain, seq)
        BY <3>2, <3>3 DEF On
      <4>2. seq \in 0..Len(chain) /\ seq \in 1..seq
        BY <1>5, <4>1, HashTypes
      <4>3. Cut(chain, seq)[seq] = chain[seq]
        BY <4>2, HashTypes, CutFacts
      <4> QED
        BY <3>1, <4>1, <4>3
    <3> QED
      BY <1>1, <3>1, <3>3 DEF EventsMatch
  <2>3. CASE endReingest
    BY <2>3 DEF endReingest, EventsMatch
  <2> QED
    BY <2>1, <2>2, <2>3
<1> QED
  BY <1>4, <1>7, <1>8

\* prisma.activity.create writes the one row of an event not yet started.
LEMMA HistoryCreate == IInv /\ HistoryInv /\ createActivity => HistoryInv'
<1> SUFFICES ASSUME IInv, HistoryInv, createActivity, crashes' = 0
             PROVE  Open' /\ EventsMatch' /\ HistoryMatches'
  BY DEF HistoryInv
<1>1. PICK t \in todo \ Incomplete : activity' = Bump(activity, t, seq) /\ todo' = todo \ {t}
  BY DEF createActivity
<1>2. /\ pc = "process" /\ pc' = "ownership"
      /\ UNCHANGED <<chain, cp, hdr, seq, cur, evs, next, crashes>>
  BY DEF createActivity, env
<1>3. Open /\ EventsMatch /\ HistoryMatches
  BY <1>2 DEF HistoryInv
<1>4. Open' /\ EventsMatch'
  BY <1>2, <1>3 DEF Open, EmptyFrom, EventsMatch, Working
<1>5. /\ seq \in Ledgers /\ t \in Tx /\ t \in evs /\ seq \in Nat
      /\ activity \in [Tx -> [Ledgers -> Nat]]
  BY <1>2, SeqIsLedger, HashTypes DEF Working, IInv, TypeCall, TypeDb
<1>6. cp[seq] = NoHash
  BY <1>2, <1>3, <1>5 DEF Open, EmptyFrom, Working
<1>7. ASSUME NEW u \in Tx, NEW n \in Ledgers
      PROVE  /\ cp'[n] # NoHash /\ On(cp'[n], chain')
                => activity'[u][n] = Count(u \in cp'[n][n].txs \ Incomplete)
             /\ cp'[n] = NoHash => activity'[u][n] = Count(Written(u, n)')
  <2>1. CASE u = t /\ n = seq
    <3>1. ~ Written(u, n) /\ Written(u, n)'
      BY <1>1, <1>2, <1>5, <2>1 DEF Written, Working
    <3>2. activity[u][n] = 0
      BY <1>3, <1>6, <2>1, <3>1 DEF HistoryMatches, Count
    <3>3. activity'[u][n] = 1
      BY <1>1, <1>5, <2>1, <3>2, BumpExact
    <3> QED
      BY <1>2, <1>6, <2>1, <3>1, <3>3 DEF Count
  <2>2. CASE ~ (u = t /\ n = seq)
    <3>1. activity'[u][n] = activity[u][n]
      BY <1>1, <1>5, <2>2, BumpExact
    <3>2. Written(u, n)' <=> Written(u, n)
      BY <1>1, <1>2, <2>2 DEF Written, Working
    <3> QED
      BY <1>2, <1>3, <3>1, <3>2 DEF HistoryMatches, Count
  <2> QED
    BY <2>1, <2>2
<1>8. HistoryMatches'
  BY <1>7 DEF HistoryMatches
<1> QED
  BY <1>4, <1>8

\* A trade that is skipped is never due a row; position, supply and cursor are
\* written beside the history.
LEMMA HistoryPipeline ==
  IInv /\ HistoryInv /\ (skipIncomplete \/ recordKeyTrade \/ persistCirculatingSupply \/ advanceIndexerCursor)
    => HistoryInv'
<1> SUFFICES ASSUME IInv, HistoryInv, crashes' = 0,
                    skipIncomplete \/ recordKeyTrade \/ persistCirculatingSupply
                      \/ advanceIndexerCursor
             PROVE  Open' /\ EventsMatch' /\ HistoryMatches'
  BY DEF HistoryInv
<1>1. /\ pc \in Working /\ pc' \in Working
      /\ UNCHANGED <<chain, cp, activity, hdr, seq, cur, evs, next>>
  BY DEF skipIncomplete, recordKeyTrade, persistCirculatingSupply, advanceIndexerCursor,
         env, db, Working
<1>2. crashes = 0
  <2>1. crashes \in Nat /\ (crashes' = crashes \/ crashes' = crashes + 1)
    BY ConstantsAssumption DEF IInv, TypeCall, skipIncomplete, recordKeyTrade,
       persistCirculatingSupply, advanceIndexerCursor
  <2> QED
    BY <2>1
<1>3. Open /\ EventsMatch /\ HistoryMatches
  BY <1>2 DEF HistoryInv
<1>4. Open' /\ EventsMatch'
  BY <1>1, <1>3 DEF Open, EmptyFrom, EventsMatch, Working
<1>5. todo' \cup Incomplete = todo \cup Incomplete
  BY DEF skipIncomplete, recordKeyTrade, persistCirculatingSupply, advanceIndexerCursor
<1>6. \A t \in Tx, n \in Ledgers : Written(t, n)' <=> Written(t, n)
  BY <1>1, <1>5 DEF Written
<1> QED
  BY <1>1, <1>3, <1>4, <1>6, HistoryKept

\* recordLedgerIngestion stores the checkpoint of a ledger whose rows are all
\* written, and none but them.
LEMMA HistoryRecord == IInv /\ FreshInv /\ HistoryInv /\ recordLedgerIngestion => HistoryInv'
<1> SUFFICES ASSUME IInv, FreshInv, HistoryInv, recordLedgerIngestion, crashes' = 0
             PROVE  Open' /\ EventsMatch' /\ HistoryMatches'
  BY DEF HistoryInv
<1>1. /\ pc = "record" /\ cp' = [cp EXCEPT ![seq] = cur]
      /\ UNCHANGED <<chain, activity, crashes>>
      /\ \/ pc' = "header" /\ seq' = seq + 1
         \/ pc' = "idle" /\ next' = seq + 1
  BY DEF recordLedgerIngestion, env
<1>2. Open /\ EventsMatch /\ HistoryMatches
  BY <1>1 DEF HistoryInv
<1>3. seq \in Ledgers /\ seq \in Nat /\ todo = {}
  BY <1>1, SeqIsLedger, HashTypes DEF Working, IInv, Positions
<1>4. EmptyFrom(seq) /\ cp[seq] = NoHash
  BY <1>1, <1>2, <1>3 DEF Open, EmptyFrom, Working
<1>5. cp'[seq] = cur /\ \A n \in Ledgers : n # seq => cp'[n] = cp[n]
  BY <1>1, <1>3, HashTypes
<1>6. Open'
  <2>1. \A n \in Ledgers : n >= seq + 1 => n >= seq /\ n # seq
    BY <1>3, ConstantsAssumption DEF Ledgers
  <2>2. \A n \in Ledgers : n >= seq + 1 => cp'[n] = NoHash
    BY <1>4, <1>5, <2>1 DEF EmptyFrom
  <2> QED
    BY <1>1, <2>2 DEF Open, EmptyFrom, Working
<1>7. EventsMatch' /\ \A t \in Tx, n \in Ledgers : ~ Written(t, n)'
  BY <1>1 DEF EventsMatch, Written, Working
<1>8. cur # NoHash
  <2>1. Len(cur) = seq
    BY <1>1 DEF FreshInv, Working
  <2> QED
    BY <1>3, <2>1, ConstantsAssumption DEF NoHash, Ledgers
<1>9. ASSUME NEW t \in Tx, NEW n \in Ledgers
      PROVE  /\ cp'[n] # NoHash /\ On(cp'[n], chain')
                => activity'[t][n] = Count(t \in cp'[n][n].txs \ Incomplete)
             /\ cp'[n] = NoHash => activity'[t][n] = 0
  <2>1. CASE n = seq
    <3>1. activity[t][seq] = Count(t \in evs \ Incomplete)
      BY <1>1, <1>2, <1>3, <1>4 DEF HistoryMatches, Written, Working, Count
    <3>2. On(cur, chain) => evs = cur[seq].txs
      BY <1>1, <1>2 DEF EventsMatch, Working
    <3> QED
      BY <1>1, <1>5, <1>8, <2>1, <3>1, <3>2
  <2>2. CASE n # seq
    BY <1>1, <1>2, <1>5, <2>2 DEF HistoryMatches, Written, Count
  <2> QED
    BY <2>1, <2>2
<1>10. HistoryMatches'
  BY <1>7, <1>9 DEF HistoryMatches, Count
<1> QED
  BY <1>6, <1>7, <1>10

\* Both invariants are kept by every step.
LEMMA HistoryStep == IInv /\ FreshInv /\ HistoryInv /\ [Next]_vars => FreshInv' /\ HistoryInv'
<1> SUFFICES ASSUME IInv, FreshInv, HistoryInv, [Next]_vars PROVE FreshInv' /\ HistoryInv'
  OBVIOUS
<1>1. CASE UNCHANGED vars
  BY <1>1 DEF vars, FreshInv, HistoryInv, Open, EmptyFrom, EventsMatch, HistoryMatches,
              Written, Count
<1>2. CASE CloseLedger \/ Reorg
  BY <1>2, FreshEnv, HistoryEnv
<1>3. CASE Worker
  BY <1>3, FreshWorker, HistoryIngest, HistoryWalk, HistoryRollback, HistoryLoop,
     HistoryCreate, HistoryPipeline, HistoryRecord DEF Worker
<1>4. CASE crash
  <2>1. crashes' = crashes + 1 /\ crashes \in Nat
    BY <1>4, ConstantsAssumption DEF crash, IInv, TypeCall
  <2> QED
    BY <1>4, <2>1, FreshWorker DEF HistoryInv
<1> QED
  BY <1>1, <1>2, <1>3, <1>4 DEF Next

\* Hence by every behaviour.
LEMMA HistoryAlways == Spec => [](FreshInv /\ HistoryInv)
  BY InitInv, StepInv, FreshInit, HistoryInit, HistoryStep, PTL DEF Spec

\* What FaultFreeReadModel says of the transaction history.
FaultFreeHistory ==
  (crashes = 0 /\ pc = "idle") =>
    \A n \in Ledgers, t \in Tx :
      /\ Canonical(n) => activity[t][n] = Count(t \in chain[n].txs \ Incomplete)
      /\ cp[n] = NoHash => activity[t][n] = 0

\* The inductive invariant gives the property.
LEMMA HistoryHolds == IInv /\ FreshInv /\ HistoryInv => FaultFreeHistory
<1> SUFFICES ASSUME IInv, FreshInv, HistoryInv, crashes = 0, pc = "idle",
                    NEW n \in Ledgers, NEW t \in Tx
             PROVE  /\ Canonical(n) => activity[t][n] = Count(t \in chain[n].txs \ Incomplete)
                    /\ cp[n] = NoHash => activity[t][n] = 0
  BY DEF FaultFreeHistory
<1>1. HistoryMatches /\ ~ Written(t, n)
  BY DEF HistoryInv, Written, Working
<1>2. cp[n] = NoHash => activity[t][n] = 0
  BY <1>1 DEF HistoryMatches, Count
<1>3. ASSUME Canonical(n) PROVE activity[t][n] = Count(t \in chain[n].txs \ Incomplete)
  <2>1. n <= Len(chain) /\ cp[n] = Cut(chain, n)
    BY <1>3 DEF Canonical, Prefix, Cut
  <2>2. n \in 0..Len(chain) /\ n \in 1..n /\ n \in 1..Len(chain)
    BY <2>1, HashTypes DEF Ledgers
  <2>3. Len(Cut(chain, n)) = n /\ Cut(chain, n)[n] = chain[n]
    BY <2>2, HashTypes, CutFacts
  <2>4. cp[n] # NoHash
    BY <2>1, <2>2, HashTypes, CutStored
  <2>5. On(cp[n], chain)
    BY <2>1, <2>3 DEF On
  <2> QED
    BY <1>1, <2>1, <2>3, <2>4, <2>5 DEF HistoryMatches
<1> QED
  BY <1>2, <1>3

\* Without a fault the transaction history holds each complete trade of a canonical
\* ledger exactly once and nothing of a ledger that was rolled back, for every chain,
\* walk window and number of reorgs, in the middle of a repair too.
THEOREM HistoryIsCanonical == Spec => []FaultFreeHistory
  BY Inductive, HistoryAlways, HistoryHolds, PTL

-----------------------------------------------------------------------------
(* Positions and supply, while nothing has failed and no repair was overtaken *)

Quiet == crashes = 0 /\ ~ raced

\* The events in hand are those of the incoming header's ledger.
EventsOfHdr == pc \in Working => evs = hdr[seq].txs

\* Every stored ledger, canonical or not, has its rows once, and the
\* IngestedEvent row of each of its trades names it.
StoredRows ==
  \A t \in Tx, n \in Ledgers : cp[n] # NoHash =>
    /\ activity[t][n] = Count(t \in cp[n][n].txs \ Incomplete)
    /\ t \in cp[n][n].txs => ing[t].ledger = n /\ ing[t].status = "CONFIRMED"

\* Positions and supply lag behind the history by the event in hand only.
OwnershipDue(t, n) == pc = "ownership" /\ n = seq /\ t \in ev
SupplyDue(t, n)    == pc \in {"ownership", "supply"} /\ n = seq /\ t \in ev

DerivedRows ==
  \A t \in Tx, n \in Ledgers :
    /\ ownership[t][n] + Count(OwnershipDue(t, n)) = activity[t][n]
    /\ supply[t][n] + Count(SupplyDue(t, n)) = activity[t][n]

RowsInv == Quiet => EventsOfHdr /\ StoredRows /\ DerivedRows

\* All that is known when a step is taken with nothing failed or overtaken.
RowsContext == IInv /\ LinkInv /\ FreshInv /\ HistoryInv /\ RowsInv

\* At first there is no row.
LEMMA RowsInit == Init => RowsInv
<1> SUFFICES ASSUME Init PROVE EventsOfHdr /\ StoredRows /\ DerivedRows
  BY DEF RowsInv
<1>1. EventsOfHdr /\ StoredRows
  BY DEF Init, EventsOfHdr, StoredRows, Working
<1>2. \A t \in Tx, n \in Ledgers : ownership[t][n] = 0 /\ supply[t][n] = 0 /\ activity[t][n] = 0
  BY DEF Init
<1>3. \A t \in Tx, n \in Ledgers : ~ OwnershipDue(t, n) /\ ~ SupplyDue(t, n)
  BY DEF Init, OwnershipDue, SupplyDue
<1> QED
  BY <1>1, <1>2, <1>3 DEF DerivedRows, Count

\* Steps that change no table leave the rows as they are.
LEMMA RowsKept ==
  ASSUME StoredRows, DerivedRows, UNCHANGED <<cp, ing, activity, ownership, supply>>,
         \A t \in Tx, n \in Ledgers : /\ OwnershipDue(t, n)' <=> OwnershipDue(t, n)
                                      /\ SupplyDue(t, n)' <=> SupplyDue(t, n)
  PROVE  StoredRows' /\ DerivedRows'
  BY DEF StoredRows, DerivedRows, Count

\* The network touches no table.
LEMMA RowsEnv == RowsContext /\ (CloseLedger \/ Reorg) => RowsInv'
<1> SUFFICES ASSUME RowsContext, CloseLedger \/ Reorg, Quiet'
             PROVE  EventsOfHdr' /\ StoredRows' /\ DerivedRows'
  BY DEF RowsInv
<1>1. UNCHANGED <<cp, ing, activity, ownership, supply, pc, hdr, seq, evs, ev, crashes>>
  BY DEF CloseLedger, Reorg, db, call
<1>2. Quiet
  <2>1. raced' = raced \/ raced' = (raced \/ Repairing)
    BY DEF CloseLedger, Reorg
  <2>2. raced => raced'
    BY <2>1, Zenon DEF IInv, RowsContext, TypeEnv
  <2> QED
    BY <1>1, <2>2 DEF Quiet
<1>3. EventsOfHdr /\ StoredRows /\ DerivedRows
  BY <1>2 DEF RowsContext, RowsInv
<1>4. EventsOfHdr'
  BY <1>1, <1>3 DEF EventsOfHdr
<1>5. \A t \in Tx, n \in Ledgers : /\ OwnershipDue(t, n)' <=> OwnershipDue(t, n)
                                   /\ SupplyDue(t, n)' <=> SupplyDue(t, n)
  BY <1>1 DEF OwnershipDue, SupplyDue
<1> QED
  BY <1>1, <1>3, <1>4, <1>5, RowsKept

\* Detection, walk and the loop's fetches change no table.
LEMMA RowsControl ==
  RowsContext /\ (ingestLedger \/ ingestLedgerReorg \/ findForkPoint
                  \/ fetchHeader \/ fetchEvents \/ endReingest) => RowsInv'
<1> SUFFICES ASSUME RowsContext, Quiet',
                    ingestLedger \/ ingestLedgerReorg \/ findForkPoint
                      \/ fetchHeader \/ fetchEvents \/ endReingest
             PROVE  EventsOfHdr' /\ StoredRows' /\ DerivedRows'
  BY DEF RowsInv
<1> USE DEF RowsContext
<1>1. /\ UNCHANGED <<cp, ing, activity, ownership, supply, raced, crashes>>
      /\ pc \in {"idle", "walk", "header", "events"}
      /\ pc' \in {"process", "walk", "rollback", "events"}
  BY DEF ingestLedger, ingestLedgerReorg, findForkPoint, fetchHeader, fetchEvents,
         endReingest, env, db
<1>2. Quiet
  BY <1>1 DEF Quiet
<1>3. StoredRows /\ DerivedRows
  BY <1>2 DEF RowsInv
<1>4. \A t \in Tx, n \in Ledgers : /\ OwnershipDue(t, n)' <=> OwnershipDue(t, n)
                                   /\ SupplyDue(t, n)' <=> SupplyDue(t, n)
  BY <1>1 DEF OwnershipDue, SupplyDue
<1>5. EventsOfHdr'
  <2>1. CASE ingestLedger
    <3>1. hdr' = Cut(chain, next) /\ seq' = next /\ evs' = chain[next].txs
          /\ next \in 0..Len(chain) /\ next \in 1..next
      BY <2>1, HashTypes DEF ingestLedger, Prefix, Cut
    <3> QED
      BY <3>1, HashTypes, CutFacts DEF EventsOfHdr
  <2>2. CASE ingestLedgerReorg \/ findForkPoint \/ fetchHeader
    BY <2>2 DEF ingestLedgerReorg, findForkPoint, fetchHeader, EventsOfHdr, Working
  <2>3. CASE fetchEvents
    <3>1. /\ pc = "events" /\ UNCHANGED <<hdr, seq>>
          /\ evs' = IF seq <= Len(chain) THEN chain[seq].txs ELSE {}
      BY <2>3 DEF fetchEvents
    <3>2. Len(hdr) <= Len(chain) /\ hdr = Cut(chain, Len(hdr))
      BY <1>2, <3>1 DEF Quiet, Steady, LinkInv, Linked, Repairing
    <3>3. seq \in 1..Len(hdr) /\ Len(hdr) \in 0..Len(chain) /\ seq <= Len(chain)
      BY <3>1, <3>2, HashTypes DEF IInv, Positions
    <3>4. hdr[seq] = chain[seq]
      BY <3>2, <3>3, HashTypes, CutFacts
    <3> QED
      BY <3>1, <3>3, <3>4 DEF EventsOfHdr
  <2>4. CASE endReingest
    BY <2>4 DEF endReingest, EventsOfHdr
  <2> QED
    BY <2>1, <2>2, <2>3, <2>4
<1> QED
  BY <1>1, <1>3, <1>4, <1>5, RowsKept

\* A trade the rollback does not select has no row above the fork point: what it
\* leaves alone it may leave alone.
LEMMA RowsRollback == RowsContext /\ rollbackToLedger => RowsInv'
<1> SUFFICES ASSUME RowsContext, rollbackToLedger, Quiet'
             PROVE  EventsOfHdr' /\ StoredRows' /\ DerivedRows'
  BY DEF RowsInv
<1> USE DEF RowsContext
<1> DEFINE bad   == ReorgedEvents(seq)
           pairs == {PairOf(t) : t \in bad}
           keys  == {CreatorOf[t] : t \in bad}
<1>1. /\ pc = "rollback" /\ pc' = "header" /\ UNCHANGED <<raced, crashes>>
      /\ ing' = [t \in Tx |-> IF t \in bad
                              THEN [ing[t] EXCEPT !.status = "REORGED"]
                              ELSE ing[t]]
      /\ activity' = Surviving(seq)
      /\ ownership' = [t \in Tx |-> IF PairOf(t) \in pairs
                                    THEN Surviving(seq)[t] ELSE ownership[t]]
      /\ supply' = [t \in Tx |-> IF CreatorOf[t] \in keys
                                 THEN Surviving(seq)[t] ELSE supply[t]]
      /\ cp' = [n \in Ledgers |-> IF n > seq THEN NoHash ELSE cp[n]]
  BY DEF rollbackToLedger, env
<1>2. Quiet /\ seq \in Nat
  BY <1>1, HashTypes DEF Quiet
<1>3. StoredRows /\ DerivedRows /\ HistoryMatches
  BY <1>2 DEF RowsInv, HistoryInv, Quiet
<1>4. ASSUME NEW t \in Tx, NEW n \in Ledgers
      PROVE  /\ ownership[t][n] = activity[t][n] /\ supply[t][n] = activity[t][n]
             /\ cp[n] = NoHash => activity[t][n] = 0
             /\ ownership[t][n] \in Nat /\ supply[t][n] \in Nat
  <2>1. ~ OwnershipDue(t, n) /\ ~ SupplyDue(t, n) /\ ~ Written(t, n)
    BY <1>1 DEF OwnershipDue, SupplyDue, Written, Working
  <2>2. ownership[t][n] \in Nat /\ supply[t][n] \in Nat
    BY DEF IInv, TypeDb
  <2>3. ownership[t][n] + 0 = activity[t][n] /\ supply[t][n] + 0 = activity[t][n]
    BY <1>3, <2>1 DEF DerivedRows, Count
  <2> QED
    BY <1>3, <2>1, <2>2, <2>3 DEF HistoryMatches, Count
<1>5. ASSUME NEW t \in Tx, t \notin bad, NEW n \in Ledgers
      PROVE  Surviving(seq)[t][n] = activity[t][n]
  <2>1. CASE n > seq
    <3>1. Surviving(seq)[t][n] = 0
      BY <2>1 DEF Surviving
    <3>2. ~ (ing[t].ledger = n /\ ing[t].status = "CONFIRMED")
      BY <1>5, <2>1 DEF ReorgedEvents
    <3>3. cp[n] # NoHash => activity[t][n] = 0
      BY <1>3, <3>2 DEF StoredRows, Count
    <3> QED
      BY <1>4, <3>1, <3>3
  <2>2. CASE ~ (n > seq)
    BY <2>2 DEF Surviving
  <2> QED
    BY <2>1, <2>2
<1>6. ASSUME NEW t \in Tx, NEW n \in Ledgers
      PROVE  ownership'[t][n] = activity'[t][n] /\ supply'[t][n] = activity'[t][n]
             /\ activity'[t][n] \in Nat
  <2>1. PairOf(t) \in pairs \/ t \notin bad
    OBVIOUS
  <2>2. CreatorOf[t] \in keys \/ t \notin bad
    OBVIOUS
  <2>3. ownership'[t][n] = activity'[t][n]
    BY <1>1, <1>4, <1>5, <2>1
  <2>4. supply'[t][n] = activity'[t][n]
    BY <1>1, <1>4, <1>5, <2>2
  <2>5. activity'[t][n] \in Nat
    BY <1>1, HashTypes, SurvivingRows DEF IInv
  <2> QED
    BY <2>3, <2>4, <2>5
<1>7. DerivedRows'
  <2>1. \A t \in Tx, n \in Ledgers : ~ OwnershipDue(t, n)' /\ ~ SupplyDue(t, n)'
    BY <1>1 DEF OwnershipDue, SupplyDue
  <2> QED
    BY <1>6, <2>1 DEF DerivedRows, Count
<1>8. ASSUME NEW t \in Tx, NEW n \in Ledgers, cp'[n] # NoHash
      PROVE  /\ activity'[t][n] = Count(t \in cp'[n][n].txs \ Incomplete)
             /\ t \in cp'[n][n].txs => ing'[t].ledger = n /\ ing'[t].status = "CONFIRMED"
  <2>1. ~ (n > seq) /\ cp'[n] = cp[n]
    BY <1>1, <1>8
  <2>2. activity'[t][n] = activity[t][n]
    BY <1>1, <2>1 DEF Surviving
  <2>3. ASSUME t \in cp[n][n].txs PROVE ing'[t].ledger = n /\ ing'[t].status = "CONFIRMED"
    <3>1. ing[t].ledger = n /\ ing[t].status = "CONFIRMED"
      BY <1>3, <1>8, <2>1, <2>3 DEF StoredRows
    <3>2. t \notin bad
      BY <2>1, <3>1 DEF ReorgedEvents
    <3> QED
      BY <1>1, <3>1, <3>2
  <2> QED
    BY <1>3, <1>8, <2>1, <2>2, <2>3 DEF StoredRows
<1>9. StoredRows' /\ EventsOfHdr'
  BY <1>1, <1>8 DEF StoredRows, EventsOfHdr, Working
<1> QED
  BY <1>7, <1>9

\* The steps of the pipeline: history, position, supply.
LEMMA RowsCreate == RowsContext /\ createActivity => RowsInv'
<1> SUFFICES ASSUME RowsContext, createActivity, Quiet'
             PROVE  EventsOfHdr' /\ StoredRows' /\ DerivedRows'
  BY DEF RowsInv
<1> USE DEF RowsContext
<1>1. PICK t \in todo \ Incomplete : activity' = Bump(activity, t, seq) /\ ev' = {t}
  BY DEF createActivity
<1>2. /\ pc = "process" /\ pc' = "ownership"
      /\ UNCHANGED <<cp, ing, ownership, supply, hdr, seq, evs, raced, crashes>>
  BY DEF createActivity, env
<1>3. EventsOfHdr /\ StoredRows /\ DerivedRows /\ Open
  BY <1>2 DEF RowsInv, HistoryInv, Quiet
<1>4. /\ seq \in Ledgers /\ seq \in Nat /\ t \in Tx
      /\ activity \in [Tx -> [Ledgers -> Nat]]
  BY <1>2, SeqIsLedger, HashTypes DEF Working, IInv, TypeCall, TypeDb
<1>5. cp[seq] = NoHash
  BY <1>2, <1>3, <1>4 DEF Open, EmptyFrom, Working
<1>6. ASSUME NEW u \in Tx, NEW n \in Ledgers, n # seq PROVE activity'[u][n] = activity[u][n]
  BY <1>1, <1>4, <1>6, BumpExact
<1>7. EventsOfHdr' /\ StoredRows'
  BY <1>2, <1>3, <1>5, <1>6 DEF EventsOfHdr, StoredRows, Working, Count
<1>8. ASSUME NEW u \in Tx, NEW n \in Ledgers
      PROVE  /\ ownership'[u][n] + Count(OwnershipDue(u, n)') = activity'[u][n]
             /\ supply'[u][n] + Count(SupplyDue(u, n)') = activity'[u][n]
  <2>1. ~ OwnershipDue(u, n) /\ ~ SupplyDue(u, n)
    BY <1>2 DEF OwnershipDue, SupplyDue
  <2>2. ownership[u][n] + 0 = activity[u][n] /\ supply[u][n] + 0 = activity[u][n]
    BY <1>3, <2>1 DEF DerivedRows, Count
  <2>3. ownership[u][n] \in Nat /\ supply[u][n] \in Nat /\ activity[u][n] \in Nat
    BY DEF IInv, TypeDb
  <2>4. CASE u = t /\ n = seq
    <3>1. activity'[u][n] = activity[u][n] + 1
      BY <1>1, <1>4, <2>4, BumpExact
    <3>2. OwnershipDue(u, n)' /\ SupplyDue(u, n)'
      BY <1>1, <1>2, <2>4 DEF OwnershipDue, SupplyDue
    <3> QED
      BY <1>2, <2>2, <2>3, <3>1, <3>2 DEF Count
  <2>5. CASE ~ (u = t /\ n = seq)
    <3>1. activity'[u][n] = activity[u][n]
      BY <1>1, <1>4, <2>5, BumpExact
    <3>2. ~ OwnershipDue(u, n)' /\ ~ SupplyDue(u, n)'
      BY <1>1, <1>2, <2>5 DEF OwnershipDue, SupplyDue
    <3> QED
      BY <1>2, <2>2, <2>3, <3>1, <3>2 DEF Count
  <2> QED
    BY <2>4, <2>5
<1>9. DerivedRows'
  BY <1>8 DEF DerivedRows
<1> QED
  BY <1>7, <1>9

\* recordKeyPurchase / recordKeySale catch up with the history.
LEMMA RowsOwnership == RowsContext /\ recordKeyTrade => RowsInv'
<1> SUFFICES ASSUME RowsContext, recordKeyTrade, Quiet'
             PROVE  EventsOfHdr' /\ StoredRows' /\ DerivedRows'
  BY DEF RowsInv
<1> USE DEF RowsContext
<1>1. PICK t \in ev : ownership' = Bump(ownership, t, seq)
  BY DEF recordKeyTrade
<1>2. /\ pc = "ownership" /\ pc' = "supply"
      /\ UNCHANGED <<cp, ing, activity, supply, hdr, seq, evs, ev, raced, crashes>>
  BY DEF recordKeyTrade, env
<1>3. EventsOfHdr /\ StoredRows /\ DerivedRows
  BY <1>2 DEF RowsInv, Quiet
<1>4. /\ seq \in Ledgers /\ t \in Tx /\ \A u \in ev : u = t
      /\ ownership \in [Tx -> [Ledgers -> Nat]]
  BY <1>2, SeqIsLedger DEF Working, IInv, TypeCall, TypeDb, Positions
<1>5. EventsOfHdr' /\ StoredRows'
  BY <1>2, <1>3 DEF EventsOfHdr, StoredRows, Working
<1>6. ASSUME NEW u \in Tx, NEW n \in Ledgers
      PROVE  /\ ownership'[u][n] + Count(OwnershipDue(u, n)') = activity'[u][n]
             /\ supply'[u][n] + Count(SupplyDue(u, n)') = activity'[u][n]
  <2>1. SupplyDue(u, n)' <=> SupplyDue(u, n)
    BY <1>2 DEF SupplyDue
  <2>2. ~ OwnershipDue(u, n)'
    BY <1>2 DEF OwnershipDue
  <2>3. ownership[u][n] + Count(OwnershipDue(u, n)) = activity[u][n]
    BY <1>3 DEF DerivedRows
  <2>4. ownership[u][n] \in Nat /\ ownership'[u][n] \in Nat
    BY <1>1, <1>4, BumpCounts DEF IInv, TypeDb
  <2>5. CASE u = t /\ n = seq
    <3>1. OwnershipDue(u, n) /\ ownership'[u][n] = ownership[u][n] + 1
      BY <1>1, <1>2, <1>4, <2>5, BumpExact DEF OwnershipDue
    <3> QED
      BY <1>2, <1>3, <2>1, <2>2, <2>3, <2>4, <3>1 DEF Count, DerivedRows
  <2>6. CASE ~ (u = t /\ n = seq)
    <3>1. ~ OwnershipDue(u, n) /\ ownership'[u][n] = ownership[u][n]
      BY <1>1, <1>2, <1>4, <2>6, BumpExact DEF OwnershipDue
    <3> QED
      BY <1>2, <1>3, <2>1, <2>2, <2>3, <2>4, <3>1 DEF Count, DerivedRows
  <2> QED
    BY <2>5, <2>6
<1>7. DerivedRows'
  BY <1>6 DEF DerivedRows
<1> QED
  BY <1>5, <1>7

\* persistCirculatingSupply copies the history's counts.
LEMMA RowsSupply == RowsContext /\ persistCirculatingSupply => RowsInv'
<1> SUFFICES ASSUME RowsContext, persistCirculatingSupply, Quiet'
             PROVE  EventsOfHdr' /\ StoredRows' /\ DerivedRows'
  BY DEF RowsInv
<1> USE DEF RowsContext
<1>1. PICK t \in ev : supply' = [u \in Tx |-> IF CreatorOf[u] = CreatorOf[t]
                                              THEN activity[u] ELSE supply[u]]
  BY DEF persistCirculatingSupply
<1>2. /\ pc = "supply" /\ pc' = "process"
      /\ UNCHANGED <<cp, ing, activity, ownership, hdr, seq, evs, raced, crashes>>
  BY DEF persistCirculatingSupply, env
<1>3. EventsOfHdr /\ StoredRows /\ DerivedRows
  BY <1>2 DEF RowsInv, Quiet
<1>4. \A u \in ev : u = t
  BY <1>2 DEF IInv, Positions
<1>5. EventsOfHdr' /\ StoredRows'
  BY <1>2, <1>3 DEF EventsOfHdr, StoredRows, Working
<1>6. ASSUME NEW u \in Tx, NEW n \in Ledgers
      PROVE  /\ ownership'[u][n] + Count(OwnershipDue(u, n)') = activity'[u][n]
             /\ supply'[u][n] + Count(SupplyDue(u, n)') = activity'[u][n]
  <2>1. ~ OwnershipDue(u, n) /\ ~ OwnershipDue(u, n)' /\ ~ SupplyDue(u, n)'
    BY <1>2 DEF OwnershipDue, SupplyDue
  <2>2. supply[u][n] + Count(SupplyDue(u, n)) = activity[u][n]
    BY <1>3 DEF DerivedRows
  <2>3. supply[u][n] \in Nat /\ activity[u][n] \in Nat
    BY DEF IInv, TypeDb
  <2>4. supply'[u][n] = activity[u][n]
    <3>1. CASE CreatorOf[u] = CreatorOf[t]
      BY <1>1, <3>1
    <3>2. CASE CreatorOf[u] # CreatorOf[t]
      <4>1. ~ SupplyDue(u, n) /\ supply'[u] = supply[u]
        BY <1>1, <1>4, <3>2 DEF SupplyDue
      <4> QED
        BY <2>2, <2>3, <4>1 DEF Count
    <3> QED
      BY <3>1, <3>2
  <2>5. ownership'[u][n] + Count(OwnershipDue(u, n)') = activity'[u][n]
    BY <1>2, <1>3, <2>1 DEF DerivedRows, Count
  <2> QED
    BY <1>2, <2>1, <2>3, <2>4, <2>5 DEF Count
<1>7. DerivedRows'
  BY <1>6 DEF DerivedRows
<1> QED
  BY <1>5, <1>7

\* A skipped trade and the cursor are beside the read models.
LEMMA RowsCursor == RowsContext /\ (skipIncomplete \/ advanceIndexerCursor) => RowsInv'
<1> SUFFICES ASSUME RowsContext, skipIncomplete \/ advanceIndexerCursor, Quiet'
             PROVE  EventsOfHdr' /\ StoredRows' /\ DerivedRows'
  BY DEF RowsInv
<1> USE DEF RowsContext
<1>1. /\ pc = "process" /\ pc' \in {"process", "record"}
      /\ UNCHANGED <<cp, ing, activity, ownership, supply, hdr, seq, evs, raced>>
      /\ crashes' = crashes \/ crashes' = crashes + 1
  BY DEF skipIncomplete, advanceIndexerCursor, env, db
<1>2. Quiet
  <2>1. crashes \in Nat
    BY ConstantsAssumption DEF IInv, TypeCall
  <2> QED
    BY <1>1, <2>1 DEF Quiet
<1>3. EventsOfHdr /\ StoredRows /\ DerivedRows
  BY <1>2 DEF RowsInv
<1>4. EventsOfHdr'
  BY <1>1, <1>3 DEF EventsOfHdr, Working
<1>5. \A t \in Tx, n \in Ledgers : /\ OwnershipDue(t, n)' <=> OwnershipDue(t, n)
                                   /\ SupplyDue(t, n)' <=> SupplyDue(t, n)
  BY <1>1 DEF OwnershipDue, SupplyDue
<1> QED
  BY <1>1, <1>3, <1>4, <1>5, RowsKept

\* recordLedgerIngestion: the trades of the new ledger are in none below it.
LEMMA RowsRecord == RowsContext /\ recordLedgerIngestion => RowsInv'
<1> SUFFICES ASSUME RowsContext, recordLedgerIngestion, Quiet'
             PROVE  EventsOfHdr' /\ StoredRows' /\ DerivedRows'
  BY DEF RowsInv
<1> USE DEF RowsContext
<1>1. /\ pc = "record" /\ pc' \in {"header", "idle"}
      /\ cp' = [cp EXCEPT ![seq] = cur]
      /\ ing' = [t \in Tx |-> IF t \in evs
                              THEN [ledger |-> seq, status |-> "CONFIRMED"]
                              ELSE ing[t]]
      /\ UNCHANGED <<activity, ownership, supply, raced, crashes>>
  BY DEF recordLedgerIngestion, env
<1>2. Quiet
  BY <1>1 DEF Quiet
<1>3. EventsOfHdr /\ StoredRows /\ DerivedRows /\ HistoryMatches /\ Open /\ Linked
  BY <1>2 DEF RowsInv, HistoryInv, LinkInv, Steady, Quiet
<1>4. seq \in Ledgers /\ seq \in Nat /\ seq \in 1..Len(hdr) /\ seq \in 0..Len(hdr)
      /\ todo = {} /\ evs = hdr[seq].txs
  BY <1>1, <1>3, SeqIsLedger, HashTypes DEF Working, IInv, Positions, EventsOfHdr, Ledgers
<1>5. StackOf(hdr, seq - 1) /\ cur = Cut(hdr, seq)
  BY <1>1, <1>3 DEF Linked, Working
<1>6. cur[seq] = hdr[seq]
  <2>1. seq \in 1..seq
    BY <1>4
  <2> QED
    BY <1>4, <1>5, <2>1, HashTypes, CutFacts
<1>7. cp'[seq] = cur /\ \A n \in Ledgers : n # seq => cp'[n] = cp[n]
  BY <1>1, <1>4, HashTypes
<1>8. cp[seq] = NoHash /\ \A n \in Ledgers : n >= seq => cp[n] = NoHash
  BY <1>1, <1>3, <1>4 DEF Open, EmptyFrom, Working
<1>9. ASSUME NEW t \in Tx, NEW n \in Ledgers, cp'[n] # NoHash
      PROVE  /\ activity'[t][n] = Count(t \in cp'[n][n].txs \ Incomplete)
             /\ t \in cp'[n][n].txs => ing'[t].ledger = n /\ ing'[t].status = "CONFIRMED"
  <2>1. CASE n = seq
    <3>1. activity[t][seq] = Count(t \in evs \ Incomplete)
      BY <1>1, <1>3, <1>4, <1>8 DEF HistoryMatches, Written, Working, Count
    <3>2. cp'[n][n].txs = evs
      BY <1>4, <1>6, <1>7, <2>1
    <3> QED
      BY <1>1, <2>1, <3>1, <3>2
  <2>2. CASE n # seq
    <3>1. cp'[n] = cp[n] /\ cp[n] # NoHash
      BY <1>7, <1>9, <2>2
    <3>2. n \in 1..(seq - 1) /\ n \in 1..n
      BY <1>4, <1>8, <2>2, <3>1, ConstantsAssumption DEF Ledgers
    <3>3. n \in 0..Len(hdr) /\ n \in 1..Len(hdr)
      BY <1>4, <3>2, HashTypes
    <3>4. cp[n] = Cut(hdr, n)
      BY <1>5, <3>2 DEF StackOf
    <3>5. cp[n][n] = hdr[n]
      BY <3>2, <3>3, <3>4, HashTypes, CutFacts
    <3>6. hdr[n].txs \cap hdr[seq].txs = {}
      BY <1>4, <2>2, <3>3 DEF LinkInv, Distinct
    <3>7. t \in cp[n][n].txs => ing'[t] = ing[t]
      BY <1>1, <1>4, <3>5, <3>6
    <3> QED
      BY <1>1, <1>3, <3>1, <3>7 DEF StoredRows
  <2> QED
    BY <2>1, <2>2
<1>10. EventsOfHdr' /\ StoredRows'
  BY <1>1, <1>9 DEF EventsOfHdr, StoredRows, Working
<1>11. \A t \in Tx, n \in Ledgers : /\ OwnershipDue(t, n)' <=> OwnershipDue(t, n)
                                    /\ SupplyDue(t, n)' <=> SupplyDue(t, n)
  BY <1>1 DEF OwnershipDue, SupplyDue
<1>12. DerivedRows'
  BY <1>1, <1>3, <1>11 DEF DerivedRows, Count
<1> QED
  BY <1>10, <1>12

\* The rows are kept by every step.
LEMMA RowsStep == RowsContext /\ [Next]_vars => RowsInv'
<1> SUFFICES ASSUME RowsContext, [Next]_vars PROVE RowsInv'
  OBVIOUS
<1>1. CASE UNCHANGED vars
  BY <1>1 DEF vars, RowsContext, RowsInv, Quiet, EventsOfHdr, StoredRows, DerivedRows,
              OwnershipDue, SupplyDue, Count
<1>2. CASE Worker
  BY <1>2, RowsControl, RowsRollback, RowsCreate, RowsOwnership, RowsSupply, RowsCursor,
     RowsRecord DEF Worker
<1>3. CASE crash
  <2>1. crashes' = crashes + 1 /\ crashes \in Nat
    BY <1>3, ConstantsAssumption DEF crash, RowsContext, IInv, TypeCall
  <2> QED
    BY <2>1 DEF RowsInv, Quiet
<1> QED
  BY <1>1, <1>2, <1>3, RowsEnv DEF Next

\* All invariants together, for every behaviour.
LEMMA RowsAlways == Spec /\ []ForkInWindow => []RowsContext
<1>1. Init => RowsContext
  BY InitInv, LinkInit, FreshInit, HistoryInit, RowsInit DEF RowsContext
<1>2. RowsContext /\ ForkInWindow /\ [Next]_vars => RowsContext'
  BY StepInv, LinkStep, HistoryStep, RowsStep DEF RowsContext
<1> QED
  BY <1>1, <1>2, PTL DEF Spec

\* Without a fault the read models are those of the canonical chain: history as
\* in HistoryIsCanonical, and positions and supply equal to the history unless a
\* second reorg overtook a repair, for chains of every length whose forks are no
\* deeper than findForkPoint's walk.
THEOREM ReadModelIsCanonical == Spec /\ []ForkInWindow => []FaultFreeReadModel
<1>1. RowsContext => FaultFreeReadModel
  <2> SUFFICES ASSUME RowsContext PROVE FaultFreeReadModel
    OBVIOUS
  <2>1. FaultFreeHistory
    BY HistoryHolds DEF RowsContext
  <2>2. ASSUME crashes = 0, pc = "idle", ~ raced
        PROVE  ownership = activity /\ supply = activity
    <3>1. DerivedRows
      BY <2>2 DEF RowsContext, RowsInv, Quiet
    <3>2. /\ activity \in [Tx -> [Ledgers -> Nat]] /\ ownership \in [Tx -> [Ledgers -> Nat]]
          /\ supply \in [Tx -> [Ledgers -> Nat]]
      BY DEF RowsContext, IInv, TypeDb
    <3>3. ASSUME NEW t \in Tx, NEW n \in Ledgers
          PROVE  ownership[t][n] = activity[t][n] /\ supply[t][n] = activity[t][n]
      <4>1. ~ OwnershipDue(t, n) /\ ~ SupplyDue(t, n)
        BY <2>2 DEF OwnershipDue, SupplyDue
      <4>2. ownership[t][n] + 0 = activity[t][n] /\ supply[t][n] + 0 = activity[t][n]
        BY <3>1, <4>1 DEF DerivedRows, Count
      <4> QED
        BY <3>2, <4>2
    <3>4. \A t \in Tx : ownership[t] = activity[t] /\ supply[t] = activity[t]
      BY <3>2, <3>3
    <3> QED
      BY <3>2, <3>4
  <2> QED
    BY <2>1, <2>2 DEF FaultFreeReadModel, FaultFreeHistory
<1> QED
  BY <1>1, RowsAlways, PTL

\* On a chain no longer than the walk no assumption on the forks is needed.
COROLLARY ShortChainIsCanonical ==
  ASSUME MaxLedger <= MaxWalk
  PROVE  Spec => []FaultFreeReadModel
  BY ReadModelIsCanonical, WholeWindow, PTL
=============================================================================
