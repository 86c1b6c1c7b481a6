---------------------------- MODULE KeyPositions ----------------------------
(***************************************************************************)
(* The holders' positions in one key (KeyOwnership.balance), its           *)
(* circulatingSupply, and everything that writes them:                     *)
(*   modules/creator/sell.controller.ts           API sells                *)
(*   modules/keys/key-deprecation.service.ts      deprecation and buyback  *)
(*   modules/indexer/indexer-pipeline.service.ts  trades seen on chain     *)
(*   modules/ownership/ownership.service.ts       purchases, sales         *)
(*   modules/webhooks/horizon-webhook.routes.ts   payments for orders      *)
(*   modules/keys/key-freeze.service.ts           freezing                 *)
(* Sells, buybacks and recordKeySale read the balance and write an         *)
(* absolute value later; the other paths increment it in the database.     *)
(* Cost basis, prices and fees are left out: no guard depends on them      *)
(* except slippage, which may reject any sell.                             *)
(***************************************************************************)
EXTENDS Integers, FiniteSets, FiniteSetsExt

CONSTANTS
  Holder,     \* wallets
  Op,         \* operations
  MaxOps,     \* bound: operations attempted in a behaviour
  KindOf, HolderOf, QtyOf,  \* what each of them is
  OrderOf,    \* the pending purchase a payment is for
  StartBalance,  \* what each holder bought before
  OpFaults    \* bound: crashes and failed statements

Kinds == {"sell", "buyback", "bought", "sold", "payment"}

ASSUME KeyPositionsAssumption ==
  /\ IsFiniteSet(Holder) /\ OpFaults \in Nat /\ StartBalance \in Nat
  /\ KindOf \in [Op -> Kinds] /\ HolderOf \in [Op -> Holder]
  /\ QtyOf \in [Op -> Nat \ {0}] /\ IsFiniteSet(Op) /\ MaxOps \in Nat
  \* an order has one buyer
  /\ \A o, p \in {q \in Op : KindOf[q] = "payment"} :
       OrderOf[o] = OrderOf[p] => HolderOf[o] = HolderOf[p]

Order == {OrderOf[o] : o \in Op}

VARIABLES
  balance,   \* KeyOwnership.balance
  frozen,    \* KeyOwnership.frozen
  supply,    \* CreatorProfile.circulatingSupply
  traded,    \* sum of the amounts of the key's Activity rows
  settled,   \* orders that are no longer PENDING
  deprecated,\* CreatorProfile.deprecatedAt is set
  opPc, opRead, \* operations: position; balance and supply they have read
  earned,    \* what each holder should have (history)
  busyTwice, \* holders who had two operations in progress (history)
  crowded,   \* two operations were in progress at once (history)
  apiUsed, indexed, \* kinds of writers so far (history)
  opFaults

positionVars == <<balance, frozen, supply, traded, settled, deprecated, opPc,
                  opRead, earned, busyTwice, crowded, apiUsed, indexed, opFaults>>
opHistory == <<busyTwice, crowded>>

InProgress(o) == opPc[o] \notin {"idle", "done"}

PositionsTypeOK ==
  /\ balance \in [Holder -> Int] /\ frozen \in [Holder -> BOOLEAN]
  /\ supply \in Int /\ traded \in Int /\ settled \subseteq Order
  /\ deprecated \in BOOLEAN /\ apiUsed \in BOOLEAN /\ indexed \in BOOLEAN
  /\ opPc \in [Op -> {"idle", "tx", "write", "fallback", "credit", "supply",
                      "persist", "done"}]
  /\ opRead \in [Op -> [balance : Int, supply : Int]]
  /\ earned \in [Holder -> Int] /\ busyTwice \subseteq Holder
  /\ crowded \in BOOLEAN /\ opFaults \in 0..OpFaults

PositionsInit ==
  /\ balance = [h \in Holder |-> StartBalance]
  /\ frozen = [h \in Holder |-> FALSE]
  /\ supply = StartBalance * Cardinality(Holder) /\ traded = supply
  /\ settled = {} /\ deprecated = FALSE
  /\ opPc = [o \in Op |-> "idle"]
  /\ opRead = [o \in Op |-> [balance |-> 0, supply |-> 0]]
  /\ earned = balance /\ busyTwice = {} /\ crowded = FALSE
  /\ apiUsed = FALSE /\ indexed = FALSE /\ opFaults = 0

-----------------------------------------------------------------------------

Is(o, kind, label) == KindOf[o] = kind /\ opPc[o] = label
GoOn(o, label) == opPc' = [opPc EXCEPT ![o] = label]

\* Operation o begins; what it overlaps is remembered.
Begin(o, label) ==
  LET others == {p \in Op \ {o} : InProgress(p)} IN
  /\ Cardinality({p \in Op : opPc[p] # "idle"}) < MaxOps
  /\ GoOn(o, label)
  /\ crowded' = (crowded \/ others # {})
  /\ busyTwice' = IF \E p \in others : HolderOf[p] = HolderOf[o]
                  THEN busyTwice \cup {HolderOf[o]} ELSE busyTwice

Refused(o) ==
  /\ GoOn(o, "done")
  /\ UNCHANGED <<balance, frozen, supply, traded, settled, deprecated, opRead,
                 earned, opHistory, apiUsed, indexed, opFaults>>

\* The position and the supply as the operation's transaction reads them.
ReadPosition(o) ==
  opRead' = [opRead EXCEPT ![o] = [balance |-> balance[HolderOf[o]],
                                   supply |-> supply]]

SetBalance(o, b) == balance' = [balance EXCEPT ![HolderOf[o]] = b]

\* History: the holder is owed q keys more.
Earns(o, q) == earned' = [earned EXCEPT ![HolderOf[o]] = @ + q]

-----------------------------------------------------------------------------
(* API sells and buybacks *)

\* The checks before the transaction: trading active, position not frozen,
\* wallet not suspended, depth.
httpSellCreatorKey(o) ==
  /\ Is(o, "sell", "idle")
  /\ \/ ~frozen[HolderOf[o]] /\ Begin(o, "tx")
     \/ Begin(o, "done")
  /\ UNCHANGED <<balance, frozen, supply, traded, settled, deprecated, opRead,
                 earned, apiUsed, indexed, opFaults>>

\* The transaction reads supply and position; too small a balance or a price
\* below min_price ends it.
SellRead(o) ==
  /\ Is(o, "sell", "tx")
  /\ \/ Refused(o)
     \/ /\ balance[HolderOf[o]] >= QtyOf[o]
        /\ ReadPosition(o) /\ GoOn(o, "write")
        /\ UNCHANGED <<balance, frozen, supply, traded, settled, deprecated,
                       earned, opHistory, apiUsed, indexed, opFaults>>

\* Position, supply and the logs are written from what was read.
SellCommit(o) ==
  /\ Is(o, "sell", "write")
  /\ SetBalance(o, opRead[o].balance - QtyOf[o]) /\ Earns(o, -QtyOf[o])
  /\ supply' = opRead[o].supply - QtyOf[o]
  /\ apiUsed' = TRUE /\ GoOn(o, "done")
  /\ UNCHANGED <<frozen, traded, settled, deprecated, opRead, opHistory,
                 indexed, opFaults>>

\* Set once, by the admins' multisig; the holders are told.
deprecateKey ==
  /\ ~deprecated /\ deprecated' = TRUE
  /\ UNCHANGED <<balance, frozen, supply, traded, settled, opPc, opRead,
                 earned, opHistory, apiUsed, indexed, opFaults>>

\* A holder of a deprecated key sells the whole position back within the
\* window: the transaction's reads ...
processBuyback(o) ==
  /\ Is(o, "buyback", "idle")
  /\ \/ /\ deprecated /\ balance[HolderOf[o]] > 0
        /\ ReadPosition(o) /\ Begin(o, "write")
     \/ Begin(o, "done") /\ UNCHANGED opRead
  /\ UNCHANGED <<balance, frozen, supply, traded, settled, deprecated, earned,
                 apiUsed, indexed, opFaults>>

\* ... and its writes: the position is emptied, whatever it holds by now.
BuybackCommit(o) ==
  /\ Is(o, "buyback", "write")
  /\ SetBalance(o, 0) /\ Earns(o, -opRead[o].balance)
  /\ supply' = Max({0, opRead[o].supply - opRead[o].balance})
  /\ apiUsed' = TRUE /\ GoOn(o, "done")
  /\ UNCHANGED <<frozen, traded, settled, deprecated, opRead, opHistory,
                 indexed, opFaults>>

-----------------------------------------------------------------------------
(* Trades seen on chain *)

\* processTradeEvents: the Activity row first ...
TradeActivity(o) ==
  /\ KindOf[o] \in {"bought", "sold"} /\ opPc[o] = "idle"
  /\ LET q == IF KindOf[o] = "bought" THEN QtyOf[o] ELSE -QtyOf[o]
     IN  traded' = traded + q /\ Earns(o, q)
  /\ indexed' = TRUE /\ Begin(o, "tx")
  /\ UNCHANGED <<balance, frozen, supply, settled, deprecated, opRead, apiUsed,
                 opFaults>>

\* ... then the position: a buy increments it ...
recordKeyPurchase(o) ==
  /\ Is(o, "bought", "tx")
  /\ SetBalance(o, balance[HolderOf[o]] + QtyOf[o])
  /\ GoOn(o, "supply")
  /\ UNCHANGED <<frozen, supply, traded, settled, deprecated, opRead, earned,
                 opHistory, apiUsed, indexed, opFaults>>

\* ... a sale reads it, giving up on one that is too small ...
recordKeySale(o) ==
  /\ Is(o, "sold", "tx")
  /\ IF balance[HolderOf[o]] >= QtyOf[o]
     THEN ReadPosition(o) /\ GoOn(o, "write")
     ELSE GoOn(o, "fallback") /\ UNCHANGED opRead
  /\ UNCHANGED <<balance, frozen, supply, traded, settled, deprecated, earned,
                 opHistory, apiUsed, indexed, opFaults>>

\* Mutant: the sale goes on to the fallback although it was recorded.
SaleAlwaysFallsBack(o) ==
  /\ Is(o, "sold", "write")
  /\ SetBalance(o, opRead[o].balance - QtyOf[o])
  /\ GoOn(o, "fallback")
  /\ UNCHANGED <<frozen, supply, traded, settled, deprecated, opRead, earned,
                 opHistory, apiUsed, indexed, opFaults>>

\* ... and writes it.  An error of a later statement of recordKeySale is
\* caught like one of the update itself.
recordKeySaleUpdate(o) ==
  /\ Is(o, "sold", "write")
  /\ SetBalance(o, opRead[o].balance - QtyOf[o])
  /\ \/ GoOn(o, "supply") /\ UNCHANGED opFaults
     \/ /\ opFaults < OpFaults /\ opFaults' = opFaults + 1
        /\ GoOn(o, "fallback")
  /\ UNCHANGED <<frozen, supply, traded, settled, deprecated, opRead, earned,
                 opHistory, apiUsed, indexed>>

\* The catch: the balance is decremented in any case, below zero too.
updateOwnershipSell(o) ==
  /\ Is(o, "sold", "fallback")
  /\ SetBalance(o, balance[HolderOf[o]] - QtyOf[o])
  /\ GoOn(o, "supply")
  /\ UNCHANGED <<frozen, supply, traded, settled, deprecated, opRead, earned,
                 opHistory, apiUsed, indexed, opFaults>>

\* persistCirculatingSupply sums the Activity amounts (API sells carry none)
SupplyRead(o) ==
  /\ opPc[o] = "supply"
  /\ opRead' = [opRead EXCEPT ![o].supply = traded] /\ GoOn(o, "persist")
  /\ UNCHANGED <<balance, frozen, supply, traded, settled, deprecated, earned,
                 opHistory, apiUsed, indexed, opFaults>>

\* and writes the sum.
SupplyWrite(o) ==
  /\ opPc[o] = "persist"
  /\ supply' = opRead[o].supply /\ GoOn(o, "done")
  /\ UNCHANGED <<balance, frozen, traded, settled, deprecated, opRead, earned,
                 opHistory, apiUsed, indexed, opFaults>>

-----------------------------------------------------------------------------
(* Payments for pending orders, reported by Horizon, possibly twice *)

\* The order is read; one that is not PENDING is ignored.
horizonWebhook(o) ==
  /\ Is(o, "payment", "idle")
  /\ IF OrderOf[o] \in settled THEN Begin(o, "done") ELSE Begin(o, "tx")
  /\ UNCHANGED <<balance, frozen, supply, traded, settled, deprecated, opRead,
                 earned, apiUsed, indexed, opFaults>>

\* It is settled, whatever its status is by now ...
SettleOrder(o) ==
  /\ Is(o, "payment", "tx")
  /\ settled' = settled \cup {OrderOf[o]}
  /\ earned' = [earned EXCEPT ![HolderOf[o]] =
                  IF OrderOf[o] \in settled THEN @ ELSE @ + QtyOf[o]]
  /\ apiUsed' = TRUE /\ GoOn(o, "credit")
  /\ UNCHANGED <<balance, frozen, supply, traded, deprecated, opRead,
                 opHistory, indexed, opFaults>>

\* ... and the buyer is credited, outside that transaction.
updateOwnershipCredit(o) ==
  /\ Is(o, "payment", "credit")
  /\ balance' = [balance EXCEPT ![HolderOf[o]] = @ + QtyOf[o]]
  /\ GoOn(o, "done")
  /\ UNCHANGED <<frozen, supply, traded, settled, deprecated, opRead, earned,
                 opHistory, apiUsed, indexed, opFaults>>

-----------------------------------------------------------------------------
(* Freezing, faults *)

freezePosition(h) ==
  /\ ~frozen[h] /\ frozen' = [frozen EXCEPT ![h] = TRUE]
  /\ UNCHANGED <<balance, supply, traded, settled, deprecated, opPc, opRead,
                 earned, opHistory, apiUsed, indexed, opFaults>>

unfreezePosition(h) ==
  /\ frozen[h] /\ frozen' = [frozen EXCEPT ![h] = FALSE]
  /\ UNCHANGED <<balance, supply, traded, settled, deprecated, opPc, opRead,
                 earned, opHistory, apiUsed, indexed, opFaults>>

\* The operation's process dies.
OpCrash(o) ==
  /\ InProgress(o) /\ opFaults < OpFaults /\ opFaults' = opFaults + 1
  /\ GoOn(o, "done")
  /\ UNCHANGED <<balance, frozen, supply, traded, settled, deprecated, opRead,
                 earned, opHistory, apiUsed, indexed>>

PositionsNext ==
  \/ deprecateKey
  \/ \E h \in Holder : freezePosition(h) \/ unfreezePosition(h)
  \/ \E o \in Op :
       \/ httpSellCreatorKey(o) \/ SellRead(o) \/ SellCommit(o)
       \/ processBuyback(o) \/ BuybackCommit(o)
       \/ TradeActivity(o) \/ recordKeyPurchase(o) \/ recordKeySale(o)
       \/ recordKeySaleUpdate(o) \/ updateOwnershipSell(o)
       \/ SupplyRead(o) \/ SupplyWrite(o)
       \/ horizonWebhook(o) \/ SettleOrder(o) \/ updateOwnershipCredit(o)
       \/ OpCrash(o)

-----------------------------------------------------------------------------

At(h) == \E o \in Op : HolderOf[o] = h /\ InProgress(o)

\* Whatever the other holders do at the same time, the operations of a holder
\* that did not overlap add up: his balance is what he bought and paid for
\* less what he sold, by every path; and when no two operations overlapped
\* and only the indexer or only sells and buybacks wrote, circulatingSupply
\* is the sum of the balances.
PositionsAddUp ==
  opFaults = 0 =>
    /\ \A h \in Holder \ busyTwice : ~At(h) => balance[h] = earned[h]
    /\ (~crowded /\ ~(apiUsed /\ indexed) /\ settled = {}
        /\ \A o \in Op : ~InProgress(o)) =>
         supply = MapThenSumSet(LAMBDA h : balance[h], Holder)
=============================================================================
