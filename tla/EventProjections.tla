-------------------------- MODULE EventProjections --------------------------
(***************************************************************************)
(* processIndexerEvents (modules/indexer/indexer-pipeline.service.ts) and  *)
(* the event handlers it dispatches a batch to: the read models built from *)
(* chain events.  A batch goes to the handlers family by family in a fixed *)
(* order, each family in chain order, and the ledger cursor moves once the *)
(* whole batch is done.  Batches may overlap: a worker that was replaced   *)
(* during a deployment may still be running, and a failed batch is         *)
(* delivered again.                                                        *)
(*                                                                         *)
(* An event is its position in the log, which stands for its ledger, its   *)
(* (txHash, eventIndex) and its chain order.  A row of a read model is     *)
(* [val, at, st]: its number, the event it was last written from and its   *)
(* status.  A transaction whose first statement inserts the unique row of  *)
(* its event is one step: a second one for that event waits for it.        *)
(* Trades are detailed in ReorgGuard and governance events in Governance.  *)
(***************************************************************************)
EXTENDS Integers, Sequences, FiniteSets, FiniteSetsExt

CONSTANTS
  Worker,    \* processes running processIndexerEvents
  Row,       \* rows of the read models, each of one family
  Logs,      \* event logs to index
  MaxFaults  \* bound: crashes, failed statements, lost cursor writes

\* The families in the order processIndexerEvents dispatches them.
Dispatch == <<
  {"score", "reportSubmitted", "reportResolved", "changeProposed",
   "changeEnded", "transferBlocked"},
  {"spotlight"}, {"social"}, {"twap"}, {"snapshot"}, {"depth"},
  {"leaderboard"}, {"whitelisted", "unlisted"}, {"subscription"},
  {"pollCreated", "pollVote", "pollClosed"},
  {"curveProposed", "curveExecuted"}, {"milestone"}, {"retirement"},
  {"auctionCreated", "bid", "auctionSettled"}, {"trade"},
  {"dividend", "dividendClaimed"}, {"revenue", "revenueClaimed"},
  {"lpAdded", "lpClaimed", "lpRemoved"}, {"coCreator"},
  {"accrued", "deployed"}, {"tip"}, {"feeReceived", "allocated"},
  {"earlySlot"}, {"granted", "revoked"}, {"health"}, {"badge"} >>

Type  == UNION {Dispatch[i] : i \in 1..Len(Dispatch)}

\* What a handler does with an event it cannot parse: throw, move it to the
\* indexer's dead letter queue, or else log a warning and go on.  Some warn of
\* a missing field but throw on a timestamp or an expiry they cannot read.
Strict == UNION {Dispatch[i] : i \in {1, 2, 10, 11, 12, 13, 14, 17, 26}}
Dated  == UNION {Dispatch[i] : i \in {15, 22, 23, 24}}
ToDLQ  == UNION {Dispatch[i] : i \in {4, 5, 6, 7, 19, 20, 21}}

\* ok: the event can be parsed; garbled: if not, only a time is at fault.
EventRecord == [type : Type, row : Row, amt : Nat, ref : Nat,
                ok : BOOLEAN, garbled : BOOLEAN]

\* Events are about one row only if their handlers write to the same table;
\* trades, dividends and revenue shares all refer to a creator's key.
KeyEvents == Dispatch[15] \cup Dispatch[16] \cup Dispatch[17]
SameTable(t, u) ==
  \/ \E i \in 1..Len(Dispatch) : t \in Dispatch[i] /\ u \in Dispatch[i]
  \/ t \in KeyEvents /\ u \in KeyEvents

ASSUME ProjectionsAssumption ==
  /\ MaxFaults \in Nat
  /\ Logs \subseteq Seq(EventRecord)
  /\ \A l \in Logs : \A e, f \in 1..Len(l) :
       l[e].row = l[f].row => SameTable(l[e].type, l[f].type)

VARIABLES
  log,      \* the chain's events, in chain order
  cursor,   \* IndexedLedger
  stored,   \* events with a row of their own, unique per event
  view,     \* the read model rows
  claim,    \* distribution -> the dividend claim event that marked it;
            \* revenue claim -> the distribution it was booked on
  seen,     \* distribution -> trades in the balances it was split by
  dlq,      \* IndexerDLQ
  cache,    \* Redis entry per row; "excused": see Invalidate and FillCache
  reader,   \* the row a reader has loaded and not yet cached
  pc, todo, hi, loc,  \* workers: position, events left, end of the batch
                      \* and what the handler has read
  applied,  \* events a handler has dealt with (history)
  faults,   \* faults so far
  overlap   \* two batches were in progress at once (history)

work == <<pc, todo, hi, loc>>
data == <<stored, view, claim, seen>>
vars == <<log, cursor, data, dlq, cache, reader, work, applied, faults, overlap>>

Event == 1..Len(log)
NoRow == [val |-> 0, at |-> 0, st |-> "none"]
RowOf(e) == log[e].row
Amount == [e \in Event |-> log[e].amt]
Same(r, T) == {e \in stored : RowOf(e) = r /\ log[e].type \in T}

TypeOK ==
  /\ log \in Logs /\ cursor \in 0..Len(log)
  /\ stored \subseteq Event /\ dlq \subseteq Event /\ applied \subseteq Event
  /\ view \in [Row -> [val : Int, at : Event \cup {0},
                       st : {"none", "active", "closed"}]]
  /\ claim \in [Event -> Event \cup {0}] /\ seen \in [Event -> SUBSET Event]
  /\ cache \in [Row -> {"none", "fresh", "stale", "excused"}]
  /\ reader \in [Row -> {"idle", "current", "old"}]
  /\ pc \in [Worker -> {"idle", "next", "create", "retry", "read", "write",
                        "tx", "log", "invalidate"}]
  /\ todo \in [Worker -> SUBSET Event] /\ hi \in [Worker -> Event \cup {0}]
  /\ loc \in [Worker -> SUBSET Event]
  /\ faults \in 0..MaxFaults /\ overlap \in BOOLEAN

Init ==
  /\ log \in Logs /\ cursor = 0
  /\ stored = {} /\ dlq = {} /\ applied = {}
  /\ view = [r \in Row |-> NoRow]
  /\ claim = [e \in Event |-> 0] /\ seen = [e \in Event |-> {}]
  /\ cache = [r \in Row |-> "none"]
  /\ reader = [r \in Row |-> "idle"]
  /\ pc = [w \in Worker |-> "idle"] /\ todo = [w \in Worker |-> {}]
  /\ hi = [w \in Worker |-> 0] /\ loc = [w \in Worker |-> {}]
  /\ faults = 0 /\ overlap = FALSE

-----------------------------------------------------------------------------
(* A batch *)

Rank == [t \in Type |-> CHOOSE i \in 1..Len(Dispatch) : t \in Dispatch[i]]

\* Mutant: the families are dispatched in the opposite order.
FamiliesBackwards(e, f) ==
  LET i == Rank[log[e].type]  j == Rank[log[f].type]
  IN  i > j \/ (i = j /\ e < f)

\* e is handled before f when both are in a batch.
Before(e, f) ==
  LET i == Rank[log[e].type]  j == Rank[log[f].type]
  IN  i < j \/ (i = j /\ e < f)

\* The event worker w is at, if any.
Turn(w) == {e \in todo[w] : \A f \in todo[w] : f = e \/ Before(e, f)}

Handles(w, e, T) == pc[w] = "next" /\ log[e].type \in T /\ log[e].ok

\* w takes the events after the cursor up to some ledger.
Fetch(w) ==
  /\ pc[w] = "idle"
  /\ \E h \in Event :
       /\ h > cursor
       /\ todo' = [todo EXCEPT ![w] = (cursor + 1)..h]
       /\ hi' = [hi EXCEPT ![w] = h]
  /\ pc' = [pc EXCEPT ![w] = "next"]
  /\ overlap' = (overlap \/ \E v \in Worker : v # w /\ pc[v] # "idle")
  /\ UNCHANGED <<log, cursor, data, dlq, cache, reader, loc, applied, faults>>

\* The handler of e returns.
Done(w, e) ==
  /\ todo' = [todo EXCEPT ![w] = @ \ {e}]
  /\ pc' = [pc EXCEPT ![w] = "next"]
  /\ loc' = [loc EXCEPT ![w] = {}]
  /\ UNCHANGED hi

\* The handler goes on at another step, having read s.
Goto(w, label, s) ==
  /\ pc' = [pc EXCEPT ![w] = label]
  /\ loc' = [loc EXCEPT ![w] = s]
  /\ UNCHANGED <<todo, hi>>

\* The batch is given up: what is done stays, the cursor is not moved.
Abandon(w) ==
  /\ pc' = [pc EXCEPT ![w] = "idle"]
  /\ todo' = [todo EXCEPT ![w] = {}]
  /\ hi' = [hi EXCEPT ![w] = 0]
  /\ loc' = [loc EXCEPT ![w] = {}]

Elsewhere == <<log, cursor, dlq, faults, overlap>>

\* The handler of e commits its statement: tables S, rows V.  A cached or
\* loaded answer about e's row is out of date if anything changed.
Wrote(w, e, S, V) ==
  LET changed == S # stored \/ V # view IN
  /\ stored' = S /\ view' = V /\ applied' = applied \cup {e}
  /\ cache' = [cache EXCEPT ![RowOf(e)] =
                 IF changed /\ @ = "fresh" THEN "stale" ELSE @]
  /\ reader' = [reader EXCEPT ![RowOf(e)] =
                  IF changed /\ @ = "current" THEN "old" ELSE @]
  /\ UNCHANGED <<claim, seen, Elsewhere>>

Quiet == UNCHANGED <<data, cache, reader, Elsewhere>>

\* A handler that throws ends the batch.
Throw(w, e) == Abandon(w) /\ UNCHANGED applied /\ Quiet

\* The handler of e, which cannot be parsed, throws.
Throws(e) == log[e].type \in Strict \/ (log[e].type \in Dated /\ log[e].garbled)

\* Mutant: an event that cannot be parsed is only logged, never queued.
MalformedDropped(w, e) ==
  /\ pc[w] = "next" /\ ~log[e].ok
  /\ IF Throws(e) THEN Abandon(w) ELSE Done(w, e)
  /\ UNCHANGED <<log, cursor, data, dlq, cache, reader, applied, faults, overlap>>

\* Mutant: an event that cannot be parsed always fails the batch.
MalformedThrows(w, e) ==
  /\ pc[w] = "next" /\ ~log[e].ok /\ Throw(w, e)

\* The parse* functions reject e.
Malformed(w, e) ==
  /\ pc[w] = "next" /\ ~log[e].ok
  /\ IF Throws(e) THEN Abandon(w) ELSE Done(w, e)
  /\ dlq' = IF log[e].type \in ToDLQ THEN dlq \cup {e} ELSE dlq
  /\ applied' = IF Throws(e) \/ log[e].type \in ToDLQ THEN applied
                ELSE applied \cup {e}
  /\ UNCHANGED <<log, cursor, data, cache, reader, faults, overlap>>

\* The cached answers about e's row are deleted.  cacheInvalidate swallows
\* Redis errors: the entry then stays until its TTL.
Invalidate(w, e) ==
  /\ pc[w] = "invalidate"
  /\ \/ cache' = [cache EXCEPT ![RowOf(e)] = "none"] /\ UNCHANGED faults
     \/ /\ faults < MaxFaults /\ faults' = faults + 1
        /\ cache' = [cache EXCEPT ![RowOf(e)] =
                       IF @ = "none" THEN @ ELSE "excused"]
  /\ Done(w, e)
  /\ UNCHANGED <<log, cursor, data, dlq, reader, applied, overlap>>

-----------------------------------------------------------------------------
(* Handlers that insert a row of their own and then drop the cache *)

\* One statement stores the event's row, or finds it there.
InsertOnce(w, e, T) ==
  /\ Handles(w, e, T)
  /\ Wrote(w, e, stored \cup {e}, view) /\ Goto(w, "invalidate", {})

processSpotlightBidEvents(w, e) == InsertOnce(w, e, {"spotlight"})
processTwapUpdatedEvent(w, e) == InsertOnce(w, e, {"twap"})
processMilestoneRewardClaimedEvents(w, e) == InsertOnce(w, e, {"milestone"})
processKeyRetirementEvents(w, e) == InsertOnce(w, e, {"retirement"})
processEarlySlotFilledEvents(w, e) == InsertOnce(w, e, {"earlySlot"})
recordFundsAllocated(w, e) == InsertOnce(w, e, {"allocated"})

\* A badge is also unique per (wallet, badgeType): amt is the badge type.
processBadgeMintedEvents(w, e) ==
  /\ Handles(w, e, {"badge"})
  /\ LET owned == \E f \in Same(RowOf(e), {"badge"}) : log[f].amt = log[e].amt
     IN  Wrote(w, e, IF owned THEN stored ELSE stored \cup {e}, view)
  /\ Goto(w, "invalidate", {})

\* No row: the event only says that a cached score is out of date.
processHealthScoreEvents(w, e) ==
  /\ Handles(w, e, {"health"})
  /\ Wrote(w, e, stored, view) /\ Goto(w, "invalidate", {})

\* The cached status, read from the chain, goes first, then the log row.
processSubscriptionCreatedEvent(w, e) ==
  \/ /\ Handles(w, e, {"subscription"})
     /\ cache' = [cache EXCEPT ![RowOf(e)] = "none"]
     /\ Goto(w, "log", {})
     /\ UNCHANGED <<data, reader, applied, Elsewhere>>
  \/ /\ pc[w] = "log"
     /\ stored' = stored \cup {e} /\ applied' = applied \cup {e}
     /\ Done(w, e)
     /\ UNCHANGED <<view, claim, seen, cache, reader, Elsewhere>>

-----------------------------------------------------------------------------
(* Handlers that log the event and fold it into a row, in one transaction *)

\* Mutant: the event is folded in without looking at its log row.
LogAndFoldTwice(w, e, T, v) ==
  /\ Handles(w, e, T)
  /\ Wrote(w, e, stored \cup {e}, [view EXCEPT ![RowOf(e)] = v])
  /\ Goto(w, "invalidate", {})

\* Mutant: a replayed event returns before the cache is dropped.
LogAndFoldQuietly(w, e, T, v) ==
  /\ Handles(w, e, T)
  /\ IF e \in stored
     THEN Wrote(w, e, stored, view) /\ Done(w, e)
     ELSE /\ Wrote(w, e, stored \cup {e}, [view EXCEPT ![RowOf(e)] = v])
          /\ Goto(w, "invalidate", {})

\* An event already logged changes nothing; the cache is dropped all the same.
LogAndFold(w, e, T, v) ==
  /\ Handles(w, e, T)
  /\ IF e \in stored THEN Wrote(w, e, stored, view)
     ELSE Wrote(w, e, stored \cup {e}, [view EXCEPT ![RowOf(e)] = v])
  /\ Goto(w, "invalidate", {})

Plus(e, n) == [val |-> view[RowOf(e)].val + n, at |-> e, st |-> "active"]

processTipEvent(w, e) == LogAndFold(w, e, {"tip"}, Plus(e, log[e].amt))
recordFeeReceived(w, e) ==
  LogAndFold(w, e, {"feeReceived"}, Plus(e, log[e].amt))

\* A deployment that finds no reserve row creates one with balance 0.
processReserveEvent(w, e) ==
  \/ LogAndFold(w, e, {"accrued"}, Plus(e, log[e].amt))
  \/ LogAndFold(w, e, {"deployed"},
       Plus(e, IF view[RowOf(e)].st = "none" THEN 0 ELSE -log[e].amt))

\* A grant or a revocation overwrites the state row, whatever wrote it last.
processIssuerVerificationEvents(w, e) ==
  \/ LogAndFold(w, e, {"granted"},
       [val |-> log[e].amt, at |-> e, st |-> "active"])
  \/ LogAndFold(w, e, {"revoked"}, [val |-> 0, at |-> e, st |-> "closed"])

\* The position of an LP event; claims only touch accruedRewards, and an
\* event of an unknown position is logged and otherwise ignored.
LpPosition(e) ==
  LET p == view[RowOf(e)] IN
  CASE log[e].type = "lpAdded" ->
         [val |-> log[e].amt + (IF p.st = "closed" THEN 0 ELSE p.val),
          at |-> e, st |-> "active"]
    [] log[e].type = "lpRemoved" /\ p.st # "none" ->
         [val |-> 0, at |-> e, st |-> "closed"]
    [] OTHER -> p

\* Nothing is cached for positions, and a replay returns at once.
processLpEvents(w, e) ==
  /\ Handles(w, e, {"lpAdded", "lpClaimed", "lpRemoved"})
  /\ IF e \in stored THEN Wrote(w, e, stored, view)
     ELSE Wrote(w, e, stored \cup {e},
                [view EXCEPT ![RowOf(e)] = LpPosition(e)])
  /\ Done(w, e)

\* The newest event of S in chain order.
Latest(S) == CHOOSE e \in S : \A f \in S : f <= e

\* The row of an invoice entity, recomputed from all its events in S under
\* an advisory lock: order of arrival does not matter.
InvoiceRow(e, S) ==
  LET r == RowOf(e)
      Of(T) == {f \in S : RowOf(f) = r /\ log[f].type \in T}
      Ends  == Of({"reportResolved", "changeEnded"})
  IN  CASE log[e].type = "score" ->
             [val |-> log[Latest(Of({"score"}))].amt,
              at |-> Latest(Of({"score"})), st |-> "active"]
        [] log[e].type = "transferBlocked" -> view[r]
        [] OTHER ->
             IF Of({"reportSubmitted", "changeProposed"}) = {} THEN view[r]
             ELSE IF Ends = {}
             THEN [val |-> 0, at |-> Latest(Of(Type)), st |-> "active"]
             ELSE [val |-> log[Latest(Ends)].amt, at |-> Latest(Ends),
                   st |-> "closed"]

\* Only scores and transfer checks are cached.
processInvoiceProtocolEvents(w, e) ==
  /\ Handles(w, e, Dispatch[1])
  /\ LET S == stored \cup {e}
     IN  Wrote(w, e, S, [view EXCEPT ![RowOf(e)] = InvoiceRow(e, S)])
  /\ IF log[e].type \in {"score", "transferBlocked"}
     THEN Goto(w, "invalidate", {}) ELSE Done(w, e)

-----------------------------------------------------------------------------
(* Handlers of objects: created once, then referred to *)

\* The object an event refers to is not there: the handler throws.
Unknown(w, e) ==
  /\ Handles(w, e, {"pollVote", "pollClosed", "curveExecuted", "bid",
                    "auctionSettled"})
  /\ view[RowOf(e)].st = "none"
  /\ Throw(w, e)

\* upsert with an empty update, or a create that finds the row.
CreateObject(w, e, T) ==
  /\ Handles(w, e, T)
  /\ Wrote(w, e, stored, IF view[RowOf(e)].st # "none" THEN view
                         ELSE [view EXCEPT ![RowOf(e)] =
                                 [val |-> 0, at |-> e, st |-> "active"]])
  /\ Goto(w, "invalidate", {})

\* The object is ended by e, unless it `isEnded' in the eyes of its handler.
EndObject(w, e, T, isEnded) ==
  /\ Handles(w, e, T) /\ view[RowOf(e)].st # "none"
  /\ Wrote(w, e, stored,
           IF isEnded THEN view
           ELSE [view EXCEPT ![RowOf(e)] =
                   [val |-> @.val, at |-> e, st |-> "closed"]])
  /\ Goto(w, "invalidate", {})

\* A poll is closed once.  A curve update or an auction is left alone only if
\* e itself ended it: another event, also a replayed one, ends it again.
EndedBy(e) == view[RowOf(e)].st = "closed" /\ view[RowOf(e)].at = e

applyPollCreated(w, e) == CreateObject(w, e, {"pollCreated"})
applyPollClosed(w, e) ==
  EndObject(w, e, {"pollClosed"}, view[RowOf(e)].st = "closed")

\* One vote per wallet, which amt stands for.
applyPollVoteCast(w, e) ==
  /\ Handles(w, e, {"pollVote"}) /\ view[RowOf(e)].st # "none"
  /\ LET voted == \E f \in Same(RowOf(e), {"pollVote"}) :
                    log[f].amt = log[e].amt
     IN  Wrote(w, e, IF voted THEN stored ELSE stored \cup {e}, view)
  /\ Goto(w, "invalidate", {})

processCurveUpdateEvents(w, e) ==
  \/ CreateObject(w, e, {"curveProposed"})
  \/ EndObject(w, e, {"curveExecuted"}, EndedBy(e))

\* The auction row after bid e, which leaves the settling event alone.
HighestBid(old, e) ==
  IF log[e].amt > old.val
  THEN [val |-> log[e].amt, at |-> old.at, st |-> old.st] ELSE old

\* A bid is stored and compared with the highest in one transaction.
processKeyLaunchAuctionEvents(w, e) ==
  \/ CreateObject(w, e, {"auctionCreated"})
  \/ /\ Handles(w, e, {"bid"}) /\ view[RowOf(e)].st # "none"
     /\ Wrote(w, e, stored \cup {e},
              [view EXCEPT ![RowOf(e)] = HighestBid(@, e)])
     /\ Goto(w, "invalidate", {})
  \/ EndObject(w, e, {"auctionSettled"}, EndedBy(e))

-----------------------------------------------------------------------------
(* Handlers that keep the newest event of a row *)

\* Mutant: the level is overwritten whatever it holds.
WhateverHeld(e) == TRUE

\* The updateMany guard: only a strictly newer event overwrites a row.
NewerThanStored(e) == view[RowOf(e)].st # "none" /\ view[RowOf(e)].at < e

SetRow(e) == [view EXCEPT ![RowOf(e)] =
                [val |-> log[e].amt, at |-> e, st |-> "active"]]

\* updateMany, then create, then updateMany again if the create lost a race.
NewestWinsSteps(w, e, T) ==
  /\ log[e].type \in T
  /\ \/ /\ Handles(w, e, T)
        /\ IF NewerThanStored(e)
           THEN Wrote(w, e, stored, SetRow(e)) /\ Goto(w, "invalidate", {})
           ELSE Goto(w, "create", {}) /\ UNCHANGED applied /\ Quiet
     \/ /\ pc[w] = "create"
        /\ IF view[RowOf(e)].st = "none"
           THEN Wrote(w, e, stored, SetRow(e)) /\ Goto(w, "invalidate", {})
           ELSE Goto(w, "retry", {}) /\ UNCHANGED applied /\ Quiet
     \/ /\ pc[w] = "retry"
        /\ Wrote(w, e, stored, IF NewerThanStored(e) THEN SetRow(e) ELSE view)
        /\ Goto(w, "invalidate", {})

processDepthUpdatedEvent(w, e) == NewestWinsSteps(w, e, {"depth"})
processLeaderboardUpdatedEvent(w, e) == NewestWinsSteps(w, e, {"leaderboard"})
processCoCreatorEvent(w, e) == NewestWinsSteps(w, e, {"coCreator"})

\* The same in one INSERT ... ON CONFLICT DO UPDATE ... WHERE.
processSnapshotTakenEvent(w, e) ==
  /\ Handles(w, e, {"snapshot"})
  /\ Wrote(w, e, stored, IF view[RowOf(e)].st = "none" \/ NewerThanStored(e)
                         THEN SetRow(e) ELSE view)
  /\ Goto(w, "invalidate", {})

\* Whitelist entries are added and deleted whatever came before.
processWhitelistEvents(w, e) ==
  /\ Handles(w, e, {"whitelisted", "unlisted"})
  /\ Wrote(w, e, stored,
       [view EXCEPT ![RowOf(e)] =
          [val |-> 0, at |-> e, st |-> IF log[e].type = "whitelisted"
                                       THEN "active" ELSE "closed"]])
  /\ Goto(w, "invalidate", {})

\* amt is the event's socialUpdatedAt, 0 if it has none, and val the row's.
\* Older by either clock is stale.
isStaleRelativeToSnapshot(e) ==
  /\ view[RowOf(e)].st # "none"
  /\ \/ log[e].amt # 0 /\ log[e].amt < view[RowOf(e)].val
     \/ view[RowOf(e)].at > e

\* An event without a socialUpdatedAt leaves the row's as it is.
SocialRow(e) ==
  [val |-> IF log[e].amt = 0 THEN view[RowOf(e)].val ELSE log[e].amt,
   at |-> e, st |-> "active"]

\* Four statements: insert the event's row (an event that has one is skipped
\* altogether), read the snapshot, upsert it unless stale, drop the cache.
processSocialMetadataUpdatedEvent(w, e) ==
  /\ log[e].type = "social"
  /\ \/ /\ Handles(w, e, {"social"}) /\ e \in stored
        /\ Done(w, e) /\ UNCHANGED applied /\ Quiet
     \/ /\ Handles(w, e, {"social"}) /\ e \notin stored
        /\ stored' = stored \cup {e}
        /\ Goto(w, "read", {})
        /\ UNCHANGED <<view, claim, seen, cache, reader, applied, Elsewhere>>
     \/ /\ pc[w] = "read"
        /\ IF isStaleRelativeToSnapshot(e)
           THEN Wrote(w, e, stored, view) /\ Goto(w, "invalidate", {})
           ELSE Goto(w, "write", {}) /\ UNCHANGED applied /\ Quiet
     \/ /\ pc[w] = "write"
        /\ Wrote(w, e, stored, [view EXCEPT ![RowOf(e)] = SocialRow(e)])
        /\ Goto(w, "invalidate", {})

-----------------------------------------------------------------------------
(* Trades, dividends and revenue shares *)

\* A trade enters the holders' balances.  Only that it is there matters to the
\* distributions; how often a replay adds it is ReorgGuard's subject.
processTradeEvents(w, e) ==
  /\ Handles(w, e, {"trade"})
  /\ stored' = stored \cup {e} /\ applied' = applied \cup {e}
  /\ Done(w, e)
  /\ UNCHANGED <<view, claim, seen, cache, reader, Elsewhere>>

\* Distribution e, split over the balances read before: a transaction that
\* finds the distribution there returns without dropping the cache.
CreateDistribution(w, e) ==
  /\ pc[w] = "tx" /\ log[e].type \in {"dividend", "revenue"}
  /\ applied' = applied \cup {e}
  /\ IF e \in stored
     THEN Done(w, e) /\ UNCHANGED <<stored, seen, cache>>
     ELSE /\ stored' = stored \cup {e}
          /\ seen' = [seen EXCEPT ![e] = loc[w]]
          /\ cache' = [cache EXCEPT ![RowOf(e)] =
                         IF @ = "fresh" THEN "stale" ELSE @]
          /\ Goto(w, "invalidate", {})
  /\ UNCHANGED <<view, claim, reader, Elsewhere>>

\* The holders are read outside the transaction.
processDividendDistributed(w, e) ==
  /\ Handles(w, e, {"dividend"})
  /\ Goto(w, "tx", Same(RowOf(e), {"trade"})) /\ UNCHANGED applied /\ Quiet

processRevenueDistributedEvent(w, e) ==
  /\ Handles(w, e, {"revenue"})
  /\ IF e \in stored
     THEN Done(w, e) /\ applied' = applied \cup {e}
     ELSE Goto(w, "tx", Same(RowOf(e), {"trade"})) /\ UNCHANGED applied
  /\ Quiet

\* A claim marks the share of the distribution it names, or the only one that
\* is pending, of the claimed amount if it carries one (amt, else 0).  The
\* claim event itself is not recorded; one that matches nothing is dropped.
processDividendClaimed(w, e) ==
  /\ Handles(w, e, {"dividendClaimed"})
  /\ LET matching == {d \in Same(RowOf(e), {"dividend"}) :
                        /\ claim[d] = 0 /\ log[e].ref \in {0, d}
                        /\ log[e].amt \in {0, log[d].amt}}
     IN  IF Cardinality(matching) = 1
         THEN /\ \E d \in matching : claim' = [claim EXCEPT ![d] = e]
              /\ Goto(w, "invalidate", {})
         ELSE Done(w, e) /\ UNCHANGED claim
  /\ applied' = applied \cup {e}
  /\ UNCHANGED <<stored, view, seen, cache, reader, Elsewhere>>

Claimed(d) ==
  MapThenSumSet(LAMBDA f : Amount[f],
    {f \in Same(RowOf(d), {"revenueClaimed"}) : claim[f] = d})

\* What is left of the wallet's share of distribution d.
Remaining(d) == log[d].amt - Claimed(d)

\* The distribution that claim e is for, left[d] being what is left of each
\* candidate: the one named, else the only exact match, else the only one with
\* enough left; none if there are several.
Select(e, left) ==
  LET enough == {d \in DOMAIN left :
                   log[e].ref \in {0, d} /\ left[d] >= log[e].amt}
      exact  == {d \in enough : left[d] = log[e].amt}
  IN  IF log[e].ref = 0 /\ Cardinality(exact) = 1 THEN exact
      ELSE IF Cardinality(enough) = 1 THEN enough ELSE {}

SelectedDistribution(e) ==
  Select(e, [d \in Same(RowOf(e), {"revenue"}) |-> Remaining(d)])

processRevenueShareClaimedEvent(w, e) ==
  \/ /\ Handles(w, e, {"revenueClaimed"}) /\ e \in stored
     /\ Done(w, e) /\ applied' = applied \cup {e} /\ Quiet
  \/ /\ Handles(w, e, {"revenueClaimed"}) /\ e \notin stored
     /\ IF SelectedDistribution(e) = {} THEN Throw(w, e)
        ELSE /\ Goto(w, "tx", SelectedDistribution(e))
             /\ UNCHANGED applied /\ Quiet
  \/ /\ pc[w] = "tx" /\ log[e].type = "revenueClaimed"
     /\ applied' = applied \cup {e}
     /\ IF e \in stored
        THEN Done(w, e) /\ UNCHANGED <<stored, claim, cache>>
        ELSE /\ stored' = stored \cup {e}
             /\ \E d \in loc[w] : claim' = [claim EXCEPT ![e] = d]
             /\ cache' = [cache EXCEPT ![RowOf(e)] =
                            IF @ = "fresh" THEN "stale" ELSE @]
             /\ Goto(w, "invalidate", {})
     /\ UNCHANGED <<view, seen, reader, Elsewhere>>

-----------------------------------------------------------------------------
(* The end of a batch, faults, readers *)

\* Mutant: the cursor is set past the batch.
CursorPast(w) ==
  /\ pc[w] = "next" /\ todo[w] = {}
  /\ cursor' = hi[w] + 1 /\ UNCHANGED faults
  /\ Abandon(w)
  /\ UNCHANGED <<log, data, dlq, cache, reader, applied, overlap>>

\* The cursor is set to the batch's last ledger, whatever it holds; an error
\* of that write is swallowed.
advanceIndexerCursorForBatch(w) ==
  /\ pc[w] = "next" /\ todo[w] = {}
  /\ \/ cursor' = hi[w] /\ UNCHANGED faults
     \/ faults < MaxFaults /\ faults' = faults + 1 /\ UNCHANGED cursor
  /\ Abandon(w)
  /\ UNCHANGED <<log, data, dlq, cache, reader, applied, overlap>>

\* The process dies, or a statement fails and the error ends the batch.
Crash(w) ==
  /\ pc[w] # "idle" /\ faults < MaxFaults /\ faults' = faults + 1
  /\ Abandon(w)
  /\ UNCHANGED <<log, cursor, data, dlq, cache, reader, applied, overlap>>

\* Families that keep the newest event; families whose handler drops the
\* cache on every delivery.
Newest == {"snapshot", "depth", "leaderboard", "coCreator"}
Reinvalidates ==
  Newest \cup {"spotlight", "twap", "milestone", "retirement", "earlySlot",
    "allocated", "badge", "tip", "feeReceived", "accrued", "deployed",
    "granted", "revoked", "pollCreated", "pollVote", "pollClosed",
    "curveProposed", "curveExecuted", "auctionCreated", "bid",
    "auctionSettled"}

\* A read endpoint of these families misses the cache and loads row r ...
LoadRow(r) ==
  /\ \E e \in Event : RowOf(e) = r /\ log[e].type \in Reinvalidates
  /\ cache[r] = "none" /\ reader[r] = "idle"
  /\ reader' = [reader EXCEPT ![r] = "current"]
  /\ UNCHANGED <<log, cursor, data, dlq, cache, work, applied, faults, overlap>>

\* ... and caches what it loaded.  If the row was written in between, the
\* entry is out of date until its TTL, which no handler can prevent.
FillCache(r) ==
  /\ reader[r] # "idle"
  /\ cache' = [cache EXCEPT ![r] =
                 IF reader[r] = "current" THEN "fresh" ELSE "excused"]
  /\ reader' = [reader EXCEPT ![r] = "idle"]
  /\ UNCHANGED <<log, cursor, data, dlq, work, applied, faults, overlap>>

Handler(w, e) ==
  \/ processInvoiceProtocolEvents(w, e) \/ processSpotlightBidEvents(w, e)
  \/ processSocialMetadataUpdatedEvent(w, e) \/ processTwapUpdatedEvent(w, e)
  \/ processSnapshotTakenEvent(w, e) \/ processDepthUpdatedEvent(w, e)
  \/ processLeaderboardUpdatedEvent(w, e) \/ processWhitelistEvents(w, e)
  \/ processSubscriptionCreatedEvent(w, e) \/ applyPollCreated(w, e)
  \/ applyPollVoteCast(w, e) \/ applyPollClosed(w, e)
  \/ processCurveUpdateEvents(w, e)
  \/ processMilestoneRewardClaimedEvents(w, e)
  \/ processKeyRetirementEvents(w, e) \/ processKeyLaunchAuctionEvents(w, e)
  \/ processTradeEvents(w, e) \/ processDividendDistributed(w, e)
  \/ processDividendClaimed(w, e) \/ processRevenueDistributedEvent(w, e)
  \/ CreateDistribution(w, e) \/ processRevenueShareClaimedEvent(w, e)
  \/ processLpEvents(w, e) \/ processCoCreatorEvent(w, e)
  \/ processReserveEvent(w, e) \/ processTipEvent(w, e)
  \/ recordFeeReceived(w, e) \/ recordFundsAllocated(w, e)
  \/ processEarlySlotFilledEvents(w, e)
  \/ processIssuerVerificationEvents(w, e) \/ processHealthScoreEvents(w, e)
  \/ processBadgeMintedEvents(w, e)
  \/ Unknown(w, e) \/ Malformed(w, e) \/ Invalidate(w, e)

processIndexerEvents(w) ==
  \/ \E e \in Turn(w) : Handler(w, e)
  \/ advanceIndexerCursorForBatch(w)

Next ==
  \/ \E w \in Worker : Fetch(w) \/ processIndexerEvents(w) \/ Crash(w)
  \/ \E r \in Row : LoadRow(r) \/ FillCache(r)

\* A started batch is worked off, and the poller keeps fetching.
Fairness ==
  \A w \in Worker : WF_vars(Fetch(w)) /\ WF_vars(processIndexerEvents(w))

Spec == Init /\ [][Next]_vars /\ Fairness

-----------------------------------------------------------------------------
(* Properties *)

\* Handled as far as the indexer promises: dealt with, or in the dead letter
\* queue; for a social event the promise is its log row.
Covered(e) ==
  \/ e \in applied \cup dlq
  \/ log[e].type = "social" /\ e \in stored

SumOf(S) == MapThenSumSet(LAMBDA e : Amount[e], S)

\* The reserve events S are in order: an accrual first, and never more
\* deployed than was accrued by then.
Backed(S) ==
  LET Upto(d, t) == SumOf({f \in S : f <= d /\ log[f].type = t})
  IN  /\ log[Min(S)].type = "accrued"
      /\ \A d \in S : Upto(d, "deployed") <= Upto(d, "accrued")

\* A running total can never drift from its event log: tips, fees, reserves
\* whose events are in order, liquidity since the last removal; the
\* verification state is the last event's and the best bid the highest one.
\* (Out of order a reserve does drift, and the floor at zero that a comment
\* promises for a mis-ordered deployment is not in the code.)
ViewMatchesLog ==
  \A r \in Row :
    LET S(T) == Same(r, T)
        Lp == S({"lpAdded", "lpRemoved"})
        Since == {e \in Lp : log[e].type = "lpAdded" /\
                   \A f \in Lp : log[f].type = "lpRemoved" => f < e}
        Ver == S({"granted", "revoked"})
        Res == S({"accrued", "deployed"})
    IN  /\ S({"tip", "feeReceived"}) # {} =>
             view[r].val = SumOf(S({"tip", "feeReceived"}))
        /\ (Res # {} /\ Backed(Res)) =>
             view[r].val = SumOf(S({"accrued"})) - SumOf(S({"deployed"}))
        /\ Since # {} => view[r].val = SumOf(Since)
        /\ Ver # {} => view[r].st = (IF log[Max(Ver)].type = "granted"
                                     THEN "active" ELSE "closed")
        /\ S({"bid"}) # {} => view[r].val = Max({log[e].amt : e \in S({"bid"})})

\* "Replays, overlapping ingestion windows and out-of-order delivery all
\* converge on the latest state": the row always holds the newest event dealt
\* with, also while two workers race through updateMany, create and retry.
\* The social read model goes by socialUpdatedAt as well as by ledger: it holds
\* no event older than one dealt with by both, and one dealt with and not held
\* is older by socialUpdatedAt.  As its log row is a statement of its own, it
\* promises this only without faults and overlapping batches.
NewestWins ==
  /\ \A e \in applied : log[e].type \in Newest => view[RowOf(e)].at >= e
  /\ (faults = 0 /\ ~overlap) =>
       \A e \in 1..cursor :
         (log[e].type = "social" /\ log[e].ok) =>
           LET row == view[RowOf(e)] IN
           \/ row.at >= e /\ row.val >= log[e].amt
           \/ log[e].amt # 0 /\ row.val > log[e].amt

\* One of several events that end the same curve update or auction: replays
\* write them in turn, so a replay is not without effect.
EndsAgain(e) ==
  /\ log[e].type \in {"curveExecuted", "auctionSettled"}
  /\ \E f \in Event :
       f # e /\ RowOf(f) = RowOf(e) /\ log[f].type = log[e].type

\* "... that also covers a crash between the write and the invalidation": an
\* answer left out of date by a handler belongs to an event that is still
\* being handled or that the cursor has not passed, so a redelivery drops it
\* (unless the object was ended by several events).
CacheFollows ==
  \A r \in Row :
    cache[r] = "stale" =>
      \E e \in Event :
        /\ RowOf(e) = r
        /\ \/ e > cursor
           \/ log[e].type \notin Reinvalidates \/ EndsAgain(e)
           \/ \E w \in Worker : e \in todo[w]

\* A distribution is split over balances that contain every trade before it,
\* although trades and distributions of a batch go to different handlers; and
\* the claims booked on one never exceed the wallet's share, although what is
\* left is read before the claim is inserted.
DistributionsSound ==
  \A d \in stored :
    /\ log[d].type \in {"dividend", "revenue"} =>
         \A t \in Event :
           (t < d /\ log[t].type = "trade" /\ log[t].ok /\ RowOf(t) = RowOf(d))
             => t \in seen[d]
    /\ log[d].type = "revenue" => Claimed(d) <= log[d].amt

\* The distributions that the revenue claims of the log are booked on when it
\* is indexed in chain order, up to event n; 0 for a claim that is rejected.
Bookings[n \in 0..Len(log)] ==
  IF n = 0 THEN [e \in Event |-> 0]
  ELSE LET before == Bookings[n - 1]
           D == {d \in 1..(n - 1) : RowOf(d) = RowOf(n) /\ log[d].type = "revenue"}
           left == [d \in D |->
                      log[d].amt - SumOf({f \in 1..(n - 1) : before[f] = d})]
           chosen == Select(n, left)
       IN  IF log[n].type = "revenueClaimed" /\ chosen # {}
           THEN [before EXCEPT ![n] = CHOOSE d \in chosen : TRUE]
           ELSE before

\* An event that fails its batch on every delivery: it cannot be parsed, the
\* object it refers to does not exist, or no single distribution can take the
\* claim.
Poison(e) ==
  \/ ~log[e].ok /\ Throws(e)
  \/ /\ log[e].type \in {"pollVote", "pollClosed", "curveExecuted", "bid",
                         "auctionSettled"}
     /\ \A f \in 1..(e - 1) :
          RowOf(f) # RowOf(e) \/ Rank[log[f].type] # Rank[log[e].type]
  \/ log[e].type = "revenueClaimed" /\ Bookings[e][e] = 0

\* Every log without such an event is indexed to its end and stays so, with
\* overlapping workers moving the cursor back and forth on the way.
IndexerProgresses ==
  (\A e \in Event : ~Poison(e)) => <>[](cursor = Len(log))

\* The cursor "must only move forward over events that have already been fully
\* processed", and "events are applied in chain order": with crashes, replays,
\* overlapping batches, unparsable events and lost cursor writes the indexer
\* is still the at-least-once delivery in family order of OrderedDelivery.
Delivery == INSTANCE OrderedDelivery WITH
  family  <- [e \in Event |-> Rank[log[e].type]],
  handled <- {e \in Event : Covered(e)},
  mark    <- cursor
DeliverySpec == Delivery!Spec
=============================================================================
