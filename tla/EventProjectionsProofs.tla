----------------------- MODULE EventProjectionsProofs -----------------------
(***************************************************************************)
(* Proofs about EventProjections: the properties of the run, except the    *)
(* liveness property, for every log, every number of workers and rows and  *)
(* every number of faults; and that the indexer implements                 *)
(* OrderedDelivery.                                                        *)
(*                                                                         *)
(* The handlers are first reduced to a dozen shapes of step (HandlerCases, *)
(* where Commit stands for all that write a row in one statement).  Then   *)
(* come the control invariants Labels, Covering and InOrder, from which    *)
(* the refinement follows, and on top of them one invariant per family of  *)
(* read models.                                                            *)
(***************************************************************************)
EXTENDS EventProjections, SetSums, TLAPS

RowRecord == [val : Int, at : Event \cup {0}, st : {"none", "active", "closed"}]

\* Types by what their handler does.
Inserted == {"spotlight", "twap", "milestone", "retirement", "earlySlot",
             "allocated"}
Unique   == {"badge", "pollVote"}
Folded   == {"tip", "feeReceived", "accrued", "deployed", "granted", "revoked"}
LpTypes  == {"lpAdded", "lpClaimed", "lpRemoved"}
Invoice  == {"score", "reportSubmitted", "reportResolved", "changeProposed",
             "changeEnded", "transferBlocked"}
Created  == {"pollCreated", "curveProposed", "auctionCreated"}
Ended    == {"pollClosed", "curveExecuted", "auctionSettled"}
Replaced == {"curveExecuted", "auctionSettled"}
Leveled  == {"depth", "leaderboard", "coCreator"}
Listed   == {"whitelisted", "unlisted"}
Split    == {"dividend", "revenue"}

\* Types whose handler leaves a row of the event's own.
Logged == Inserted \cup Folded \cup LpTypes \cup Invoice \cup Split \cup
          {"bid", "trade", "subscription", "revenueClaimed"}

-----------------------------------------------------------------------------
(* The inductive invariant *)

\* What holds of the event e a worker is at when its handler is at label l.
AtLabel(e, l) ==
  /\ l \notin {"idle", "next"} => log[e].ok
  /\ l = "log" => log[e].type = "subscription"
  /\ l \in {"create", "retry"} => log[e].type \in Leveled
  /\ l = "retry" => view[RowOf(e)].st # "none"
  /\ l \in {"read", "write"} => log[e].type = "social" /\ e \in stored
  /\ l = "tx" => log[e].type \in Split \cup {"revenueClaimed"}
  /\ l = "invalidate" => e \in applied

\* A worker's position fits the event it is at.
Labels ==
  \A w \in Worker :
    /\ pc[w] = "idle" => todo[w] = {}
    /\ todo[w] \subseteq 1..hi[w]
    /\ \A e \in Turn(w) : AtLabel(e, pc[w])

\* What the cursor has passed is handled, and so is the part of a batch that
\* its worker is done with.
Covering ==
  /\ \A e \in 1..cursor : Covered(e)
  /\ \A w \in Worker : \A e \in (1..hi[w]) \ todo[w] : Covered(e)

\* The events of a family were handled for the first time in chain order.
InOrder ==
  \A f \in stored \cup applied : \A e \in 1..(f - 1) :
    Rank[log[e].type] = Rank[log[f].type] => Covered(e)

\* The dead letter queue holds what could not be parsed, the tables only what
\* could; only a social event has its row before it is dealt with.
Parsed ==
  /\ \A e \in dlq : ~log[e].ok
  /\ \A e \in stored : log[e].ok /\ (e \in applied \/ log[e].type = "social")

\* What a handler has left of an event: delivered again, it changes nothing
\* (if it is not one of several that end an object).
Settled(e) ==
  LET r == RowOf(e) IN
  /\ log[e].type \in Newest => view[r].st # "none" /\ view[r].at >= e
  /\ log[e].ok =>
       /\ log[e].type \in Logged => e \in stored
       /\ log[e].type \in Unique =>
            \E f \in Same(r, {log[e].type}) : log[f].amt = log[e].amt
       /\ log[e].type \in Created => view[r].st # "none"
       /\ log[e].type \in Ended => view[r].st = "closed"
       /\ log[e].type \in Replaced /\ ~EndsAgain(e) => view[r].at = e
       /\ log[e].type = "bid" => view[r].st # "none" /\ view[r].val >= log[e].amt

Idempotent == \A e \in applied : Settled(e)

CoreInv == TypeOK /\ Labels /\ Covering /\ InOrder /\ Parsed /\ Idempotent

\* Row r is of a family with one of the types T.
Holds(r, T) == \E e \in Event : RowOf(e) = r /\ log[e].type \in T

Total(S) == SumOver(Amount, S)

\* The running totals.
TotalOK(r) ==
  Holds(r, {"tip", "feeReceived"}) =>
    view[r].val = Total(Same(r, {"tip", "feeReceived"}))

\* The reserves: what was deployed from a row that was not there is lost.
ReserveOK(r) ==
  LET Res == Same(r, {"accrued", "deployed"}) IN
  Holds(r, {"accrued", "deployed"}) =>
    /\ Res = {} => view[r] = NoRow
    /\ Res # {} => view[r].st # "none"
    /\ \A m \in Res :
         ((\A f \in Res : m <= f) /\ log[m].type = "accrued") =>
           view[r].val = Total(Same(r, {"accrued"})) - Total(Same(r, {"deployed"}))

\* The deposits of row r since the last removal.
Deposits(r) ==
  {e \in Same(r, {"lpAdded", "lpRemoved"}) : log[e].type = "lpAdded" /\
     \A f \in Same(r, {"lpAdded", "lpRemoved"}) :
       log[f].type = "lpRemoved" => f < e}

LiquidOK(r) ==
  Holds(r, LpTypes) =>
    /\ view[r].st = "none" => view[r].val = 0
    /\ view[r].st # "closed" => view[r].val = Total(Deposits(r))
    /\ view[r].st = "closed" => Deposits(r) = {}

\* The verification state is the last event's.
VerifiedOK(r) ==
  LET Ver == Same(r, {"granted", "revoked"}) IN
  \A m \in Ver :
    (\A f \in Ver : f <= m) =>
      view[r].st = (IF log[m].type = "granted" THEN "active" ELSE "closed")

\* The best bid is the highest one.
BidsOK(r) ==
  LET B == Same(r, {"bid"}) IN
  Holds(r, {"auctionCreated", "bid", "auctionSettled"}) =>
    /\ view[r].st = "none" => B = {}
    /\ B = {} => view[r].val = 0
    /\ \A f \in B : log[f].amt <= view[r].val
    /\ B # {} => \E f \in B : log[f].amt = view[r].val

ViewOK(r) == TotalOK(r) /\ ReserveOK(r) /\ LiquidOK(r) /\ VerifiedOK(r) /\ BidsOK(r)

ViewInv == \A r \in Row : ViewOK(r)

\* Without faults and overlapping batches one worker runs at a time, on events
\* past the cursor, and a stored social event is heeded or about to be.
OneBatch ==
  /\ \A v, w \in Worker : pc[v] # "idle" /\ pc[w] # "idle" => v = w
  /\ \A w \in Worker : \A e \in todo[w] : e > cursor

\* Row has heeded e: it holds e or a later one that is not older by
\* socialUpdatedAt, or one that is newer by socialUpdatedAt.
Heeded(e, row) ==
  \/ row.at >= e /\ row.val >= log[e].amt
  \/ log[e].amt # 0 /\ row.val > log[e].amt

Social ==
  /\ \A w \in Worker : pc[w] \in {"read", "write"} =>
       \A e \in Turn(w) : /\ view[RowOf(e)].at <= e
                          /\ pc[w] = "write" => ~isStaleRelativeToSnapshot(e)
  /\ \A e \in stored : log[e].type = "social" =>
       \/ Heeded(e, view[RowOf(e)])
       \/ \E w \in Worker : e \in Turn(w) /\ pc[w] \in {"read", "write"}

SocialInv ==
  /\ \A r \in Row : view[r].st = "none" => view[r].at = 0 /\ view[r].val = 0
  /\ \A r \in Row : Holds(r, {"social"}) =>
       view[r].val >= 0 /\ view[r].at \in Same(r, {"social"}) \cup {0}
  /\ ~overlap => OneBatch
  /\ \A e \in applied : log[e].type = "social" /\ log[e].ok => e \in stored
  /\ (faults = 0 /\ ~overlap) => Social

\* An answer left out of date belongs to an event that the cursor has not
\* passed and that no running batch is done with.
CacheInv ==
  \A r \in Row :
    cache[r] = "stale" =>
      \E e \in Event :
        /\ RowOf(e) = r
        /\ \/ log[e].type \notin Reinvalidates \/ EndsAgain(e)
           \/ /\ log[e].ok /\ e > cursor
              /\ \A w \in Worker : e <= hi[w] => e \in todo[w]

\* The trades before distribution d are in s.
TradesIn(d, s) ==
  \A t \in Event :
    (t < d /\ log[t].type = "trade" /\ log[t].ok /\ RowOf(t) = RowOf(d)) => t \in s

SplitInv ==
  /\ \A d \in stored : log[d].type \in Split => TradesIn(d, seen[d])
  /\ \A w \in Worker : pc[w] = "tx" =>
       \A d \in Turn(w) : log[d].type \in Split => TradesIn(d, loc[w])

\* The claims booked on distribution d, and their sum.
Booked(d) == {f \in Same(RowOf(d), {"revenueClaimed"}) : claim[f] = d}
Taken(d) == SumOver(Amount, Booked(d))

\* Enough is left of the distribution a claim is about to be booked on.
ClaimInv ==
  /\ \A d \in Event : log[d].type = "revenue" => Taken(d) <= log[d].amt
  /\ \A w \in Worker : pc[w] = "tx" =>
       \A e \in Turn(w) : log[e].type = "revenueClaimed" /\ e \notin stored =>
         \A d \in loc[w] : /\ d \in stored /\ log[d].type = "revenue"
                           /\ RowOf(d) = RowOf(e)
                           /\ Taken(d) + log[e].amt <= log[d].amt

-----------------------------------------------------------------------------
(* Families *)

\* The families by position.
LEMMA DispatchFacts ==
  /\ Len(Dispatch) = 26
  /\ Dispatch[1] = Invoice /\ Dispatch[2] = {"spotlight"}
  /\ Dispatch[3] = {"social"} /\ Dispatch[4] = {"twap"}
  /\ Dispatch[5] = {"snapshot"} /\ Dispatch[6] = {"depth"}
  /\ Dispatch[7] = {"leaderboard"} /\ Dispatch[8] = Listed
  /\ Dispatch[9] = {"subscription"}
  /\ Dispatch[10] = {"pollCreated", "pollVote", "pollClosed"}
  /\ Dispatch[11] = {"curveProposed", "curveExecuted"}
  /\ Dispatch[12] = {"milestone"} /\ Dispatch[13] = {"retirement"}
  /\ Dispatch[14] = {"auctionCreated", "bid", "auctionSettled"}
  /\ Dispatch[15] = {"trade"} /\ Dispatch[16] = {"dividend", "dividendClaimed"}
  /\ Dispatch[17] = {"revenue", "revenueClaimed"} /\ Dispatch[18] = LpTypes
  /\ Dispatch[19] = {"coCreator"} /\ Dispatch[20] = {"accrued", "deployed"}
  /\ Dispatch[21] = {"tip"} /\ Dispatch[22] = {"feeReceived", "allocated"}
  /\ Dispatch[23] = {"earlySlot"} /\ Dispatch[24] = {"granted", "revoked"}
  /\ Dispatch[25] = {"health"} /\ Dispatch[26] = {"badge"}
BY DEF Dispatch, Invoice, Listed, LpTypes

\* A position in the dispatch order is one of these numbers.
LEMMA Positions ==
  \A i \in 1..26 :
    \/ i = 1 \/ i = 2 \/ i = 3 \/ i = 4 \/ i = 5 \/ i = 6 \/ i = 7 \/ i = 8
    \/ i = 9 \/ i = 10 \/ i = 11 \/ i = 12 \/ i = 13 \/ i = 14 \/ i = 15
    \/ i = 16 \/ i = 17 \/ i = 18 \/ i = 19 \/ i = 20 \/ i = 21 \/ i = 22
    \/ i = 23 \/ i = 24 \/ i = 25 \/ i = 26
OBVIOUS

\* A type belongs to one family.
LEMMA FamiliesDisjoint ==
  ASSUME NEW i \in 1..26, NEW j \in 1..26, NEW t \in Dispatch[i], t \in Dispatch[j]
  PROVE  i = j
BY Positions, DispatchFacts DEF Invoice, Listed, LpTypes

\* Rank is the position of a type's family.
LEMMA RankOf ==
  ASSUME NEW i \in 1..26, NEW t \in Dispatch[i]
  PROVE  t \in Type /\ Rank[t] = i
<1>1. t \in Type
  BY DispatchFacts DEF Type
<1>2. Rank[t] = CHOOSE k \in 1..Len(Dispatch) : t \in Dispatch[k]
  BY <1>1 DEF Rank
<1> QED BY <1>1, <1>2, FamiliesDisjoint, DispatchFacts

\* Every type is in the family at its rank.
LEMMA RankType ==
  ASSUME NEW t \in Type
  PROVE  Rank[t] \in 1..26 /\ t \in Dispatch[Rank[t]]
<1>1. PICK i \in 1..26 : t \in Dispatch[i]
  BY DispatchFacts DEF Type
<1> QED BY <1>1, RankOf

-----------------------------------------------------------------------------
(* Events and turns *)

\* The fields of an event, and what the assumption on the logs says of it.
LEMMA LogFacts ==
  ASSUME TypeOK
  PROVE  /\ Len(log) \in Nat /\ cursor \in Int
         /\ \A e \in Event : /\ e \in Nat /\ e >= 1
                             /\ log[e].type \in Type /\ RowOf(e) \in Row
                             /\ log[e].amt \in Nat /\ log[e].ref \in Nat
                             /\ log[e].ok \in BOOLEAN
         /\ \A e \in Event : Rank[log[e].type] \in 1..26
         /\ \A e, f \in Event :
              RowOf(e) = RowOf(f) => SameTable(log[e].type, log[f].type)
<1>1. log \in Logs /\ log \in Seq(EventRecord)
  BY ProjectionsAssumption DEF TypeOK
<1>2. Len(log) \in Nat /\ cursor \in Int
  BY <1>1 DEF TypeOK
<1>3. ASSUME NEW e \in Event PROVE log[e] \in EventRecord /\ e \in Nat /\ e >= 1
  BY <1>1, <1>2, <1>3 DEF Event
<1>4. \A e \in Event : Rank[log[e].type] \in 1..26
  BY <1>3, RankType DEF EventRecord
<1>5. \A e, f \in Event :
        RowOf(e) = RowOf(f) => SameTable(log[e].type, log[f].type)
  BY <1>1, ProjectionsAssumption, Zenon DEF Event, RowOf
<1> QED BY <1>2, <1>3, <1>4, <1>5 DEF EventRecord, RowOf

\* Two types written to the same table are of one family, or both about keys.
LEMMA TableFacts ==
  ASSUME NEW t \in Type, NEW u \in Type, SameTable(t, u)
  PROVE  Rank[t] = Rank[u] \/ {t, u} \subseteq KeyEvents
BY RankOf, DispatchFacts DEF SameTable

\* A worker is at one event at a time.
LEMMA TurnUnique ==
  ASSUME TypeOK, NEW w \in Worker, NEW e \in Turn(w), NEW f \in Turn(w)
  PROVE  e = f /\ e \in todo[w] /\ e \in Event
<1>1. todo[w] \subseteq Event /\ e \in todo[w] /\ f \in todo[w]
  BY DEF TypeOK, Turn
<1>2. /\ e \in Nat /\ f \in Nat
      /\ Rank[log[e].type] \in 1..26 /\ Rank[log[f].type] \in 1..26
  BY <1>1, LogFacts
<1>3. f = e \/ (Before(e, f) /\ Before(f, e))
  BY DEF Turn
<1> QED BY <1>1, <1>2, <1>3 DEF Before

\* The event a worker is at comes before what is left of the batch.
LEMMA TurnFirst ==
  ASSUME TypeOK, NEW w \in Worker, NEW e \in Turn(w), NEW f \in Event, f < e,
         Rank[log[f].type] <= Rank[log[e].type]
  PROVE  f \notin todo[w]
<1>1. e \in Event
  BY TurnUnique
<1>2. /\ e \in Nat /\ f \in Nat
      /\ Rank[log[e].type] \in 1..26 /\ Rank[log[f].type] \in 1..26
  BY <1>1, LogFacts
<1>3. ~Before(e, f) /\ f # e
  BY <1>2 DEF Before
<1> QED BY <1>3 DEF Turn

\* What was before a worker's event in its family is handled.
LEMMA EarlierCovered ==
  ASSUME TypeOK, Labels, Covering, NEW w \in Worker, NEW e \in Turn(w),
         NEW f \in Event, f < e, Rank[log[f].type] <= Rank[log[e].type]
  PROVE  Covered(f)
<1>1. e \in todo[w] /\ e \in Event /\ f \notin todo[w]
  BY TurnUnique, TurnFirst
<1>2. e \in 1..hi[w] /\ hi[w] \in Int
  BY <1>1, LogFacts DEF Labels, TypeOK, Event
<1>3. f \in (1..hi[w]) \ todo[w]
  BY <1>1, <1>2, LogFacts
<1> QED BY <1>3 DEF Covering

\* The newest event of a non-empty set is one of its elements.
LEMMA LatestIn ==
  ASSUME TypeOK, NEW S \in SUBSET Event, S # {}
  PROVE  Latest(S) \in S /\ \A f \in S : f <= Latest(S)
<1>1. \A e \in S : e \in Nat /\ e <= Len(log)
  BY LogFacts DEF Event
<1> DEFINE B == {n \in Nat : \A f \in S : f <= n}
<1>2. PICK m \in B : \A k \in B : m <= k
  <2>1. B \in SUBSET Nat /\ B # {}
    BY <1>1, LogFacts
  <2> HIDE DEF B
  <2> QED BY <2>1, LeastNatural
<1>3. m \in S
  <2>1. SUFFICES ASSUME m \notin S PROVE FALSE
    OBVIOUS
  <2>2. m \in Nat /\ \A f \in S : f \in Nat /\ f <= m - 1
    BY <1>1, <1>2, <2>1
  <2>3. m - 1 \in B
    BY <2>2
  <2> QED BY <1>2, <2>2, <2>3
<1>4. \A f \in S : f <= m
  BY <1>2
<1> QED BY <1>3, <1>4 DEF Latest

-----------------------------------------------------------------------------
(* The shapes of a handler's steps *)

\* The row a fold handler makes of e's row.
FoldRow(e) ==
  CASE log[e].type \in {"tip", "feeReceived", "accrued"} -> Plus(e, log[e].amt)
    [] log[e].type = "deployed" ->
         Plus(e, IF view[RowOf(e)].st = "none" THEN 0 ELSE -log[e].amt)
    [] log[e].type = "granted" -> [val |-> log[e].amt, at |-> e, st |-> "active"]
    [] OTHER -> [val |-> 0, at |-> e, st |-> "closed"]

LevelRow(e) == [val |-> log[e].amt, at |-> e, st |-> "active"]

\* The statement of e's handler turns row old into new and the event rows S
\* into S2, by type.
Outcome(e, old, new, S, S2) ==
  /\ log[e].type \in Inserted => S2 = S \cup {e} /\ new = old
  /\ log[e].type \in Unique =>
       /\ new = old
       /\ S2 = IF \E f \in Same(RowOf(e), {log[e].type}) : log[f].amt = log[e].amt
               THEN S ELSE S \cup {e}
  /\ log[e].type = "health" => S2 = S /\ new = old
  /\ log[e].type \in Folded \cup LpTypes =>
       /\ S2 = S \cup {e}
       /\ e \in S => new = old
       /\ e \notin S /\ log[e].type \in Folded => new = FoldRow(e)
       /\ e \notin S /\ log[e].type \in LpTypes => new = LpPosition(e)
  /\ log[e].type \in Invoice => S2 = S \cup {e}
  /\ log[e].type \in Created =>
       /\ S2 = S
       /\ new = IF old.st # "none" THEN old
                ELSE [val |-> 0, at |-> e, st |-> "active"]
  /\ log[e].type \in Ended =>
       /\ S2 = S /\ old.st # "none"
       /\ \/ new = [val |-> old.val, at |-> e, st |-> "closed"]
          \/ new = old /\ old.st = "closed"
       /\ log[e].type = "pollClosed" /\ old.st = "closed" => new = old
       /\ log[e].type \in Replaced => new.at = e
  /\ log[e].type = "bid" =>
       S2 = S \cup {e} /\ old.st # "none" /\ new = HighestBid(old, e)
  /\ log[e].type \in Newest =>
       /\ S2 = S
       /\ \/ (old.st = "none" \/ old.at < e) /\ new = LevelRow(e)
          \/ old.st # "none" /\ old.at >= e /\ new = old
  /\ log[e].type \in Listed => S2 = S /\ new.at = e /\ new.st # "none"
  /\ log[e].type = "social" => S2 = S

\* How the social handler gets to its statement.
SocialOutcome(w, e, old, new) ==
  log[e].type = "social" =>
    \/ pc[w] = "read" /\ new = old /\ isStaleRelativeToSnapshot(e)
    \/ pc[w] = "write" /\ new = SocialRow(e)

CommitTypes == Inserted \cup Unique \cup {"health", "bid", "social"} \cup Folded
  \cup LpTypes \cup Invoice \cup Created \cup Ended \cup Newest \cup Listed

\* The handler of e writes its row in one statement.
Commit(w, e, new) ==
  /\ log[e].ok /\ log[e].type \in CommitTypes
  /\ pc[w] \in {"next", "create", "retry", "read", "write"}
  /\ new \in RowRecord /\ (new.st = "none" => new = view[RowOf(e)])
  /\ Wrote(w, e, stored', [view EXCEPT ![RowOf(e)] = new])
  /\ Outcome(e, view[RowOf(e)], new, stored, stored')
  /\ SocialOutcome(w, e, view[RowOf(e)], new)
  /\ \/ Goto(w, "invalidate", {})
     \/ log[e].type \in LpTypes \cup Invoice /\ Done(w, e)

\* The handler of e only reads.
Move(w, e) ==
  /\ UNCHANGED applied /\ Quiet /\ log[e].ok
  /\ \/ pc[w] = "next" /\ log[e].type \in Leveled /\ Goto(w, "create", {})
     \/ /\ pc[w] = "create" /\ log[e].type \in Leveled
        /\ view[RowOf(e)].st # "none" /\ Goto(w, "retry", {})
     \/ /\ pc[w] = "read" /\ log[e].type = "social"
        /\ ~isStaleRelativeToSnapshot(e) /\ Goto(w, "write", {})
     \/ /\ pc[w] = "next" /\ log[e].type \in Split
        /\ Goto(w, "tx", Same(RowOf(e), {"trade"}))
     \/ /\ pc[w] = "next" /\ log[e].type = "revenueClaimed" /\ e \notin stored
        /\ Goto(w, "tx", SelectedDistribution(e))

\* The handler of e finds its row and returns.
Skip(w, e) ==
  /\ pc[w] = "next" /\ log[e].ok /\ e \in stored /\ Done(w, e) /\ Quiet
  /\ \/ log[e].type = "social" /\ UNCHANGED applied
     \/ /\ log[e].type \in {"revenue", "revenueClaimed"}
        /\ applied' = applied \cup {e}

\* The row of a social event is inserted.
LogSocial(w, e) ==
  /\ pc[w] = "next" /\ log[e].ok /\ log[e].type = "social" /\ e \notin stored
  /\ stored' = stored \cup {e} /\ Goto(w, "read", {})
  /\ UNCHANGED <<view, claim, seen, cache, reader, applied, Elsewhere>>

\* The cached status of a subscription is dropped.
DropStatus(w, e) ==
  /\ pc[w] = "next" /\ log[e].ok /\ log[e].type = "subscription"
  /\ cache' = [cache EXCEPT ![RowOf(e)] = "none"]
  /\ Goto(w, "log", {})
  /\ UNCHANGED <<data, reader, applied, Elsewhere>>

\* A trade or a subscription gets its row.
LogOnly(w, e) ==
  /\ log[e].ok /\ log[e].type \in {"trade", "subscription"}
  /\ stored' = stored \cup {e} /\ applied' = applied \cup {e}
  /\ Done(w, e)
  /\ UNCHANGED <<view, claim, seen, cache, reader, Elsewhere>>

\* The transaction of a revenue claim.
BookClaim(w, e) ==
  /\ pc[w] = "tx" /\ log[e].ok /\ log[e].type = "revenueClaimed"
  /\ applied' = applied \cup {e}
  /\ IF e \in stored
     THEN Done(w, e) /\ UNCHANGED <<stored, claim, cache>>
     ELSE /\ stored' = stored \cup {e}
          /\ \E d \in loc[w] : claim' = [claim EXCEPT ![e] = d]
          /\ cache' = [cache EXCEPT ![RowOf(e)] =
                         IF @ = "fresh" THEN "stale" ELSE @]
          /\ Goto(w, "invalidate", {})
  /\ UNCHANGED <<view, seen, reader, Elsewhere>>

Shape(w, e) ==
  \/ \E new : Commit(w, e, new)
  \/ Move(w, e) \/ Skip(w, e) \/ LogSocial(w, e) \/ DropStatus(w, e)
  \/ LogOnly(w, e)
  \/ log[e].ok /\ CreateDistribution(w, e)
  \/ processDividendClaimed(w, e) \/ BookClaim(w, e)
  \/ pc[w] = "next" /\ Throw(w, e)
  \/ Malformed(w, e) \/ Invalidate(w, e)

\* The numbers in a row.
LEMMA RowNumbers ==
  ASSUME TypeOK
  PROVE  \A row \in RowRecord : row.at \in Int /\ row.val \in Int
BY LogFacts DEF RowRecord

\* Rows that the handlers compute are rows.
LEMMA NewRows ==
  ASSUME TypeOK, NEW e \in Event
  PROVE  /\ view[RowOf(e)] \in RowRecord
         /\ FoldRow(e) \in RowRecord /\ FoldRow(e).st # "none"
         /\ LpPosition(e) \in RowRecord
         /\ LpPosition(e).st = "none" => LpPosition(e) = view[RowOf(e)]
         /\ LevelRow(e) \in RowRecord /\ SocialRow(e) \in RowRecord
         /\ HighestBid(view[RowOf(e)], e) \in RowRecord
         /\ HighestBid(view[RowOf(e)], e).st = view[RowOf(e)].st
<1>1. /\ view[RowOf(e)] \in RowRecord /\ e \in Event \cup {0}
      /\ log[e].amt \in Nat
  BY LogFacts DEF TypeOK, RowRecord
<1> DEFINE old == view[RowOf(e)]
<1>2. /\ old.val \in Int /\ old.at \in Event \cup {0}
      /\ old.st \in {"none", "active", "closed"}
      /\ old = [val |-> old.val, at |-> old.at, st |-> old.st]
  BY <1>1 DEF RowRecord
<1>3. FoldRow(e) \in RowRecord /\ FoldRow(e).st # "none"
  BY <1>1, <1>2 DEF FoldRow, Plus, RowRecord
<1>4. /\ LpPosition(e) \in RowRecord
      /\ LpPosition(e).st = "none" => LpPosition(e) = view[RowOf(e)]
  BY <1>1, <1>2 DEF LpPosition, RowRecord
<1>5. LevelRow(e) \in RowRecord /\ SocialRow(e) \in RowRecord
  BY <1>1, <1>2 DEF LevelRow, SocialRow, RowRecord
<1>6. /\ HighestBid(old, e) \in RowRecord
      /\ HighestBid(old, e).st = old.st
  BY <1>1, <1>2 DEF HighestBid, RowRecord
<1> QED BY <1>1, <1>3, <1>4, <1>5, <1>6

\* The row of an invoice entity.
LEMMA InvoiceRows ==
  ASSUME TypeOK, NEW e \in Event, log[e].type \in Invoice
  PROVE  LET v == InvoiceRow(e, stored \cup {e}) IN
         v \in RowRecord /\ (v.st = "none" => v = view[RowOf(e)])
<1> DEFINE r == RowOf(e)
           S == stored \cup {e}
           Of(T) == {f \in S : RowOf(f) = r /\ log[f].type \in T}
           Ends == Of({"reportResolved", "changeEnded"})
<1>0. view[r] \in RowRecord
  BY NewRows
<1>1. /\ \A T : Of(T) \subseteq Event
      /\ log[e].type = "score" => e \in Of({"score"})
      /\ e \in Of(Type)
      /\ \A f \in Event : log[f].amt \in Nat
  BY LogFacts DEF TypeOK
<1>2. /\ log[e].type = "score" => Latest(Of({"score"})) \in Event
      /\ Ends # {} => Latest(Ends) \in Event
      /\ Latest(Of(Type)) \in Event
  <2> HIDE DEF Of
  <2> QED BY <1>1, LatestIn
<1>3. InvoiceRow(e, S) =
        CASE log[e].type = "score" ->
               [val |-> log[Latest(Of({"score"}))].amt,
                at |-> Latest(Of({"score"})), st |-> "active"]
          [] log[e].type = "transferBlocked" -> view[r]
          [] OTHER ->
               IF Of({"reportSubmitted", "changeProposed"}) = {} THEN view[r]
               ELSE IF Ends = {}
               THEN [val |-> 0, at |-> Latest(Of(Type)), st |-> "active"]
               ELSE [val |-> log[Latest(Ends)].amt, at |-> Latest(Ends),
                     st |-> "closed"]
  BY Zenon DEF InvoiceRow
<1> HIDE DEF Of, S, r
<1>4. /\ InvoiceRow(e, S) \in RowRecord
      /\ InvoiceRow(e, S).st = "none" => InvoiceRow(e, S) = view[r]
  BY <1>0, <1>1, <1>2, <1>3 DEF RowRecord
<1> QED BY <1>4 DEF S, r

\* A statement that fits its type's outcome is a Commit.
LEMMA CommitIntro ==
  ASSUME NEW w \in Worker, NEW e \in Event, NEW S, NEW new,
         log[e].ok, log[e].type \in CommitTypes,
         pc[w] \in {"next", "create", "retry", "read", "write"},
         new \in RowRecord, new.st = "none" => new = view[RowOf(e)],
         Wrote(w, e, S, [view EXCEPT ![RowOf(e)] = new]),
         Outcome(e, view[RowOf(e)], new, stored, S),
         SocialOutcome(w, e, view[RowOf(e)], new),
         \/ Goto(w, "invalidate", {})
         \/ log[e].type \in LpTypes \cup Invoice /\ Done(w, e)
  PROVE  Shape(w, e)
<1>1. stored' = S
  BY DEF Wrote
<1>2. Commit(w, e, new)
  BY <1>1, Zenon DEF Commit
<1> QED BY <1>2 DEF Shape

\* A handler that writes no row leaves the read model as it is.
LEMMA SameRow ==
  ASSUME TypeOK, NEW e \in Event
  PROVE  /\ view = [view EXCEPT ![RowOf(e)] = view[RowOf(e)]]
         /\ RowOf(e) \in Row
BY LogFacts DEF TypeOK

\* A handler that inserts a row of its own is a Commit.
LEMMA InsertCase ==
  ASSUME TypeOK, NEW w \in Worker, NEW e \in Event, InsertOnce(w, e, Inserted)
  PROVE  Shape(w, e)
<1> DEFINE new == view[RowOf(e)]
<1>1. /\ log[e].ok /\ log[e].type \in Inserted /\ log[e].type \in CommitTypes
      /\ pc[w] \in {"next", "create", "retry", "read", "write"}
      /\ new \in RowRecord
  BY NewRows DEF InsertOnce, Handles, CommitTypes
<1>2. Outcome(e, view[RowOf(e)], new, stored, stored \cup {e})
  BY <1>1 DEF Outcome, Inserted, Unique, Folded, LpTypes, Invoice, Created,
              Ended, Newest, Listed
<1>3. SocialOutcome(w, e, view[RowOf(e)], new)
  BY <1>1 DEF SocialOutcome, Inserted
<1>4. Wrote(w, e, stored \cup {e}, [view EXCEPT ![RowOf(e)] = new])
  BY SameRow, Zenon DEF InsertOnce
<1>5. Goto(w, "invalidate", {})
  BY DEF InsertOnce
<1> HIDE DEF new
<1> QED BY <1>1, <1>2, <1>3, <1>4, <1>5, CommitIntro DEF new

\* ... so is the handler of badges, unique per wallet and type, ...
LEMMA BadgeCase ==
  ASSUME TypeOK, NEW w \in Worker, NEW e \in Event, processBadgeMintedEvents(w, e)
  PROVE  Shape(w, e)
<1> DEFINE new == view[RowOf(e)]
           S == IF \E f \in Same(RowOf(e), {"badge"}) : log[f].amt = log[e].amt
                THEN stored ELSE stored \cup {e}
<1>1. /\ log[e].ok /\ log[e].type = "badge" /\ log[e].type \in CommitTypes
      /\ pc[w] \in {"next", "create", "retry", "read", "write"}
  BY DEF processBadgeMintedEvents, Handles, CommitTypes, Inserted, Unique, Folded, LpTypes, Invoice, Created,
              Ended, Newest, Listed
<1>2. new \in RowRecord /\ (new.st = "none" => new = view[RowOf(e)])
  BY <1>1, NewRows
<1>3. Outcome(e, view[RowOf(e)], new, stored, S)
  BY <1>1 DEF processBadgeMintedEvents, Handles, Outcome, Inserted, Unique, Folded, LpTypes, Invoice, Created,
              Ended, Newest, Listed
<1>4. SocialOutcome(w, e, view[RowOf(e)], new)
  BY <1>1 DEF SocialOutcome, Inserted, Unique, Folded, LpTypes, Invoice, Created,
              Ended, Newest, Listed
<1>5. Wrote(w, e, S, [view EXCEPT ![RowOf(e)] = new])
  BY SameRow, Zenon DEF processBadgeMintedEvents
<1>6. \/ Goto(w, "invalidate", {})
      \/ log[e].type \in LpTypes \cup Invoice /\ Done(w, e)
  BY <1>1 DEF processBadgeMintedEvents, Handles
<1> HIDE DEF new, S
<1> QED BY <1>1, <1>2, <1>3, <1>4, <1>5, <1>6, CommitIntro

\* ... of poll votes, ...
LEMMA VoteCase ==
  ASSUME TypeOK, NEW w \in Worker, NEW e \in Event, applyPollVoteCast(w, e)
  PROVE  Shape(w, e)
<1> DEFINE new == view[RowOf(e)]
           S == IF \E f \in Same(RowOf(e), {"pollVote"}) : log[f].amt = log[e].amt
                THEN stored ELSE stored \cup {e}
<1>1. /\ log[e].ok /\ log[e].type = "pollVote" /\ log[e].type \in CommitTypes
      /\ pc[w] \in {"next", "create", "retry", "read", "write"}
  BY DEF applyPollVoteCast, Handles, CommitTypes, Inserted, Unique, Folded, LpTypes, Invoice, Created,
              Ended, Newest, Listed
<1>2. new \in RowRecord /\ (new.st = "none" => new = view[RowOf(e)])
  BY <1>1, NewRows
<1>3. Outcome(e, view[RowOf(e)], new, stored, S)
  BY <1>1 DEF applyPollVoteCast, Handles, Outcome, Inserted, Unique, Folded, LpTypes, Invoice, Created,
              Ended, Newest, Listed
<1>4. SocialOutcome(w, e, view[RowOf(e)], new)
  BY <1>1 DEF SocialOutcome, Inserted, Unique, Folded, LpTypes, Invoice, Created,
              Ended, Newest, Listed
<1>5. Wrote(w, e, S, [view EXCEPT ![RowOf(e)] = new])
  BY SameRow, Zenon DEF applyPollVoteCast
<1>6. \/ Goto(w, "invalidate", {})
      \/ log[e].type \in LpTypes \cup Invoice /\ Done(w, e)
  BY <1>1 DEF applyPollVoteCast, Handles
<1> HIDE DEF new, S
<1> QED BY <1>1, <1>2, <1>3, <1>4, <1>5, <1>6, CommitIntro

\* ... of health scores, which have no row, ...
LEMMA HealthCase ==
  ASSUME TypeOK, NEW w \in Worker, NEW e \in Event, processHealthScoreEvents(w, e)
  PROVE  Shape(w, e)
<1> DEFINE new == view[RowOf(e)]
           S == stored
<1>1. /\ log[e].ok /\ log[e].type = "health" /\ log[e].type \in CommitTypes
      /\ pc[w] \in {"next", "create", "retry", "read", "write"}
  BY DEF processHealthScoreEvents, Handles, CommitTypes, Inserted, Unique, Folded, LpTypes, Invoice, Created,
              Ended, Newest, Listed
<1>2. new \in RowRecord /\ (new.st = "none" => new = view[RowOf(e)])
  BY <1>1, NewRows
<1>3. Outcome(e, view[RowOf(e)], new, stored, S)
  BY <1>1 DEF processHealthScoreEvents, Handles, Outcome, Inserted, Unique, Folded, LpTypes, Invoice, Created,
              Ended, Newest, Listed
<1>4. SocialOutcome(w, e, view[RowOf(e)], new)
  BY <1>1 DEF SocialOutcome, Inserted, Unique, Folded, LpTypes, Invoice, Created,
              Ended, Newest, Listed
<1>5. Wrote(w, e, S, [view EXCEPT ![RowOf(e)] = new])
  BY SameRow, Zenon DEF processHealthScoreEvents
<1>6. \/ Goto(w, "invalidate", {})
      \/ log[e].type \in LpTypes \cup Invoice /\ Done(w, e)
  BY <1>1 DEF processHealthScoreEvents, Handles
<1> HIDE DEF new, S
<1> QED BY <1>1, <1>2, <1>3, <1>4, <1>5, <1>6, CommitIntro

\* ... every handler that logs an event and folds it into a row, ...
LEMMA FoldCase ==
  ASSUME TypeOK, NEW w \in Worker, NEW e \in Event, NEW T \in SUBSET Folded, LogAndFold(w, e, T, FoldRow(e))
  PROVE  Shape(w, e)
<1> DEFINE new == IF e \in stored THEN view[RowOf(e)] ELSE FoldRow(e)
           S == stored \cup {e}
<1>1. /\ log[e].ok /\ log[e].type \in Folded /\ log[e].type \in CommitTypes
      /\ pc[w] \in {"next", "create", "retry", "read", "write"}
  BY DEF LogAndFold, Handles, CommitTypes, Inserted, Unique, Folded, LpTypes, Invoice, Created,
              Ended, Newest, Listed
<1>2. new \in RowRecord /\ (new.st = "none" => new = view[RowOf(e)])
  BY <1>1, NewRows
<1>3. Outcome(e, view[RowOf(e)], new, stored, S)
  BY <1>1 DEF LogAndFold, Handles, Outcome, Inserted, Unique, Folded, LpTypes, Invoice, Created,
              Ended, Newest, Listed
<1>4. SocialOutcome(w, e, view[RowOf(e)], new)
  BY <1>1 DEF SocialOutcome, Inserted, Unique, Folded, LpTypes, Invoice, Created,
              Ended, Newest, Listed
<1>5. Wrote(w, e, S, [view EXCEPT ![RowOf(e)] = new])
  <2>1. CASE e \in stored
    <3>1. S = stored /\ new = view[RowOf(e)]
      BY <2>1
    <3> QED BY <2>1, <3>1, SameRow, Zenon DEF LogAndFold
  <2>2. CASE e \notin stored
    BY <2>2, Zenon DEF LogAndFold
  <2> QED BY <2>1, <2>2
<1>6. \/ Goto(w, "invalidate", {})
      \/ log[e].type \in LpTypes \cup Invoice /\ Done(w, e)
  BY <1>1 DEF LogAndFold, Handles
<1> HIDE DEF new, S
<1> QED BY <1>1, <1>2, <1>3, <1>4, <1>5, <1>6, CommitIntro

\* ... of liquidity events, ...
LEMMA LpCase ==
  ASSUME TypeOK, NEW w \in Worker, NEW e \in Event, processLpEvents(w, e)
  PROVE  Shape(w, e)
<1> DEFINE new == IF e \in stored THEN view[RowOf(e)] ELSE LpPosition(e)
           S == stored \cup {e}
<1>1. /\ log[e].ok /\ log[e].type \in LpTypes /\ log[e].type \in CommitTypes
      /\ pc[w] \in {"next", "create", "retry", "read", "write"}
  BY DEF processLpEvents, Handles, CommitTypes, Inserted, Unique, Folded, LpTypes, Invoice, Created,
              Ended, Newest, Listed
<1>2. new \in RowRecord /\ (new.st = "none" => new = view[RowOf(e)])
  BY <1>1, NewRows
<1>3. Outcome(e, view[RowOf(e)], new, stored, S)
  BY <1>1 DEF processLpEvents, Handles, Outcome, Inserted, Unique, Folded, LpTypes, Invoice, Created,
              Ended, Newest, Listed
<1>4. SocialOutcome(w, e, view[RowOf(e)], new)
  BY <1>1 DEF SocialOutcome, Inserted, Unique, Folded, LpTypes, Invoice, Created,
              Ended, Newest, Listed
<1>5. Wrote(w, e, S, [view EXCEPT ![RowOf(e)] = new])
  <2>1. CASE e \in stored
    <3>1. S = stored /\ new = view[RowOf(e)]
      BY <2>1
    <3> QED BY <2>1, <3>1, SameRow, Zenon DEF processLpEvents
  <2>2. CASE e \notin stored
    BY <2>2, Zenon DEF processLpEvents
  <2> QED BY <2>1, <2>2
<1>6. \/ Goto(w, "invalidate", {})
      \/ log[e].type \in LpTypes \cup Invoice /\ Done(w, e)
  BY <1>1 DEF processLpEvents, Handles
<1> HIDE DEF new, S
<1> QED BY <1>1, <1>2, <1>3, <1>4, <1>5, <1>6, CommitIntro

\* ... of invoice events, which recompute the row, ...
LEMMA InvoiceCase ==
  ASSUME TypeOK, NEW w \in Worker, NEW e \in Event, processInvoiceProtocolEvents(w, e)
  PROVE  Shape(w, e)
<1> DEFINE new == InvoiceRow(e, stored \cup {e})
           S == stored \cup {e}
<1>1. /\ log[e].ok /\ log[e].type \in Invoice /\ log[e].type \in CommitTypes
      /\ pc[w] \in {"next", "create", "retry", "read", "write"}
  BY DispatchFacts DEF processInvoiceProtocolEvents, Handles, CommitTypes, Inserted, Unique, Folded, LpTypes, Invoice, Created,
              Ended, Newest, Listed
<1>2. new \in RowRecord /\ (new.st = "none" => new = view[RowOf(e)])
  BY <1>1, InvoiceRows
<1>3. Outcome(e, view[RowOf(e)], new, stored, S)
  BY <1>1 DEF processInvoiceProtocolEvents, Handles, Outcome, Inserted, Unique, Folded, LpTypes, Invoice, Created,
              Ended, Newest, Listed
<1>4. SocialOutcome(w, e, view[RowOf(e)], new)
  BY <1>1 DEF SocialOutcome, Inserted, Unique, Folded, LpTypes, Invoice, Created,
              Ended, Newest, Listed
<1>5. Wrote(w, e, S, [view EXCEPT ![RowOf(e)] = new])
  BY Zenon DEF processInvoiceProtocolEvents
<1>6. \/ Goto(w, "invalidate", {})
      \/ log[e].type \in LpTypes \cup Invoice /\ Done(w, e)
  BY <1>1 DEF processInvoiceProtocolEvents, Handles
<1> HIDE DEF new, S
<1> QED BY <1>1, <1>2, <1>3, <1>4, <1>5, <1>6, CommitIntro

\* ... every handler that creates an object ...
LEMMA CreateCase ==
  ASSUME TypeOK, NEW w \in Worker, NEW e \in Event, NEW T \in SUBSET Created, CreateObject(w, e, T)
  PROVE  Shape(w, e)
<1> DEFINE new == IF view[RowOf(e)].st # "none" THEN view[RowOf(e)]
                  ELSE [val |-> 0, at |-> e, st |-> "active"]
           S == stored
<1>1. /\ log[e].ok /\ log[e].type \in Created /\ log[e].type \in CommitTypes
      /\ pc[w] \in {"next", "create", "retry", "read", "write"}
  BY DEF CreateObject, Handles, CommitTypes, Inserted, Unique, Folded, LpTypes, Invoice, Created,
              Ended, Newest, Listed
<1>2. new \in RowRecord /\ (new.st = "none" => new = view[RowOf(e)])
  BY NewRows DEF RowRecord
<1>3. Outcome(e, view[RowOf(e)], new, stored, S)
  BY <1>1 DEF CreateObject, Handles, Outcome, Inserted, Unique, Folded, LpTypes, Invoice, Created,
              Ended, Newest, Listed
<1>4. SocialOutcome(w, e, view[RowOf(e)], new)
  BY <1>1 DEF SocialOutcome, Inserted, Unique, Folded, LpTypes, Invoice, Created,
              Ended, Newest, Listed
<1>5. Wrote(w, e, S, [view EXCEPT ![RowOf(e)] = new])
  <2>1. CASE view[RowOf(e)].st # "none"
    BY <2>1, SameRow, Zenon DEF CreateObject
  <2>2. CASE ~(view[RowOf(e)].st # "none")
    BY <2>2, Zenon DEF CreateObject
  <2> QED BY <2>1, <2>2
<1>6. \/ Goto(w, "invalidate", {})
      \/ log[e].type \in LpTypes \cup Invoice /\ Done(w, e)
  BY <1>1 DEF CreateObject, Handles
<1> HIDE DEF new, S
<1> QED BY <1>1, <1>2, <1>3, <1>4, <1>5, <1>6, CommitIntro

\* ... or ends it.
LEMMA EndCase ==
  ASSUME TypeOK, NEW w \in Worker, NEW e \in Event, NEW t \in Ended,
         NEW isEnded, EndObject(w, e, {t}, isEnded),
         isEnded => view[RowOf(e)].st = "closed",
         t = "pollClosed" /\ view[RowOf(e)].st = "closed" => isEnded,
         t \in Replaced /\ isEnded => view[RowOf(e)].at = e
  PROVE  Shape(w, e)
<1> DEFINE new == IF isEnded THEN view[RowOf(e)]
                  ELSE [val |-> view[RowOf(e)].val, at |-> e, st |-> "closed"]
           S == stored
<1>1. /\ log[e].ok /\ log[e].type \in Ended /\ log[e].type \in CommitTypes
      /\ pc[w] \in {"next", "create", "retry", "read", "write"}
  BY DEF EndObject, Handles, CommitTypes, Inserted, Unique, Folded, LpTypes, Invoice, Created,
              Ended, Newest, Listed
<1>2. new \in RowRecord /\ (new.st = "none" => new = view[RowOf(e)])
  BY NewRows DEF RowRecord
<1>3. Outcome(e, view[RowOf(e)], new, stored, S)
  BY <1>1 DEF EndObject, Handles, Outcome, Replaced, Inserted, Unique, Folded, LpTypes, Invoice, Created,
              Ended, Newest, Listed
<1>4. SocialOutcome(w, e, view[RowOf(e)], new)
  BY <1>1 DEF SocialOutcome, Inserted, Unique, Folded, LpTypes, Invoice, Created,
              Ended, Newest, Listed
<1>5. Wrote(w, e, S, [view EXCEPT ![RowOf(e)] = new])
  <2>1. CASE isEnded
    BY <2>1, SameRow, Zenon DEF EndObject
  <2>2. CASE ~isEnded
    BY <2>2, Zenon DEF EndObject
  <2> QED BY <2>1, <2>2
<1>6. \/ Goto(w, "invalidate", {})
      \/ log[e].type \in LpTypes \cup Invoice /\ Done(w, e)
  BY <1>1 DEF EndObject, Handles
<1> HIDE DEF new, S
<1> QED BY <1>1, <1>2, <1>3, <1>4, <1>5, <1>6, CommitIntro


\* A bid.
LEMMA BidCase ==
  ASSUME TypeOK, NEW w \in Worker, NEW e \in Event,
         Handles(w, e, {"bid"}), view[RowOf(e)].st # "none",
         Wrote(w, e, stored \cup {e},
               [view EXCEPT ![RowOf(e)] = HighestBid(@, e)]),
         Goto(w, "invalidate", {})
  PROVE  Shape(w, e)
<1> DEFINE new == HighestBid(view[RowOf(e)], e)
           S == stored \cup {e}
<1>1. /\ log[e].ok /\ log[e].type = "bid" /\ log[e].type \in CommitTypes
      /\ pc[w] \in {"next", "create", "retry", "read", "write"}
  BY DEF Handles, CommitTypes
<1>2. new \in RowRecord /\ (new.st = "none" => new = view[RowOf(e)])
  BY NewRows
<1>3. Outcome(e, view[RowOf(e)], new, stored, S)
  BY <1>1 DEF Outcome, Inserted, Unique, Folded, LpTypes, Invoice, Created,
              Ended, Newest, Listed
<1>4. SocialOutcome(w, e, view[RowOf(e)], new)
  BY <1>1 DEF SocialOutcome
<1>5. Wrote(w, e, S, [view EXCEPT ![RowOf(e)] = new])
  BY Zenon
<1> HIDE DEF new, S
<1> QED BY <1>1, <1>2, <1>3, <1>4, <1>5, CommitIntro

\* A level, or a snapshot, is set when its row is missing or older.
LEMMA LevelCase ==
  ASSUME TypeOK, NEW w \in Worker, NEW e \in Event, log[e].ok,
         log[e].type \in Newest, pc[w] \in {"next", "create", "retry"},
         view[RowOf(e)].st = "none" \/ NewerThanStored(e),
         Wrote(w, e, stored, SetRow(e)), Goto(w, "invalidate", {})
  PROVE  Shape(w, e)
<1> DEFINE new == LevelRow(e)
<1>1. log[e].type \in CommitTypes
  BY DEF CommitTypes
<1>2. new \in RowRecord /\ new.st # "none"
  BY NewRows DEF LevelRow
<1>3. Outcome(e, view[RowOf(e)], new, stored, stored)
  BY DEF Outcome, NewerThanStored, Inserted, Unique, Folded, LpTypes, Invoice,
         Created, Ended, Newest, Listed
<1>4. SocialOutcome(w, e, view[RowOf(e)], new)
  BY DEF SocialOutcome, Newest
<1>5. Wrote(w, e, stored, [view EXCEPT ![RowOf(e)] = new])
  BY Zenon DEF SetRow, LevelRow
<1> HIDE DEF new
<1> QED BY <1>1, <1>2, <1>3, <1>4, <1>5, CommitIntro

\* ... and left alone when it is as new.
LEMMA LevelKept ==
  ASSUME TypeOK, NEW w \in Worker, NEW e \in Event, log[e].ok,
         log[e].type \in Newest, pc[w] \in {"next", "create", "retry"},
         view[RowOf(e)].st # "none", ~NewerThanStored(e),
         Wrote(w, e, stored, view), Goto(w, "invalidate", {})
  PROVE  Shape(w, e)
<1> DEFINE new == view[RowOf(e)]
<1>1. log[e].type \in CommitTypes
  BY DEF CommitTypes
<1>2. new \in RowRecord /\ e \in Int /\ new.at \in Int
  BY NewRows, LogFacts DEF RowRecord, Event
<1>3. Outcome(e, view[RowOf(e)], new, stored, stored)
  BY <1>2 DEF Outcome, NewerThanStored, Inserted, Unique, Folded, LpTypes,
              Invoice, Created, Ended, Newest, Listed
<1>4. SocialOutcome(w, e, view[RowOf(e)], new)
  BY DEF SocialOutcome, Newest
<1>5. Wrote(w, e, stored, [view EXCEPT ![RowOf(e)] = new])
  BY SameRow, Zenon
<1> HIDE DEF new
<1> QED BY <1>1, <1>2, <1>3, <1>4, <1>5, CommitIntro DEF new

\* updateMany, create, updateMany.
LEMMA LeveledCase ==
  ASSUME TypeOK, NEW w \in Worker, NEW e \in Event, AtLabel(e, pc[w]),
         NEW T \in SUBSET Leveled, NewestWinsSteps(w, e, T)
  PROVE  Shape(w, e)
<1>1. log[e].type \in Leveled /\ log[e].type \in Newest
  BY DEF NewestWinsSteps, Leveled, Newest
<1>2. CASE Handles(w, e, T)
  <2>1. pc[w] = "next" /\ log[e].ok
    BY <1>2 DEF Handles
  <2>2. \/ /\ NewerThanStored(e)
           /\ Wrote(w, e, stored, SetRow(e)) /\ Goto(w, "invalidate", {})
        \/ Goto(w, "create", {}) /\ UNCHANGED applied /\ Quiet
    BY <2>1 DEF NewestWinsSteps
  <2>3. CASE Goto(w, "create", {}) /\ UNCHANGED applied /\ Quiet
    BY <1>1, <2>1, <2>3 DEF Shape, Move
  <2> QED BY <1>1, <2>1, <2>2, <2>3, LevelCase
<1>3. CASE pc[w] = "create"
  <2>1. log[e].ok
    BY <1>3 DEF AtLabel
  <2>2. \/ /\ view[RowOf(e)].st = "none"
           /\ Wrote(w, e, stored, SetRow(e)) /\ Goto(w, "invalidate", {})
        \/ /\ view[RowOf(e)].st # "none"
           /\ Goto(w, "retry", {}) /\ UNCHANGED applied /\ Quiet
    BY <1>3 DEF NewestWinsSteps, Handles
  <2>3. CASE /\ view[RowOf(e)].st # "none"
             /\ Goto(w, "retry", {}) /\ UNCHANGED applied /\ Quiet
    BY <1>1, <1>3, <2>1, <2>3 DEF Shape, Move
  <2> QED BY <1>1, <1>3, <2>1, <2>2, <2>3, LevelCase
<1>4. CASE pc[w] = "retry"
  <2>1. log[e].ok /\ view[RowOf(e)].st # "none"
    BY <1>4 DEF AtLabel
  <2>2. \/ /\ NewerThanStored(e)
           /\ Wrote(w, e, stored, SetRow(e)) /\ Goto(w, "invalidate", {})
        \/ /\ ~NewerThanStored(e)
           /\ Wrote(w, e, stored, view) /\ Goto(w, "invalidate", {})
    BY <1>4 DEF NewestWinsSteps, Handles
  <2> QED BY <1>1, <1>4, <2>1, <2>2, LevelCase, LevelKept
<1> QED BY <1>2, <1>3, <1>4 DEF NewestWinsSteps

\* The snapshot in one statement.
LEMMA SnapshotCase ==
  ASSUME TypeOK, NEW w \in Worker, NEW e \in Event,
         processSnapshotTakenEvent(w, e)
  PROVE  Shape(w, e)
<1>1. /\ log[e].ok /\ log[e].type \in Newest /\ pc[w] = "next"
      /\ Goto(w, "invalidate", {})
  BY DEF processSnapshotTakenEvent, Handles, Newest
<1>2. \/ /\ view[RowOf(e)].st = "none" \/ NewerThanStored(e)
         /\ Wrote(w, e, stored, SetRow(e))
      \/ /\ view[RowOf(e)].st # "none" /\ ~NewerThanStored(e)
         /\ Wrote(w, e, stored, view)
  BY DEF processSnapshotTakenEvent
<1> QED BY <1>1, <1>2, LevelCase, LevelKept

\* A whitelist entry.
LEMMA ListCase ==
  ASSUME TypeOK, NEW w \in Worker, NEW e \in Event, processWhitelistEvents(w, e)
  PROVE  Shape(w, e)
<1> DEFINE new == [val |-> 0, at |-> e,
                   st |-> IF log[e].type = "whitelisted" THEN "active"
                          ELSE "closed"]
<1>1. /\ log[e].ok /\ log[e].type \in Listed /\ log[e].type \in CommitTypes
      /\ pc[w] \in {"next", "create", "retry", "read", "write"}
  BY DEF processWhitelistEvents, Handles, Listed, CommitTypes
<1>2. new \in RowRecord /\ new.st # "none" /\ new.at = e
  BY DEF RowRecord
<1>3. Outcome(e, view[RowOf(e)], new, stored, stored)
  BY <1>1, <1>2 DEF Outcome, Inserted, Unique, Folded, LpTypes, Invoice,
              Created, Ended, Newest, Listed
<1>4. SocialOutcome(w, e, view[RowOf(e)], new)
  BY <1>1 DEF SocialOutcome, Listed
<1>5. /\ Wrote(w, e, stored, [view EXCEPT ![RowOf(e)] = new])
      /\ Goto(w, "invalidate", {})
  BY Zenon DEF processWhitelistEvents
<1> HIDE DEF new
<1> QED BY <1>1, <1>2, <1>3, <1>4, <1>5, CommitIntro

\* The four statements of a social event.
LEMMA SocialCase ==
  ASSUME TypeOK, NEW w \in Worker, NEW e \in Event, AtLabel(e, pc[w]),
         processSocialMetadataUpdatedEvent(w, e)
  PROVE  Shape(w, e)
<1>1. log[e].type = "social" /\ log[e].type \in CommitTypes
  BY DEF processSocialMetadataUpdatedEvent, CommitTypes
<1>2. CASE Handles(w, e, {"social"})
  BY <1>1, <1>2 DEF processSocialMetadataUpdatedEvent, Handles, Shape, Skip,
                    LogSocial
<1>3. ASSUME NEW new \in RowRecord, pc[w] \in {"read", "write"},
             new.st = "none" => new = view[RowOf(e)],
             SocialOutcome(w, e, view[RowOf(e)], new),
             Wrote(w, e, stored, [view EXCEPT ![RowOf(e)] = new]),
             Goto(w, "invalidate", {})
      PROVE  Shape(w, e)
  <2>1. log[e].ok
    BY <1>3 DEF AtLabel
  <2>2. Outcome(e, view[RowOf(e)], new, stored, stored)
    BY <1>1 DEF Outcome, Inserted, Unique, Folded, LpTypes, Invoice, Created,
                Ended, Newest, Listed
  <2> QED BY <1>1, <1>3, <2>1, <2>2, CommitIntro
<1>4. CASE pc[w] = "read"
  <2>1. log[e].ok
    BY <1>4 DEF AtLabel
  <2>2. \/ /\ isStaleRelativeToSnapshot(e)
           /\ Wrote(w, e, stored, view) /\ Goto(w, "invalidate", {})
        \/ /\ ~isStaleRelativeToSnapshot(e)
           /\ Goto(w, "write", {}) /\ UNCHANGED applied /\ Quiet
    BY <1>4 DEF processSocialMetadataUpdatedEvent, Handles
  <2>3. CASE /\ isStaleRelativeToSnapshot(e)
             /\ Wrote(w, e, stored, view) /\ Goto(w, "invalidate", {})
    <3>1. SocialOutcome(w, e, view[RowOf(e)], view[RowOf(e)])
      BY <1>4, <2>3 DEF SocialOutcome
    <3>2. Wrote(w, e, stored, [view EXCEPT ![RowOf(e)] = view[RowOf(e)]])
      BY <2>3, SameRow, Zenon
    <3> QED BY <1>3, <1>4, <2>3, <3>1, <3>2, NewRows
  <2> QED BY <1>1, <1>4, <2>1, <2>2, <2>3 DEF Shape, Move
<1>5. CASE pc[w] = "write"
  <2>1. /\ Wrote(w, e, stored, [view EXCEPT ![RowOf(e)] = SocialRow(e)])
        /\ Goto(w, "invalidate", {})
    BY <1>5 DEF processSocialMetadataUpdatedEvent, Handles
  <2>2. SocialOutcome(w, e, view[RowOf(e)], SocialRow(e))
    BY <1>5 DEF SocialOutcome
  <2>3. SocialRow(e) \in RowRecord /\ SocialRow(e).st # "none"
    BY NewRows DEF SocialRow
  <2> QED BY <1>3, <1>5, <2>1, <2>2, <2>3
<1> QED BY <1>2, <1>4, <1>5 DEF processSocialMetadataUpdatedEvent

\* Every step of a handler has one of the shapes.
LEMMA HandlerCases ==
  ASSUME TypeOK, NEW w \in Worker, NEW e \in Event, AtLabel(e, pc[w]),
         Handler(w, e)
  PROVE  Shape(w, e)
<1>1. CASE \/ processSpotlightBidEvents(w, e) \/ processTwapUpdatedEvent(w, e)
           \/ processMilestoneRewardClaimedEvents(w, e)
           \/ processKeyRetirementEvents(w, e) \/ recordFundsAllocated(w, e)
           \/ processEarlySlotFilledEvents(w, e)
  <2>1. InsertOnce(w, e, Inserted)
    BY <1>1 DEF processSpotlightBidEvents, processTwapUpdatedEvent,
         processMilestoneRewardClaimedEvents, processKeyRetirementEvents,
         recordFundsAllocated, processEarlySlotFilledEvents, InsertOnce,
         Handles, Inserted
  <2> QED BY <2>1, InsertCase
<1>2. CASE \/ processReserveEvent(w, e) \/ processTipEvent(w, e)
           \/ recordFeeReceived(w, e) \/ processIssuerVerificationEvents(w, e)
  <2>1. ASSUME NEW t \in Folded, NEW v, LogAndFold(w, e, {t}, v),
               log[e].type = t => v = FoldRow(e)
        PROVE  Shape(w, e)
    <3>1. log[e].type = t
      BY <2>1 DEF LogAndFold, Handles
    <3>2. LogAndFold(w, e, {t}, FoldRow(e)) /\ {t} \in SUBSET Folded
      BY <2>1, <3>1
    <3> QED BY <3>2, FoldCase
  <2>2. \E t \in Folded : \E v : /\ LogAndFold(w, e, {t}, v)
                                 /\ log[e].type = t => v = FoldRow(e)
    <3>1. CASE processTipEvent(w, e)
      BY <3>1 DEF processTipEvent, FoldRow, Folded
    <3>2. CASE recordFeeReceived(w, e)
      BY <3>2 DEF recordFeeReceived, FoldRow, Folded
    <3>3. CASE processReserveEvent(w, e)
      BY <3>3 DEF processReserveEvent, FoldRow, Folded
    <3>4. CASE processIssuerVerificationEvents(w, e)
      BY <3>4 DEF processIssuerVerificationEvents, FoldRow, Folded
    <3> QED BY <1>2, <3>1, <3>2, <3>3, <3>4
  <2> QED BY <2>1, <2>2
<1>3. CASE \/ processBadgeMintedEvents(w, e) \/ applyPollVoteCast(w, e)
           \/ processHealthScoreEvents(w, e) \/ processLpEvents(w, e)
           \/ processInvoiceProtocolEvents(w, e)
  BY <1>3, BadgeCase, VoteCase, HealthCase, LpCase, InvoiceCase
<1>4. CASE \/ applyPollCreated(w, e) \/ applyPollClosed(w, e)
           \/ processCurveUpdateEvents(w, e)
           \/ processKeyLaunchAuctionEvents(w, e)
  <2>1. ASSUME NEW t \in Created, CreateObject(w, e, {t}) PROVE Shape(w, e)
    BY <2>1, CreateCase
  <2>2. ASSUME NEW t \in Replaced, EndObject(w, e, {t}, EndedBy(e)) PROVE Shape(w, e)
    <3>1. t \in Ended /\ t # "pollClosed"
      BY DEF Replaced, Ended
    <3>2. EndedBy(e) => view[RowOf(e)].st = "closed" /\ view[RowOf(e)].at = e
      BY DEF EndedBy
    <3> QED BY <2>2, <3>1, <3>2, EndCase
  <2>3. CASE applyPollClosed(w, e)
    <3>1. EndObject(w, e, {"pollClosed"}, view[RowOf(e)].st = "closed")
      BY <2>3, Zenon DEF applyPollClosed
    <3>2. "pollClosed" \in Ended /\ "pollClosed" \notin Replaced
      BY DEF Replaced, Ended
    <3> QED BY <3>1, <3>2, EndCase
  <2>4. CASE applyPollCreated(w, e) \/ processCurveUpdateEvents(w, e)
    BY <2>1, <2>2, <2>4 DEF applyPollCreated, processCurveUpdateEvents, Created, Replaced
  <2>5. CASE processKeyLaunchAuctionEvents(w, e)
    BY <2>1, <2>2, <2>5, BidCase DEF processKeyLaunchAuctionEvents, Created, Replaced
  <2> QED BY <1>4, <2>3, <2>4, <2>5
<1>5. CASE \/ processDepthUpdatedEvent(w, e) \/ processCoCreatorEvent(w, e)
           \/ processLeaderboardUpdatedEvent(w, e)
           \/ processSnapshotTakenEvent(w, e) \/ processWhitelistEvents(w, e)
           \/ processSocialMetadataUpdatedEvent(w, e)
  <2>1. ASSUME NEW t \in Leveled, NewestWinsSteps(w, e, {t}) PROVE Shape(w, e)
    BY <2>1, LeveledCase
  <2> QED BY <1>5, <2>1, SnapshotCase, ListCase, SocialCase
          DEF processDepthUpdatedEvent, processCoCreatorEvent,
              processLeaderboardUpdatedEvent, Leveled
<1>6. CASE \/ processSubscriptionCreatedEvent(w, e) \/ processTradeEvents(w, e)
  <2>1. CASE processTradeEvents(w, e)
    <3>1. LogOnly(w, e)
      BY <2>1 DEF processTradeEvents, Handles, LogOnly
    <3> QED BY <3>1 DEF Shape
  <2>2. CASE processSubscriptionCreatedEvent(w, e) /\ pc[w] = "log"
    <3>1. log[e].ok /\ log[e].type = "subscription"
      BY <2>2 DEF AtLabel
    <3>2. LogOnly(w, e)
      BY <2>2, <3>1 DEF processSubscriptionCreatedEvent, Handles, LogOnly
    <3> QED BY <3>2 DEF Shape
  <2>3. CASE processSubscriptionCreatedEvent(w, e) /\ pc[w] # "log"
    <3>1. DropStatus(w, e)
      BY <2>3 DEF processSubscriptionCreatedEvent, Handles, DropStatus
    <3> QED BY <3>1 DEF Shape
  <2> QED BY <1>6, <2>1, <2>2, <2>3
<1>7. CASE \/ processDividendDistributed(w, e) \/ CreateDistribution(w, e)
           \/ processRevenueDistributedEvent(w, e)
  BY <1>7 DEF processDividendDistributed, processRevenueDistributedEvent,
              CreateDistribution, Handles, AtLabel, Shape, Move, Skip, Split
<1>8. CASE processRevenueShareClaimedEvent(w, e)
  BY <1>8 DEF processRevenueShareClaimedEvent, Handles, AtLabel, Shape, Move,
              Skip, BookClaim
<1>9. CASE \/ processDividendClaimed(w, e) \/ Unknown(w, e)
           \/ Malformed(w, e) \/ Invalidate(w, e)
  BY <1>9 DEF Unknown, Handles, Shape
<1> QED BY <1>1, <1>2, <1>3, <1>4, <1>5, <1>6, <1>7, <1>8, <1>9 DEF Handler

-----------------------------------------------------------------------------
(* Control *)

\* The other workers and the other rows are left alone.
OthersKept(w) ==
  \A v \in Worker \ {w} : /\ pc'[v] = pc[v] /\ todo'[v] = todo[v]
                          /\ hi'[v] = hi[v] /\ loc'[v] = loc[v]

\* How worker w goes on.
Leaves(w, e) == pc'[w] = "next" /\ todo'[w] = todo[w] \ {e} /\ hi'[w] = hi[w]
Stays(w, l)  == pc'[w] = l /\ todo'[w] = todo[w] /\ hi'[w] = hi[w]
GivesUp(w)   == pc'[w] = "idle" /\ todo'[w] = {} /\ hi'[w] = 0

\* What every step of the handler of e leaves as it was.
Frame(w, e) ==
  /\ log' = log /\ cursor' = cursor /\ overlap' = overlap
  /\ faults' \in Nat /\ faults' >= faults
  /\ OthersKept(w)
  /\ stored' \in {stored, stored \cup {e}}
  /\ applied' \in {applied, applied \cup {e}}
  /\ dlq' \in {dlq, dlq \cup {e}}
  /\ \A r \in Row \ {RowOf(e)} : view'[r] = view[r] /\ cache'[r] = cache[r]
  /\ view'[RowOf(e)].st = "none" => view[RowOf(e)].st = "none"

\* What of its event a step leaves behind, by where it goes.
Progress(w, e) ==
  \/ Leaves(w, e) /\ Covered(e)'
  \/ \E l \in {"create", "retry", "read", "write", "tx", "log", "invalidate"} :
       Stays(w, l) /\ AtLabel(e, l)'
  \/ GivesUp(w) /\ stored' = stored

WorkTyped(p, t, h, s) ==
  /\ p \in [Worker -> {"idle", "next", "create", "retry", "read", "write", "tx",
                      "log", "invalidate"}]
  /\ t \in [Worker -> SUBSET Event] /\ h \in [Worker -> Event \cup {0}]
  /\ s \in [Worker -> SUBSET Event]

\* The parts of the work variables, worker by worker.
LEMMA DoneParts ==
  ASSUME TypeOK, NEW w \in Worker, NEW e \in Event, Done(w, e)
  PROVE  /\ Leaves(w, e) /\ OthersKept(w) /\ loc'[w] = {}
         /\ WorkTyped(pc', todo', hi', loc')
BY DEF TypeOK, Done, Leaves, OthersKept, WorkTyped

\* The same for a handler that goes on at another step ...
LEMMA GotoParts ==
  ASSUME TypeOK, NEW w \in Worker,
         NEW l \in {"create", "retry", "read", "write", "tx", "log", "invalidate"},
         NEW s \in SUBSET Event, Goto(w, l, s)
  PROVE  /\ Stays(w, l) /\ OthersKept(w) /\ loc'[w] = s
         /\ WorkTyped(pc', todo', hi', loc')
BY DEF TypeOK, Goto, Stays, OthersKept, WorkTyped

\* ... and for a batch that is given up.
LEMMA AbandonParts ==
  ASSUME TypeOK, NEW w \in Worker, Abandon(w)
  PROVE  /\ GivesUp(w) /\ OthersKept(w) /\ loc'[w] = {}
         /\ WorkTyped(pc', todo', hi', loc')
BY DEF TypeOK, Abandon, GivesUp, OthersKept, WorkTyped

\* Type correctness after a handler's step, part by part.
LEMMA TypesFrom ==
  ASSUME TypeOK, log' = log, cursor' = cursor, overlap' = overlap,
         WorkTyped(pc', todo', hi', loc'), faults' \in 0..MaxFaults,
         stored' \subseteq Event, dlq' \subseteq Event, applied' \subseteq Event,
         view' \in [Row -> RowRecord],
         claim' \in [Event -> Event \cup {0}], seen' \in [Event -> SUBSET Event],
         cache' \in [Row -> {"none", "fresh", "stale", "excused"}],
         reader' \in [Row -> {"idle", "current", "old"}]
  PROVE  TypeOK'
<1>1. Event' = Event
  BY DEF Event
<1> QED BY <1>1 DEF TypeOK, WorkTyped, RowRecord

\* The invariant's types as the step lemmas use them.
LEMMA TypeParts ==
  ASSUME TypeOK
  PROVE  /\ stored \subseteq Event /\ dlq \subseteq Event /\ applied \subseteq Event
         /\ view \in [Row -> RowRecord]
         /\ claim \in [Event -> Event \cup {0}]
         /\ seen \in [Event -> SUBSET Event]
         /\ cache \in [Row -> {"none", "fresh", "stale", "excused"}]
         /\ reader \in [Row -> {"idle", "current", "old"}]
         /\ faults \in 0..MaxFaults /\ faults \in Nat
         /\ WorkTyped(pc, todo, hi, loc)
BY ProjectionsAssumption DEF TypeOK, WorkTyped, RowRecord

\* A statement that writes a row keeps the types, leaves the rest alone and
\* goes on to the invalidation or to the next event.
LEMMA CommitTyped ==
  ASSUME TypeOK, NEW w \in Worker, NEW e \in Event, NEW new, Commit(w, e, new)
  PROVE  TypeOK' /\ Frame(w, e) /\ Progress(w, e)
<1> DEFINE r == RowOf(e)
<1>1. /\ new \in RowRecord /\ (new.st = "none" => new = view[r])
      /\ view' = [view EXCEPT ![r] = new] /\ applied' = applied \cup {e}
      /\ cache' = [cache EXCEPT ![r] =
            IF (stored' # stored \/ [view EXCEPT ![r] = new] # view) /\ @ = "fresh"
            THEN "stale" ELSE @]
      /\ reader' = [reader EXCEPT ![r] =
            IF (stored' # stored \/ [view EXCEPT ![r] = new] # view) /\ @ = "current"
            THEN "old" ELSE @]
      /\ UNCHANGED <<claim, seen, log, cursor, dlq, faults, overlap>>
      /\ log[e].ok /\ log[e].type \in CommitTypes
  BY DEF Commit, Wrote, Elsewhere
<1>2. stored' \in {stored, stored \cup {e}}
  BY <1>1 DEF Commit, Outcome, CommitTypes
<1>3. r \in Row
  BY LogFacts
<1>4. \/ Goto(w, "invalidate", {})
      \/ Done(w, e)
  BY DEF Commit
<1>5. WorkTyped(pc', todo', hi', loc') /\ OthersKept(w)
  BY <1>4, DoneParts, GotoParts
<1>6. TypeOK'
  <2>1. view' \in [Row -> RowRecord]
    BY <1>1, TypeParts
  <2>2. /\ cache' \in [Row -> {"none", "fresh", "stale", "excused"}]
        /\ reader' \in [Row -> {"idle", "current", "old"}]
    BY <1>1, TypeParts
  <2>3. stored' \subseteq Event /\ applied' \subseteq Event
    BY <1>1, <1>2, TypeParts
  <2> QED BY <1>1, <1>5, <2>1, <2>2, <2>3, TypeParts, TypesFrom
<1>7. Frame(w, e)
  BY <1>1, <1>2, <1>3, <1>5, TypeParts DEF Frame
<1>8. Progress(w, e)
  <2>1. AtLabel(e, "invalidate")'
    BY <1>1 DEF AtLabel
  <2>2. Covered(e)'
    BY <1>1 DEF Covered
  <2> QED BY <1>4, <2>1, <2>2, DoneParts, GotoParts DEF Progress
<1> QED BY <1>6, <1>7, <1>8

\* Steps that change no data.
LEMMA QuietTyped ==
  ASSUME TypeOK, NEW w \in Worker, NEW e \in Event, Quiet,
         applied' \in {applied, applied \cup {e}},
         WorkTyped(pc', todo', hi', loc'), OthersKept(w)
  PROVE  TypeOK' /\ Frame(w, e)
<1>1. UNCHANGED <<stored, view, claim, seen, cache, reader, log, cursor, dlq,
                  faults, overlap>>
  BY DEF Quiet, data, Elsewhere
<1>2. TypeOK'
  BY <1>1, TypeParts, TypesFrom
<1> QED BY <1>1, <1>2, TypeParts DEF Frame

\* The same for a handler that only reads, ...
LEMMA MoveTyped ==
  ASSUME TypeOK, NEW w \in Worker, NEW e \in Event, AtLabel(e, pc[w]), Move(w, e)
  PROVE  TypeOK' /\ Frame(w, e) /\ Progress(w, e)
<1>1. Same(RowOf(e), {"trade"}) \in SUBSET Event
  BY TypeParts DEF Same
<1>2. SelectedDistribution(e) \in SUBSET Event
  BY TypeParts DEF Same, SelectedDistribution, Select
<1>3. UNCHANGED <<stored, view, log, applied>> /\ log[e].ok
  BY DEF Move, Quiet, data, Elsewhere
<1>4. PICK l \in {"create", "retry", "write", "tx"}, s \in SUBSET Event :
        Goto(w, l, s) /\ AtLabel(e, l)'
  <2>1. CASE Goto(w, "create", {}) /\ log[e].type \in Leveled
    <3>1. AtLabel(e, "create")'
      BY <1>3, <2>1 DEF AtLabel
    <3> QED BY <2>1, <3>1
  <2>2. CASE /\ Goto(w, "retry", {}) /\ log[e].type \in Leveled
             /\ view[RowOf(e)].st # "none"
    <3>1. AtLabel(e, "retry")'
      BY <1>3, <2>2 DEF AtLabel, RowOf
    <3> QED BY <2>2, <3>1
  <2>3. CASE Goto(w, "write", {}) /\ log[e].type = "social" /\ e \in stored
    <3>1. AtLabel(e, "write")'
      BY <1>3, <2>3 DEF AtLabel
    <3> QED BY <2>3, <3>1
  <2>4. CASE /\ log[e].type \in Split
             /\ Goto(w, "tx", Same(RowOf(e), {"trade"}))
    <3>1. AtLabel(e, "tx")'
      BY <1>3, <2>4 DEF AtLabel
    <3> QED BY <1>1, <2>4, <3>1
  <2>5. CASE /\ log[e].type = "revenueClaimed"
             /\ Goto(w, "tx", SelectedDistribution(e))
    <3>1. AtLabel(e, "tx")'
      BY <1>3, <2>5 DEF AtLabel
    <3> QED BY <1>2, <2>5, <3>1
  <2> QED BY <2>1, <2>2, <2>3, <2>4, <2>5 DEF Move, AtLabel
<1>5. Stays(w, l) /\ OthersKept(w) /\ WorkTyped(pc', todo', hi', loc')
  BY <1>4, GotoParts
<1>6. TypeOK' /\ Frame(w, e)
  BY <1>3, <1>5, QuietTyped DEF Move
<1> QED BY <1>4, <1>5, <1>6 DEF Progress

\* ... that finds its row and returns, ...
LEMMA SkipTyped ==
  ASSUME TypeOK, NEW w \in Worker, NEW e \in Event, Skip(w, e)
  PROVE  TypeOK' /\ Frame(w, e) /\ Progress(w, e)
<1>1. /\ Leaves(w, e) /\ OthersKept(w) /\ WorkTyped(pc', todo', hi', loc')
      /\ applied' \in {applied, applied \cup {e}}
  BY DoneParts DEF Skip
<1>2. TypeOK' /\ Frame(w, e)
  BY <1>1, QuietTyped DEF Skip
<1>3. Covered(e)'
  BY DEF Skip, Quiet, data, Elsewhere, Covered
<1> QED BY <1>1, <1>2, <1>3 DEF Progress

\* ... or that ends the batch.
LEMMA ThrowTyped ==
  ASSUME TypeOK, NEW w \in Worker, NEW e \in Event, Throw(w, e)
  PROVE  TypeOK' /\ Frame(w, e) /\ Progress(w, e)
<1>1. /\ GivesUp(w) /\ OthersKept(w) /\ WorkTyped(pc', todo', hi', loc')
      /\ applied' = applied /\ Quiet
  BY AbandonParts DEF Throw
<1>2. TypeOK' /\ Frame(w, e)
  BY <1>1, QuietTyped
<1> QED BY <1>1, <1>2 DEF Progress, Quiet, data

\* Steps that store the event's row and change neither view nor reader.
LEMMA LogTyped ==
  ASSUME TypeOK, NEW w \in Worker, NEW e \in Event,
         UNCHANGED <<view, reader, Elsewhere>>,
         stored' \in {stored, stored \cup {e}},
         applied' \in {applied, applied \cup {e}},
         \A r \in Row \ {RowOf(e)} : cache'[r] = cache[r],
         cache' \in [Row -> {"none", "fresh", "stale", "excused"}],
         claim' \in [Event -> Event \cup {0}], seen' \in [Event -> SUBSET Event],
         WorkTyped(pc', todo', hi', loc'), OthersKept(w)
  PROVE  TypeOK' /\ Frame(w, e)
<1>1. UNCHANGED <<view, reader, log, cursor, dlq, faults, overlap>>
  BY DEF Elsewhere
<1>2. stored' \subseteq Event /\ applied' \subseteq Event
  BY TypeParts
<1>3. TypeOK'
  BY <1>1, <1>2, TypeParts, TypesFrom
<1> QED BY <1>1, <1>3, TypeParts DEF Frame

\* The log row of a social event.
LEMMA LogSocialTyped ==
  ASSUME TypeOK, NEW w \in Worker, NEW e \in Event, LogSocial(w, e)
  PROVE  TypeOK' /\ Frame(w, e) /\ Progress(w, e)
<1>1. Stays(w, "read") /\ OthersKept(w) /\ WorkTyped(pc', todo', hi', loc')
  BY GotoParts DEF LogSocial
<1>2. TypeOK' /\ Frame(w, e)
  <2>1. UNCHANGED <<view, reader, Elsewhere>> /\ UNCHANGED <<claim, seen, cache>>
    BY DEF LogSocial
  <2> QED BY <1>1, <2>1, TypeParts, LogTyped DEF LogSocial
<1>3. AtLabel(e, "read")'
  BY DEF LogSocial, AtLabel, Elsewhere
<1> QED BY <1>1, <1>2, <1>3 DEF Progress

\* The cached status of a subscription.
LEMMA DropTyped ==
  ASSUME TypeOK, NEW w \in Worker, NEW e \in Event, DropStatus(w, e)
  PROVE  TypeOK' /\ Frame(w, e) /\ Progress(w, e)
<1>1. Stays(w, "log") /\ OthersKept(w) /\ WorkTyped(pc', todo', hi', loc')
  BY GotoParts DEF DropStatus
<1>2. TypeOK' /\ Frame(w, e)
  <2>1. UNCHANGED <<view, reader, Elsewhere>> /\ UNCHANGED <<claim, seen, stored>>
    BY DEF DropStatus, data
  <2>2. /\ cache' \in [Row -> {"none", "fresh", "stale", "excused"}]
        /\ \A r \in Row \ {RowOf(e)} : cache'[r] = cache[r]
    BY TypeParts DEF DropStatus
  <2> QED BY <1>1, <2>1, <2>2, TypeParts, LogTyped DEF DropStatus
<1>3. AtLabel(e, "log")'
  BY DEF DropStatus, AtLabel, Elsewhere
<1> QED BY <1>1, <1>2, <1>3 DEF Progress

\* The row of a trade or a subscription.
LEMMA LogOnlyTyped ==
  ASSUME TypeOK, NEW w \in Worker, NEW e \in Event, LogOnly(w, e)
  PROVE  TypeOK' /\ Frame(w, e) /\ Progress(w, e)
<1>1. Leaves(w, e) /\ OthersKept(w) /\ WorkTyped(pc', todo', hi', loc')
  BY DoneParts DEF LogOnly
<1>2. TypeOK' /\ Frame(w, e)
  <2>1. UNCHANGED <<view, reader, Elsewhere>> /\ UNCHANGED <<claim, seen, cache>>
    BY DEF LogOnly
  <2> QED BY <1>1, <2>1, TypeParts, LogTyped DEF LogOnly
<1>3. Covered(e)'
  BY DEF LogOnly, Covered
<1> QED BY <1>1, <1>2, <1>3 DEF Progress

\* A distribution, a dividend claim and a revenue claim.
LEMMA SplitTyped ==
  ASSUME TypeOK, NEW w \in Worker, NEW e \in Event, log[e].ok,
         CreateDistribution(w, e)
  PROVE  TypeOK' /\ Frame(w, e) /\ Progress(w, e)
<1>1. Done(w, e) \/ Goto(w, "invalidate", {})
  BY DEF CreateDistribution
<1>2. OthersKept(w) /\ WorkTyped(pc', todo', hi', loc')
  BY <1>1, DoneParts, GotoParts
<1>3. loc[w] \in SUBSET Event
  BY TypeParts DEF WorkTyped
<1>4. /\ cache' \in [Row -> {"none", "fresh", "stale", "excused"}]
      /\ \A r \in Row \ {RowOf(e)} : cache'[r] = cache[r]
      /\ seen' \in [Event -> SUBSET Event]
      /\ stored' \in {stored, stored \cup {e}}
  BY <1>3, TypeParts DEF CreateDistribution
<1>5. /\ UNCHANGED <<view, reader, Elsewhere>> /\ UNCHANGED claim
      /\ applied' = applied \cup {e}
  BY DEF CreateDistribution
<1>6. TypeOK' /\ Frame(w, e)
  BY <1>2, <1>4, <1>5, TypeParts, LogTyped
<1>7. Covered(e)' /\ AtLabel(e, "invalidate")'
  BY <1>5 DEF Covered, AtLabel, Elsewhere
<1> QED BY <1>1, <1>6, <1>7, DoneParts, GotoParts DEF Progress

\* A dividend claim marks a distribution.
LEMMA DividendTyped ==
  ASSUME TypeOK, NEW w \in Worker, NEW e \in Event, processDividendClaimed(w, e)
  PROVE  TypeOK' /\ Frame(w, e) /\ Progress(w, e)
<1>1. Done(w, e) \/ Goto(w, "invalidate", {})
  BY DEF processDividendClaimed
<1>2. OthersKept(w) /\ WorkTyped(pc', todo', hi', loc')
  BY <1>1, DoneParts, GotoParts
<1>3. /\ UNCHANGED <<view, reader, Elsewhere>> /\ UNCHANGED <<seen, cache, stored>>
      /\ applied' = applied \cup {e} /\ log[e].ok
  BY DEF processDividendClaimed, Handles
<1>4. claim' \in [Event -> Event \cup {0}]
  BY TypeParts DEF processDividendClaimed
<1>5. TypeOK' /\ Frame(w, e)
  BY <1>2, <1>3, <1>4, TypeParts, LogTyped
<1>6. Covered(e)' /\ AtLabel(e, "invalidate")'
  BY <1>3 DEF Covered, AtLabel, Elsewhere
<1> QED BY <1>1, <1>5, <1>6, DoneParts, GotoParts DEF Progress

\* A revenue claim is booked on a distribution.
LEMMA BookTyped ==
  ASSUME TypeOK, NEW w \in Worker, NEW e \in Event, BookClaim(w, e)
  PROVE  TypeOK' /\ Frame(w, e) /\ Progress(w, e)
<1>1. Done(w, e) \/ Goto(w, "invalidate", {})
  BY DEF BookClaim
<1>2. OthersKept(w) /\ WorkTyped(pc', todo', hi', loc')
  BY <1>1, DoneParts, GotoParts
<1>3. loc[w] \in SUBSET Event
  BY TypeParts DEF WorkTyped
<1>4. /\ cache' \in [Row -> {"none", "fresh", "stale", "excused"}]
      /\ \A r \in Row \ {RowOf(e)} : cache'[r] = cache[r]
      /\ claim' \in [Event -> Event \cup {0}]
      /\ stored' \in {stored, stored \cup {e}}
  BY <1>3, TypeParts DEF BookClaim
<1>5. /\ UNCHANGED <<view, reader, Elsewhere>> /\ UNCHANGED seen
      /\ applied' = applied \cup {e} /\ log[e].ok
  BY DEF BookClaim
<1>6. TypeOK' /\ Frame(w, e)
  BY <1>2, <1>4, <1>5, TypeParts, LogTyped
<1>7. Covered(e)' /\ AtLabel(e, "invalidate")'
  BY <1>5 DEF Covered, AtLabel, Elsewhere
<1> QED BY <1>1, <1>6, <1>7, DoneParts, GotoParts DEF Progress

\* An event that cannot be parsed.
LEMMA MalformedTyped ==
  ASSUME TypeOK, NEW w \in Worker, NEW e \in Event, Malformed(w, e)
  PROVE  /\ TypeOK' /\ Frame(w, e) /\ Progress(w, e)
         /\ UNCHANGED <<stored, view>>
<1>1. /\ UNCHANGED <<log, cursor, overlap, faults, stored, view, claim, seen,
                     cache, reader>>
      /\ Abandon(w) \/ (Done(w, e) /\ ~Throws(e))
  BY DEF Malformed, data
<1>2. OthersKept(w) /\ WorkTyped(pc', todo', hi', loc')
  BY <1>1, DoneParts, AbandonParts
<1>3. /\ dlq' \in {dlq, dlq \cup {e}} /\ applied' \in {applied, applied \cup {e}}
      /\ ~Throws(e) => e \in applied' \cup dlq'
  BY DEF Malformed
<1>4. TypeOK'
  <2>1. dlq' \subseteq Event /\ applied' \subseteq Event
    BY <1>3, TypeParts
  <2> QED BY <1>1, <1>2, <2>1, TypeParts, TypesFrom
<1>5. Frame(w, e)
  BY <1>1, <1>2, <1>3, TypeParts DEF Frame
<1>6. Progress(w, e)
  BY <1>1, <1>3, DoneParts, AbandonParts DEF Progress, Covered
<1> QED BY <1>1, <1>4, <1>5, <1>6

\* The invalidation, whether Redis answers or not.
LEMMA InvalidateTyped ==
  ASSUME TypeOK, NEW w \in Worker, NEW e \in Event, AtLabel(e, pc[w]),
         Invalidate(w, e)
  PROVE  TypeOK' /\ Frame(w, e) /\ Progress(w, e)
<1>1. /\ UNCHANGED <<log, cursor, overlap, stored, view, claim, seen, dlq,
                     applied, reader>>
      /\ Done(w, e) /\ pc[w] = "invalidate"
  BY DEF Invalidate, data
<1>2. /\ Leaves(w, e) /\ OthersKept(w) /\ WorkTyped(pc', todo', hi', loc')
  BY <1>1, DoneParts
<1>3. /\ cache' \in [Row -> {"none", "fresh", "stale", "excused"}]
      /\ \A r \in Row \ {RowOf(e)} : cache'[r] = cache[r]
      /\ faults' \in 0..MaxFaults /\ faults' \in Nat /\ faults' >= faults
  BY TypeParts, ProjectionsAssumption DEF Invalidate
<1>4. TypeOK'
  BY <1>1, <1>2, <1>3, TypeParts, TypesFrom
<1>5. Frame(w, e)
  BY <1>1, <1>2, <1>3, TypeParts DEF Frame
<1>6. Covered(e)'
  BY <1>1 DEF AtLabel, Covered
<1> QED BY <1>2, <1>4, <1>5, <1>6 DEF Progress

\* Every step of a handler, of whatever shape.
LEMMA HandlerStep ==
  ASSUME TypeOK, NEW w \in Worker, NEW e \in Event, AtLabel(e, pc[w]),
         Handler(w, e)
  PROVE  TypeOK' /\ Frame(w, e) /\ Progress(w, e) /\ Shape(w, e)
<1>1. Shape(w, e)
  BY HandlerCases
<1> QED BY <1>1, CommitTyped, MoveTyped, SkipTyped, LogSocialTyped, DropTyped,
           LogOnlyTyped, SplitTyped, DividendTyped, BookTyped, ThrowTyped,
           MalformedTyped, InvalidateTyped DEF Shape

\* What is handled stays handled; the labels of other events keep fitting.
LEMMA FrameGrows ==
  ASSUME TypeOK, NEW w \in Worker, NEW e \in Event, Frame(w, e)
  PROVE  /\ \A f : Covered(f) => Covered(f)'
         /\ \A f \in Event : \A l : AtLabel(f, l) => AtLabel(f, l)'
         /\ Event' = Event
         /\ \A v \in Worker : todo'[v] = todo[v] => Turn(v)' = Turn(v)
<1>1. \A f : Covered(f) => Covered(f)'
  BY DEF Frame, Covered
<1>2. ASSUME NEW f \in Event, NEW l, AtLabel(f, l) PROVE AtLabel(f, l)'
  <2>1. view[RowOf(f)].st # "none" => view'[RowOf(f)].st # "none"
    BY LogFacts DEF Frame
  <2> QED BY <1>2, <2>1 DEF Frame, AtLabel, RowOf
<1>3. ASSUME NEW v \in Worker, todo'[v] = todo[v] PROVE Turn(v)' = Turn(v)
  BY <1>3 DEF Frame, Turn, Before
<1> QED BY <1>1, <1>2, <1>3 DEF Frame, Event

\* The control invariants after a handler's step.
LEMMA HandlerControl ==
  ASSUME TypeOK, Labels, Covering, InOrder, NEW w \in Worker, NEW e \in Turn(w),
         TypeOK', Frame(w, e), Progress(w, e)
  PROVE  Labels' /\ Covering' /\ InOrder'
<1>0. e \in Event /\ e \in todo[w]
  BY TurnUnique
<1>1. \A f : Covered(f) => Covered(f)'
  BY <1>0, FrameGrows
<1>2. Event' = Event /\ log' = log /\ cursor' = cursor
  BY DEF Frame, Event
<1>3. ASSUME NEW v \in Worker
      PROVE  /\ pc'[v] = "idle" => todo'[v] = {}
             /\ todo'[v] \subseteq 1..hi'[v]
             /\ \A f \in Turn(v)' : AtLabel(f, pc[v])'
             /\ \A f \in (1..hi'[v]) \ todo'[v] : Covered(f)'
  <2>0. /\ pc[v] = "idle" => todo[v] = {}
        /\ todo[v] \subseteq 1..hi[v]
        /\ \A f \in Turn(v) : AtLabel(f, pc[v])
        /\ \A f \in (1..hi[v]) \ todo[v] : Covered(f)
        /\ Turn(v) \subseteq Event
    BY TurnUnique DEF Labels, Covering
  <2>1. CASE v # w
    <3>1. pc'[v] = pc[v] /\ todo'[v] = todo[v] /\ hi'[v] = hi[v]
      BY <2>1 DEF Frame, OthersKept
    <3>2. Turn(v)' = Turn(v)
      BY <1>0, <3>1, FrameGrows
    <3>3. \A f \in Turn(v) : \A l : l = pc[v] => AtLabel(f, l)'
      BY <1>0, <2>0, FrameGrows
    <3> QED BY <1>1, <2>0, <3>1, <3>2, <3>3
  <2>2. CASE v = w /\ Leaves(w, e) /\ Covered(e)'
    <3>1. \A f : AtLabel(f, "next")'
      BY DEF AtLabel
    <3> QED BY <1>1, <2>0, <2>2, <3>1 DEF Leaves
  <2>3. ASSUME v = w, NEW l \in {"create", "retry", "read", "write", "tx", "log",
                                 "invalidate"},
               Stays(w, l), AtLabel(e, l)'
        PROVE  /\ pc'[v] = "idle" => todo'[v] = {}
               /\ todo'[v] \subseteq 1..hi'[v]
               /\ \A f \in Turn(v)' : AtLabel(f, pc[v])'
               /\ \A f \in (1..hi'[v]) \ todo'[v] : Covered(f)'
    <3>1. pc'[v] = l /\ todo'[v] = todo[v] /\ hi'[v] = hi[v] /\ l # "idle"
      BY <2>3 DEF Stays
    <3>2. Turn(v)' = Turn(v)
      BY <1>0, <3>1, FrameGrows
    <3>3. \A f \in Turn(v) : f = e
      BY <2>3, TurnUnique
    <3>4. \A f \in Turn(v)' : AtLabel(f, pc[v])'
      BY <2>3, <3>1, <3>2, <3>3
    <3> QED BY <1>1, <2>0, <3>1, <3>4
  <2>4. CASE v = w /\ GivesUp(w)
    BY <2>4 DEF GivesUp, Turn
  <2> QED BY <2>1, <2>2, <2>3, <2>4 DEF Progress
<1>4. Labels'
  BY <1>3 DEF Labels
<1>5. Covering'
  BY <1>1, <1>2, <1>3 DEF Covering
<1>6. ASSUME NEW f \in stored' \cup applied', NEW g \in 1..(f - 1),
             Rank[log[g].type] = Rank[log[f].type]
      PROVE  Covered(g)'
  <2>1. CASE f \in stored \cup applied
    BY <1>1, <1>6, <2>1 DEF InOrder
  <2>2. CASE f = e
    <3>1. g \in Event /\ g < e /\ Rank[log[e].type] \in 1..26
      BY <1>0, <2>2, LogFacts DEF Event
    <3> QED BY <1>1, <1>6, <2>2, <3>1, EarlierCovered
  <2> QED BY <2>1, <2>2 DEF Frame
<1>7. InOrder'
  BY <1>2, <1>6 DEF InOrder
<1> QED BY <1>4, <1>5, <1>7

-----------------------------------------------------------------------------
(* Steps outside the handlers *)

\* The read models and their events are left alone.
DataKept == UNCHANGED <<log, stored, view, claim, seen, dlq, applied>>

\* A step that leaves the data alone keeps what is said about events.
LEMMA KeptGrows ==
  ASSUME DataKept
  PROVE  /\ Event' = Event
         /\ \A f : Covered(f)' <=> Covered(f)
         /\ \A f, l : AtLabel(f, l) <=> AtLabel(f, l)'
         /\ \A v \in Worker : todo'[v] = todo[v] => Turn(v)' = Turn(v)
         /\ InOrder => InOrder'
         /\ Parsed => Parsed'
         /\ Idempotent => Idempotent'
<1>1. /\ Event' = Event
      /\ \A f : Covered(f)' <=> Covered(f)
      /\ \A f, l : AtLabel(f, l) <=> AtLabel(f, l)'
  BY DEF DataKept, Event, Covered, AtLabel, RowOf
<1>2. ASSUME NEW v \in Worker, todo'[v] = todo[v] PROVE Turn(v)' = Turn(v)
  BY <1>2 DEF DataKept, Turn, Before
<1>3. InOrder => InOrder'
  BY <1>1 DEF DataKept, InOrder
<1>4. Parsed => Parsed'
  BY DEF DataKept, Parsed
<1>5. Idempotent => Idempotent'
  <2>1. \A e : EndsAgain(e)' <=> EndsAgain(e)
    BY <1>1 DEF DataKept, EndsAgain, RowOf
  <2>2. ASSUME NEW e PROVE Settled(e) => Settled(e)'
    BY <2>1 DEF DataKept, Settled, Same, RowOf
  <2> QED BY <2>2 DEF DataKept, Idempotent
<1> QED BY <1>1, <1>2, <1>3, <1>4, <1>5

\* A batch is given up, or ends: by a crash or with the cursor moved.
LEMMA EndStep ==
  ASSUME CoreInv, NEW w \in Worker,
         advanceIndexerCursorForBatch(w) \/ Crash(w)
  PROVE  /\ CoreInv' /\ DataKept /\ GivesUp(w) /\ OthersKept(w)
         /\ UNCHANGED <<overlap, cache, reader>>
         /\ \/ cursor' = cursor
            \/ cursor' = hi[w] /\ pc[w] = "next" /\ todo[w] = {}
         /\ faults' >= faults
<1>1. /\ DataKept /\ UNCHANGED <<overlap, cache, reader>>
      /\ Abandon(w) /\ faults' \in 0..MaxFaults /\ faults' >= faults
      /\ \/ cursor' = cursor
         \/ cursor' = hi[w] /\ pc[w] = "next" /\ todo[w] = {}
  BY TypeParts, ProjectionsAssumption
     DEF CoreInv, advanceIndexerCursorForBatch, Crash, DataKept, data
<1>2. GivesUp(w) /\ OthersKept(w) /\ WorkTyped(pc', todo', hi', loc')
  BY <1>1, AbandonParts DEF CoreInv
<1>3. TypeOK'
  <2>1. hi[w] \in 0..Len(log) /\ Event' = Event
    BY <1>1, LogFacts DEF CoreInv, TypeOK, Event, DataKept
  <2> QED BY <1>1, <1>2, <2>1 DEF CoreInv, TypeOK, WorkTyped, DataKept
<1>4. Labels'
  <2> SUFFICES ASSUME NEW v \in Worker
               PROVE  /\ pc'[v] = "idle" => todo'[v] = {}
                      /\ todo'[v] \subseteq 1..hi'[v]
                      /\ \A f \in Turn(v)' : AtLabel(f, pc[v])'
    BY DEF Labels
  <2>1. CASE v = w
    BY <1>2, <2>1 DEF GivesUp, Turn
  <2>2. CASE v # w
    <3>1. pc'[v] = pc[v] /\ todo'[v] = todo[v] /\ hi'[v] = hi[v]
      BY <1>2, <2>2 DEF OthersKept
    <3>2. Turn(v)' = Turn(v) /\ \A f, l : AtLabel(f, l) => AtLabel(f, l)'
      BY <1>1, <3>1, KeptGrows
    <3> QED BY <3>1, <3>2 DEF CoreInv, Labels
  <2> QED BY <2>1, <2>2
<1>5. Covering'
  <2>1. \A f : Covered(f) => Covered(f)'
    BY <1>1, KeptGrows
  <2>2. \A v \in Worker : \A f \in (1..hi'[v]) \ todo'[v] : Covered(f)
    BY <1>2 DEF CoreInv, Covering, GivesUp, OthersKept
  <2>3. \A f \in 1..cursor' : Covered(f)
    BY <1>1 DEF CoreInv, Covering
  <2> QED BY <2>1, <2>2, <2>3 DEF Covering
<1> QED BY <1>1, <1>2, <1>3, <1>4, <1>5, KeptGrows DEF CoreInv

\* A batch is fetched.
LEMMA FetchStep ==
  ASSUME CoreInv, NEW w \in Worker, Fetch(w)
  PROVE  /\ CoreInv' /\ DataKept /\ OthersKept(w)
         /\ UNCHANGED <<cursor, cache, reader, faults>>
         /\ pc[w] = "idle" /\ pc'[w] = "next"
         /\ hi'[w] \in Event /\ todo'[w] = (cursor + 1)..hi'[w]
         /\ overlap' = (overlap \/ \E v \in Worker : v # w /\ pc[v] # "idle")
<1>1. /\ DataKept /\ UNCHANGED <<cursor, cache, reader, faults, loc>>
      /\ pc[w] = "idle" /\ pc' = [pc EXCEPT ![w] = "next"]
      /\ overlap' = (overlap \/ \E v \in Worker : v # w /\ pc[v] # "idle")
      /\ overlap' \in BOOLEAN
  BY DEF Fetch, DataKept, data
<1>2. PICK h \in Event : /\ h > cursor
                         /\ todo' = [todo EXCEPT ![w] = (cursor + 1)..h]
                         /\ hi' = [hi EXCEPT ![w] = h]
  BY DEF Fetch
<1>3. /\ (cursor + 1)..h \in SUBSET Event /\ cursor \in Nat /\ h \in Nat
      /\ WorkTyped(pc, todo, hi, loc) /\ TypeOK
  BY <1>2, LogFacts, TypeParts DEF CoreInv, TypeOK, Event
<1>4. /\ OthersKept(w) /\ WorkTyped(pc', todo', hi', loc')
      /\ pc'[w] = "next" /\ todo'[w] = (cursor + 1)..h /\ hi'[w] = h
  BY <1>1, <1>2, <1>3 DEF OthersKept, WorkTyped
<1>5. TypeOK'
  <2>1. Event' = Event
    BY <1>1, KeptGrows
  <2> QED BY <1>1, <1>3, <1>4, <2>1 DEF TypeOK, WorkTyped, DataKept
<1>6. Labels'
  <2> SUFFICES ASSUME NEW v \in Worker
               PROVE  /\ pc'[v] = "idle" => todo'[v] = {}
                      /\ todo'[v] \subseteq 1..hi'[v]
                      /\ \A f \in Turn(v)' : AtLabel(f, pc[v])'
    BY DEF Labels
  <2>1. CASE v = w
    <3>1. \A f : AtLabel(f, "next")'
      BY DEF AtLabel
    <3> QED BY <1>3, <1>4, <2>1, <3>1
  <2>2. CASE v # w
    <3>1. pc'[v] = pc[v] /\ todo'[v] = todo[v] /\ hi'[v] = hi[v]
      BY <1>4, <2>2 DEF OthersKept
    <3>2. Turn(v)' = Turn(v) /\ \A f, l : AtLabel(f, l) => AtLabel(f, l)'
      BY <1>1, <3>1, KeptGrows
    <3> QED BY <3>1, <3>2 DEF CoreInv, Labels
  <2> QED BY <2>1, <2>2
<1>7. Covering'
  <2>1. \A f : Covered(f) => Covered(f)'
    BY <1>1, KeptGrows
  <2>2. ASSUME NEW v \in Worker, NEW f \in (1..hi'[v]) \ todo'[v] PROVE Covered(f)
    <3>1. CASE v = w
      BY <1>3, <1>4, <2>2, <3>1 DEF CoreInv, Covering
    <3>2. CASE v # w
      BY <1>4, <2>2, <3>2 DEF CoreInv, Covering, OthersKept
    <3> QED BY <3>1, <3>2
  <2>3. \A f \in 1..cursor' : Covered(f)
    BY <1>1 DEF CoreInv, Covering
  <2> QED BY <2>1, <2>2, <2>3 DEF Covering
<1> QED BY <1>1, <1>4, <1>5, <1>6, <1>7, KeptGrows DEF CoreInv

\* A reader loads a row or caches what it loaded, or nothing happens.
LEMMA IdleStep ==
  ASSUME CoreInv, (\E r \in Row : LoadRow(r) \/ FillCache(r)) \/ UNCHANGED vars
  PROVE  /\ CoreInv' /\ DataKept /\ UNCHANGED <<pc, todo, hi, loc, cursor, faults, overlap>>
         /\ \A r \in Row : cache'[r] = "stale" => cache[r] = "stale"
<1>1. /\ DataKept /\ UNCHANGED <<pc, todo, hi, loc, cursor, faults, overlap>>
  BY DEF LoadRow, FillCache, vars, work, data, DataKept
<1>2. /\ cache' \in [Row -> {"none", "fresh", "stale", "excused"}]
      /\ reader' \in [Row -> {"idle", "current", "old"}]
      /\ \A r \in Row : cache'[r] = "stale" => cache[r] = "stale"
  BY TypeParts DEF CoreInv, LoadRow, FillCache, vars
<1>3. TypeOK'
  <2>1. Event' = Event
    BY <1>1, KeptGrows
  <2> QED BY <1>1, <1>2, <2>1 DEF CoreInv, TypeOK, DataKept
<1>4. Labels' /\ Covering'
  <2>1. /\ \A f : Covered(f) => Covered(f)'
        /\ \A f, l : AtLabel(f, l) => AtLabel(f, l)'
        /\ \A v \in Worker : Turn(v)' = Turn(v)
    BY <1>1, KeptGrows
  <2> QED BY <1>1, <2>1 DEF CoreInv, Labels, Covering
<1> QED BY <1>1, <1>2, <1>3, <1>4, KeptGrows DEF CoreInv

-----------------------------------------------------------------------------
(* What a delivered event has left behind *)

\* Events about one row that is not a key's are of one family.
LEMMA SameFamily ==
  ASSUME TypeOK, NEW e \in Event, NEW f \in Event, RowOf(e) = RowOf(f),
         NEW i \in 1..26, i \notin {15, 16, 17}, log[f].type \in Dispatch[i]
  PROVE  log[e].type \in Dispatch[i]
<1>1. log[e].type \in Type /\ log[f].type \in Type /\ Rank[log[f].type] = i
  BY LogFacts, RankOf
<1>2. SameTable(log[e].type, log[f].type)
  BY LogFacts
<1>3. log[f].type \notin KeyEvents
  BY FamiliesDisjoint DEF KeyEvents
<1>4. Rank[log[e].type] = i
  BY <1>1, <1>2, <1>3, TableFacts
<1> QED BY <1>1, <1>4, RankType

\* The families that Settled is about.
LEMMA Neighbours ==
  ASSUME TypeOK, NEW e \in Event, NEW f \in Event, RowOf(e) = RowOf(f)
  PROVE  /\ log[f].type \in Newest => log[e].type \in Newest
         /\ log[f].type \in Ended => log[e].type \in Created \cup Ended \cup {"pollVote", "bid"}
         /\ log[f].type \in Replaced /\ log[e].type \in Ended => log[e].type = log[f].type
         /\ log[f].type = "bid" => log[e].type \in {"auctionCreated", "bid", "auctionSettled"}
<1>1. \A i \in 1..26 : i \notin {15, 16, 17} /\ log[f].type \in Dispatch[i] =>
                         log[e].type \in Dispatch[i]
  BY SameFamily
<1>2. CASE log[f].type \in Newest
  BY <1>1, <1>2, DispatchFacts DEF Newest, Ended, Replaced
<1>3. CASE log[f].type \in Ended
  <2>1. log[f].type \in Dispatch[10] \/ log[f].type \in Dispatch[11]
        \/ log[f].type \in Dispatch[14]
    BY <1>3, DispatchFacts DEF Ended
  <2>2. log[e].type \in Dispatch[10] \/ log[e].type \in Dispatch[11]
        \/ log[e].type \in Dispatch[14]
    BY <1>1, <2>1
  <2>3. log[f].type \in Replaced /\ log[e].type \in Ended => log[e].type = log[f].type
    BY <1>1, DispatchFacts DEF Replaced, Ended
  <2> QED BY <1>3, <2>2, <2>3, DispatchFacts DEF Created, Ended, Newest
<1>4. CASE log[f].type = "bid"
  BY <1>1, <1>4, DispatchFacts DEF Newest, Ended, Replaced
<1> QED BY <1>2, <1>3, <1>4 DEF Replaced, Ended

\* Only what could be parsed is stored, only what could not is queued.
LEMMA ShapeParsed ==
  ASSUME TypeOK, NEW w \in Worker, NEW e \in Event, Shape(w, e), Frame(w, e)
  PROVE  /\ e \in stored' \ stored => log[e].ok /\ (e \in applied' \/ log[e].type = "social")
         /\ e \in dlq' \ dlq => ~log[e].ok
<1>1. CASE \E new : Commit(w, e, new)
  BY <1>1 DEF Commit, Wrote, Elsewhere
<1>2. CASE \/ Move(w, e) \/ Skip(w, e) \/ LogSocial(w, e) \/ DropStatus(w, e)
           \/ LogOnly(w, e) \/ Throw(w, e)
  BY <1>2 DEF Move, Skip, LogSocial, DropStatus, LogOnly, Throw, Quiet, data,
              Elsewhere
<1>3. CASE \/ log[e].ok /\ CreateDistribution(w, e)
           \/ processDividendClaimed(w, e) \/ BookClaim(w, e)
  BY <1>3 DEF CreateDistribution, processDividendClaimed, BookClaim, Elsewhere
<1>4. CASE Malformed(w, e) \/ Invalidate(w, e)
  BY <1>4 DEF Malformed, Invalidate, data
<1> QED BY <1>1, <1>2, <1>3, <1>4 DEF Shape

\* The read model changes only through Commit.
LEMMA ViewKept ==
  ASSUME TypeOK, NEW w \in Worker, NEW e \in Event, Shape(w, e),
         ~ \E new : Commit(w, e, new)
  PROVE  view' = view
BY DEF Shape, Move, Skip, LogSocial, DropStatus, LogOnly, Throw, Quiet, data,
       CreateDistribution, processDividendClaimed, BookClaim, Malformed, Invalidate

\* What was left behind of an event survives the handling of another ...
LEMMA SettledStays ==
  ASSUME TypeOK, NEW w \in Worker, NEW e \in Event, Shape(w, e), Frame(w, e),
         NEW f \in Event, Settled(f)
  PROVE  Settled(f)'
<1> DEFINE r == RowOf(f)
<1>1. /\ log' = log /\ stored \subseteq stored' /\ RowOf(f)' = r
      /\ \A T : Same(r, T) \subseteq Same(r, T)'
      /\ EndsAgain(f)' = EndsAgain(f)
  BY DEF Frame, Same, RowOf, EndsAgain, Event
<1>2. /\ log[f].type \in Newest => view'[r].st # "none" /\ view'[r].at >= f
      /\ log[f].ok =>
           /\ log[f].type \in Created => view'[r].st # "none"
           /\ log[f].type \in Ended => view'[r].st = "closed"
           /\ log[f].type \in Replaced /\ ~EndsAgain(f) => view'[r].at = f
           /\ log[f].type = "bid" =>
                view'[r].st # "none" /\ view'[r].val >= log[f].amt
  <2>1. CASE ~ \E new : Commit(w, e, new)
    <3>1. view' = view
      BY <2>1, ViewKept
    <3> QED BY <3>1 DEF Settled
  <2>2. CASE RowOf(e) # r
    <3>1. view'[r] = view[r]
      BY <2>2, LogFacts DEF Frame
    <3> QED BY <3>1 DEF Settled
  <2>3. ASSUME NEW new, Commit(w, e, new), RowOf(e) = r
        PROVE  /\ log[f].type \in Newest => view'[r].st # "none" /\ view'[r].at >= f
               /\ log[f].ok =>
                    /\ log[f].type \in Created => view'[r].st # "none"
                    /\ log[f].type \in Ended => view'[r].st = "closed"
                    /\ log[f].type \in Replaced /\ ~EndsAgain(f) => view'[r].at = f
                    /\ log[f].type = "bid" =>
                         view'[r].st # "none" /\ view'[r].val >= log[f].amt
    <3> DEFINE old == view[r]
    <3>1. /\ new \in RowRecord /\ (new.st = "none" => old.st = "none")
          /\ Outcome(e, old, new, stored, stored')
          /\ view'[r] = new
      BY <2>3, LogFacts, TypeParts DEF Commit, Wrote
    <3>2. /\ old \in RowRecord /\ e \in Int /\ f \in Int
          /\ log[e].amt \in Int /\ log[f].amt \in Int
          /\ old.at \in Int /\ old.val \in Int /\ new.at \in Int /\ new.val \in Int
      <4>1. \A row \in RowRecord : row.at \in Int /\ row.val \in Int
        BY LogFacts DEF RowRecord
      <4>2. old \in RowRecord
        BY <2>3, NewRows
      <4> QED BY <3>1, <4>1, <4>2, LogFacts
    <3> HIDE DEF old, r
    <3>3. /\ log[f].type \in Newest => old.st # "none" /\ old.at >= f
          /\ log[f].ok =>
               /\ log[f].type \in Created => old.st # "none"
               /\ log[f].type \in Ended => old.st = "closed"
               /\ log[f].type \in Replaced /\ ~EndsAgain(f) => old.at = f
               /\ log[f].type = "bid" =>
                    old.st # "none" /\ old.val >= log[f].amt
      BY DEF Settled, old, r
    <3>4. /\ log[f].type \in Newest => log[e].type \in Newest
          /\ log[f].type \in Ended =>
               log[e].type \in Created \cup Ended \cup {"pollVote", "bid"}
          /\ log[f].type = "bid" =>
               log[e].type \in {"auctionCreated", "bid", "auctionSettled"}
      BY <2>3, Neighbours DEF r
    <3>5. log[f].type \in Newest => new.st # "none" /\ new.at >= f
      BY <3>1, <3>2, <3>3, <3>4 DEF Outcome, LevelRow
    <3>6. log[f].ok /\ log[f].type \in Ended => new.st = "closed"
      BY <3>1, <3>2, <3>3, <3>4 DEF Outcome, Unique, HighestBid
    <3>7. log[f].ok /\ log[f].type = "bid" =>
            new.st # "none" /\ new.val >= log[f].amt
      BY <3>1, <3>2, <3>3, <3>4 DEF Outcome, HighestBid, Created, Ended
    <3>8. log[f].ok /\ log[f].type \in Replaced /\ ~EndsAgain(f) => new.at = f
      <4> SUFFICES ASSUME log[f].ok, log[f].type \in Replaced, ~EndsAgain(f)
                   PROVE  new.at = f
        OBVIOUS
      <4>1. log[f].type \in Ended /\ old.st = "closed" /\ old.at = f
        BY <3>3 DEF Replaced, Ended
      <4>2. CASE log[e].type \in Ended
        <5>1. log[e].type = log[f].type
          BY <2>3, <4>2, Neighbours DEF r
        <5>2. e = f
          BY <2>3, <5>1 DEF EndsAgain, Replaced, r
        <5> QED BY <3>1, <4>2, <5>1, <5>2 DEF Outcome
      <4>3. CASE log[e].type \in Created \cup {"pollVote", "bid"}
        BY <3>1, <3>2, <4>1, <4>3 DEF Outcome, Unique, HighestBid
      <4> QED BY <3>4, <4>1, <4>2, <4>3
    <3> QED BY <3>1, <3>3, <3>5, <3>6, <3>7, <3>8
  <2> QED BY <2>1, <2>2, <2>3
<1>3. log[f].ok /\ log[f].type \in Unique =>
        \E g \in Same(r, {log[f].type})' : log[g].amt = log[f].amt
  BY <1>1 DEF Settled
<1> HIDE DEF r
<1>4. log[f].ok /\ log[f].type \in Logged => f \in stored'
  BY <1>1 DEF Settled
<1> QED BY <1>1, <1>2, <1>3, <1>4 DEF Settled, r

\* ... and is there once the event has been dealt with.
LEMMA SettledNew ==
  ASSUME TypeOK, NEW w \in Worker, NEW e \in Event, Shape(w, e), Frame(w, e),
         e \notin applied, e \in applied'
  PROVE  Settled(e)'
<1> DEFINE r == RowOf(e)
<1>1. log' = log /\ RowOf(e)' = r /\ r \in Row
  BY LogFacts DEF Frame, RowOf
<1>2. ASSUME NEW new, Commit(w, e, new)
      PROVE  Settled(e)'
  <2> DEFINE old == view[r]
  <2>1. /\ new \in RowRecord
        /\ Outcome(e, old, new, stored, stored')
        /\ view'[r] = new
        /\ log[e].type \in CommitTypes /\ log[e].ok
    BY <1>1, <1>2, TypeParts DEF Commit, Wrote
  <2>2. e \in Int /\ log[e].amt \in Int /\ old.at \in Int /\ old.val \in Int
    BY NewRows, LogFacts DEF RowRecord
  <2>3. log[e].type \in Newest => new.st # "none" /\ new.at >= e
    BY <2>1, <2>2 DEF Outcome, LevelRow
  <2>4. log[e].type \in Logged => e \in stored'
    BY <2>1 DEF Outcome, Logged, CommitTypes, Inserted, Unique, Created, Ended,
                Newest, Listed, Folded, LpTypes, Invoice, Split
  <2>5. log[e].type \in Unique =>
          \E f \in Same(r, {log[e].type})' : log[f].amt = log[e].amt
    <3>1. SUFFICES ASSUME log[e].type \in Unique
                   PROVE  \E f \in Same(r, {log[e].type})' : log[f].amt = log[e].amt
      OBVIOUS
    <3>2. CASE stored' = stored \cup {e}
      BY <1>1, <3>2 DEF Same
    <3>3. CASE /\ stored' = stored
               /\ \E f \in Same(r, {log[e].type}) : log[f].amt = log[e].amt
      BY <1>1, <3>3 DEF Same, RowOf
    <3> QED BY <2>1, <3>1, <3>2, <3>3 DEF Outcome
  <2>6. /\ log[e].type \in Created => new.st # "none"
        /\ log[e].type \in Ended => new.st = "closed"
        /\ log[e].type \in Replaced => new.at = e
        /\ log[e].type = "bid" => new.st # "none" /\ new.val >= log[e].amt
    BY <2>1, <2>2 DEF Outcome, HighestBid, Replaced, Ended
  <2> HIDE DEF r
  <2> QED BY <1>1, <2>1, <2>3, <2>4, <2>5, <2>6 DEF Settled, r
<1>3. ASSUME log[e].type \in Split \cup {"trade", "subscription", "revenueClaimed"},
             e \in stored'
      PROVE  Settled(e)'
  BY <1>1, <1>3 DEF Settled, Newest, Unique, Created, Ended, Replaced, Split
<1>4. CASE \/ Skip(w, e) \/ LogOnly(w, e) \/ BookClaim(w, e)
           \/ log[e].ok /\ CreateDistribution(w, e)
  BY <1>3, <1>4 DEF Skip, LogOnly, BookClaim, CreateDistribution, Split, Quiet, data
<1>5. CASE processDividendClaimed(w, e)
  BY <1>1, <1>5 DEF processDividendClaimed, Handles, Settled, Newest, Logged,
       Inserted, Folded, LpTypes, Invoice, Unique, Created, Ended, Replaced, Split
<1>6. CASE Malformed(w, e)
  <2>1. log[e].type \notin ToDLQ /\ ~log[e].ok
    BY <1>6 DEF Malformed
  <2>2. log[e].type \notin Newest
    BY <2>1, DispatchFacts DEF ToDLQ, Newest
  <2> QED BY <1>1, <2>1, <2>2 DEF Settled
<1> QED BY <1>2, <1>4, <1>5, <1>6
        DEF Shape, Move, LogSocial, DropStatus, Throw, Invalidate

\* A handler's step preserves the core of the invariant.
LEMMA HandlerCore ==
  ASSUME CoreInv, NEW w \in Worker, NEW e \in Turn(w), Handler(w, e)
  PROVE  /\ CoreInv' /\ Frame(w, e) /\ Progress(w, e) /\ Shape(w, e)
         /\ e \in Event /\ AtLabel(e, pc[w])
<1>1. e \in Event /\ AtLabel(e, pc[w]) /\ TypeOK
  BY TurnUnique DEF CoreInv, Labels
<1>2. TypeOK' /\ Frame(w, e) /\ Progress(w, e) /\ Shape(w, e)
  BY <1>1, HandlerStep
<1>3. Labels' /\ Covering' /\ InOrder'
  BY <1>2, HandlerControl DEF CoreInv
<1>4. Parsed'
  <2>1. /\ e \in stored' \ stored =>
             log[e].ok /\ (e \in applied' \/ log[e].type = "social")
        /\ e \in dlq' \ dlq => ~log[e].ok
    BY <1>1, <1>2, ShapeParsed
  <2> QED BY <1>2, <2>1 DEF CoreInv, Frame, Parsed
<1>5. Idempotent'
  <2> SUFFICES ASSUME NEW f \in applied' PROVE Settled(f)'
    BY DEF Idempotent
  <2>1. CASE f \in applied
    BY <1>1, <1>2, <2>1, TypeParts, SettledStays DEF CoreInv, Idempotent
  <2>2. CASE f \notin applied
    BY <1>1, <1>2, <2>2, SettledNew DEF Frame
  <2> QED BY <2>1, <2>2
<1> QED BY <1>1, <1>2, <1>3, <1>4, <1>5 DEF CoreInv

\* The next-state relation, by the step lemmas.
LEMMA NextCases ==
  ASSUME [Next]_vars
  PROVE  \/ \E w \in Worker : \E e \in Turn(w) : Handler(w, e)
         \/ \E w \in Worker : advanceIndexerCursorForBatch(w) \/ Crash(w)
         \/ \E w \in Worker : Fetch(w)
         \/ (\E r \in Row : LoadRow(r) \/ FillCache(r)) \/ UNCHANGED vars
BY DEF Next, processIndexerEvents

\* The core of the invariant holds initially ...
LEMMA InitCore == Init => CoreInv
<1> SUFFICES ASSUME Init PROVE CoreInv
  OBVIOUS
<1>1. TypeOK
  <2>1. Len(log) \in Nat
    BY ProjectionsAssumption DEF Init
  <2>2. view \in [Row -> RowRecord]
    BY DEF Init, NoRow, RowRecord
  <2>3. 0 \in 0..Len(log) /\ 0 \in 0..MaxFaults
    BY <2>1, ProjectionsAssumption
  <2> QED BY <2>2, <2>3 DEF Init, TypeOK, RowRecord
<1>2. Labels /\ Covering
  BY DEF Init, Labels, Covering, Turn
<1>3. InOrder /\ Parsed /\ Idempotent
  BY DEF Init, InOrder, Parsed, Idempotent
<1> QED BY <1>1, <1>2, <1>3 DEF CoreInv

\* ... and every step preserves it.
LEMMA NextCore == CoreInv /\ [Next]_vars => CoreInv'
BY NextCases, HandlerCore, EndStep, FetchStep, IdleStep

\* The indexer's state keeps its types, whatever is in the log.
THEOREM TypeCorrect == Spec => []TypeOK
<1>1. CoreInv => TypeOK
  BY DEF CoreInv
<1> QED BY <1>1, InitCore, NextCore, PTL DEF Spec

-----------------------------------------------------------------------------
(* The refinement *)

Handled == {e \in Event : Covered(e)}

\* A handler's step handles its event, in the order of its family, or nothing.
LEMMA HandlerDelivers ==
  ASSUME CoreInv, NEW w \in Worker, NEW e \in Turn(w), Handler(w, e)
  PROVE  [Delivery!Next]_(Delivery!vars)
<1> DEFINE fam == [f \in Event |-> Rank[log[f].type]]
<1>1. Frame(w, e) /\ e \in Event /\ TypeOK /\ Labels /\ Covering
  BY HandlerCore DEF CoreInv
<1>2. /\ log' = log /\ cursor' = cursor /\ Event' = Event
      /\ \A f : Covered(f) => Covered(f)'
      /\ \A f : Covered(f)' => Covered(f) \/ f = e
  <2>1. \A f : Covered(f)' => Covered(f) \/ f = e
    BY <1>1 DEF Frame, Covered
  <2> QED BY <1>1, <2>1, FrameGrows DEF Frame
<1>3. fam' = fam /\ DOMAIN fam = Event
  BY <1>2
<1>4. \A f \in 1..(e - 1) : fam[f] = fam[e] => f \in Handled
  <2> SUFFICES ASSUME NEW f \in 1..(e - 1), fam[f] = fam[e] PROVE f \in Handled
    OBVIOUS
  <2>1. f \in Event /\ f < e /\ Rank[log[e].type] \in 1..26
    BY <1>1, LogFacts DEF Event
  <2>2. Rank[log[f].type] = Rank[log[e].type]
    BY <1>1, <2>1
  <2> QED BY <1>1, <2>1, <2>2, EarlierCovered DEF Handled
<1>5. Handled' = Handled \/ Handled' = Handled \cup {e}
  BY <1>1, <1>2 DEF Handled
<1>6. CASE Handled' = Handled
  BY <1>2, <1>3, <1>6 DEF Delivery!vars, Handled
<1>7. CASE Handled' = Handled \cup {e}
  <2>1. Delivery!Handle(e)
    BY <1>2, <1>3, <1>4, <1>7 DEF Delivery!Handle, Handled
  <2> QED BY <1>1, <1>3, <2>1 DEF Delivery!Next
<1> QED BY <1>5, <1>6, <1>7

\* The other steps move the mark over handled events, or do nothing.
LEMMA OthersDeliver ==
  ASSUME CoreInv, DataKept,
         cursor' = cursor \/ (cursor' \in 0..Len(log) /\ \A f \in 1..cursor' : Covered(f))
  PROVE  [Delivery!Next]_(Delivery!vars)
<1> DEFINE fam == [f \in Event |-> Rank[log[f].type]]
<1>1. fam' = fam /\ Handled' = Handled /\ Len(log) \in Nat
  <2>1. Event' = Event /\ log' = log /\ \A f : Covered(f)' <=> Covered(f)
    BY KeptGrows DEF DataKept
  <2> QED BY <2>1, LogFacts DEF Handled, CoreInv
<1>2. CASE cursor' = cursor
  BY <1>1, <1>2 DEF Delivery!vars, Handled
<1>3. CASE cursor' \in 0..Len(log) /\ \A f \in 1..cursor' : Covered(f)
  <2>1. Len(fam) = Len(log)
    BY <1>1 DEF Event
  <2>2. 1..cursor' \subseteq Handled
    BY <1>1, <1>3 DEF Handled, Event
  <2>3. Delivery!Mark(cursor')
    BY <1>1, <2>2 DEF Delivery!Mark, Handled
  <2> QED BY <1>3, <2>1, <2>3 DEF Delivery!Next
<1> QED BY <1>2, <1>3

\* Every step of the indexer is a step of the delivery, or none.
LEMMA NextDelivers == CoreInv /\ [Next]_vars => [Delivery!Next]_(Delivery!vars)
<1> SUFFICES ASSUME CoreInv, [Next]_vars PROVE [Delivery!Next]_(Delivery!vars)
  OBVIOUS
<1>1. ASSUME NEW w \in Worker, advanceIndexerCursorForBatch(w) \/ Crash(w)
      PROVE  [Delivery!Next]_(Delivery!vars)
  <2>1. /\ DataKept /\ CoreInv'
        /\ \/ cursor' = cursor
           \/ cursor' = hi[w] /\ pc[w] = "next" /\ todo[w] = {}
    BY <1>1, EndStep
  <2>2. cursor' \in 0..Len(log)
    BY <2>1 DEF CoreInv, TypeOK, DataKept
  <2>3. cursor' # cursor => \A f \in 1..cursor' : Covered(f)
    BY <2>1 DEF CoreInv, Covering
  <2> QED BY <2>1, <2>2, <2>3, OthersDeliver
<1>2. ASSUME NEW w \in Worker, Fetch(w) PROVE [Delivery!Next]_(Delivery!vars)
  BY <1>2, FetchStep, OthersDeliver
<1>3. CASE (\E r \in Row : LoadRow(r) \/ FillCache(r)) \/ UNCHANGED vars
  BY <1>3, IdleStep, OthersDeliver
<1> QED BY <1>1, <1>2, <1>3, NextCases, HandlerDelivers

\* The indexer implements the at-least-once delivery in family order of
\* OrderedDelivery, with any number of workers, batches, crashes and lost
\* cursor writes.
THEOREM Delivers == Spec => DeliverySpec
<1>1. Init => Delivery!Init
  BY DEF Init, Delivery!Init, Covered
<1> QED BY <1>1, InitCore, NextCore, NextDelivers, PTL
        DEF Spec, DeliverySpec, Delivery!Spec

-----------------------------------------------------------------------------
(* The newest event wins *)

\* One batch at a time stays one as long as no other is fetched meanwhile.
LEMMA OneBatchStep ==
  ASSUME CoreInv, [Next]_vars, ~overlap => OneBatch
  PROVE  ~overlap' => OneBatch'
<1>1. ASSUME NEW w \in Worker, NEW e \in Turn(w), Handler(w, e), ~overlap'
      PROVE  OneBatch'
  <2>1. Frame(w, e) /\ Progress(w, e) /\ OneBatch /\ cursor' = cursor
    BY <1>1, HandlerCore DEF Frame
  <2>2. pc[w] # "idle"
    BY <1>1, TurnUnique DEF CoreInv, Labels
  <2>3. \A v \in Worker : /\ pc'[v] # "idle" => pc[v] # "idle"
                          /\ todo'[v] \subseteq todo[v]
    BY <2>1, <2>2 DEF Frame, OthersKept, Progress, Leaves, Stays, GivesUp
  <2> QED BY <2>1, <2>3 DEF OneBatch
<1>2. ASSUME NEW w \in Worker, advanceIndexerCursorForBatch(w) \/ Crash(w),
             ~overlap'
      PROVE  OneBatch'
  <2>1. /\ GivesUp(w) /\ OthersKept(w) /\ OneBatch
        /\ \/ cursor' = cursor
           \/ cursor' = hi[w] /\ pc[w] = "next"
    BY <1>2, EndStep
  <2>2. pc[w] # "idle"
    BY <1>2 DEF advanceIndexerCursorForBatch, Crash
  <2>3. \A v \in Worker : v # w => pc'[v] = "idle" /\ todo'[v] = {}
    BY <2>1, <2>2 DEF OneBatch, OthersKept, CoreInv, Labels
  <2> QED BY <2>1, <2>3 DEF OneBatch, GivesUp
<1>3. ASSUME NEW w \in Worker, Fetch(w), ~overlap' PROVE OneBatch'
  <2>1. /\ OthersKept(w) /\ cursor' = cursor
        /\ hi'[w] \in Event /\ todo'[w] = (cursor + 1)..hi'[w]
        /\ ~overlap /\ \A v \in Worker : v # w => pc[v] = "idle"
    BY <1>3, FetchStep
  <2>2. cursor \in Nat /\ hi'[w] \in Nat
    BY <2>1, LogFacts DEF CoreInv, TypeOK
  <2>3. /\ \A v \in Worker : v # w => pc'[v] = "idle" /\ todo'[v] = {}
        /\ \A e \in todo'[w] : e > cursor'
    BY <2>1, <2>2 DEF OthersKept, CoreInv, Labels
  <2> QED BY <2>3 DEF OneBatch
<1>4. ASSUME (\E r \in Row : LoadRow(r) \/ FillCache(r)) \/ UNCHANGED vars,
             ~overlap'
      PROVE  OneBatch'
  <2>1. UNCHANGED <<pc, todo, cursor, overlap>> /\ OneBatch
    BY <1>4, IdleStep
  <2> QED BY <2>1 DEF OneBatch
<1> QED BY <1>1, <1>2, <1>3, <1>4, NextCases

\* The social events of a row have the row to themselves.
LEMMA SocialNeighbour ==
  ASSUME TypeOK, NEW e \in Event, NEW f \in Event, RowOf(e) = RowOf(f),
         log[f].type = "social"
  PROVE  log[e].type = "social"
BY SameFamily, DispatchFacts

\* The rows of social events.
LEMMA SocialRows ==
  ASSUME CoreInv, SocialInv, NEW w \in Worker, NEW e \in Turn(w),
         NEW new, Commit(w, e, new), log[e].type = "social"
  PROVE  /\ \/ /\ pc[w] = "read" /\ new = view[RowOf(e)]
               /\ isStaleRelativeToSnapshot(e)
            \/ pc[w] = "write" /\ new = SocialRow(e)
         /\ view'[RowOf(e)] = new /\ RowOf(e) \in Row
         /\ view[RowOf(e)].at \in Int /\ view[RowOf(e)].val \in Nat
         /\ view[RowOf(e)].st = "none" =>
              view[RowOf(e)].at = 0 /\ view[RowOf(e)].val = 0
         /\ new.at \in {view[RowOf(e)].at, e} /\ new.val \in Nat
         /\ log[e].amt \in Nat /\ e \in Nat /\ e >= 1
<1>1. TypeOK /\ e \in Event
  BY TurnUnique DEF CoreInv
<1>2. /\ RowOf(e) \in Row /\ log[e].amt \in Nat /\ e \in Nat /\ e >= 1
      /\ view[RowOf(e)].at \in Int /\ view[RowOf(e)].val \in Int
  BY <1>1, LogFacts, NewRows, RowNumbers
<1>3. /\ view[RowOf(e)].val >= 0
      /\ view[RowOf(e)].st = "none" =>
           view[RowOf(e)].at = 0 /\ view[RowOf(e)].val = 0
  BY <1>1, <1>2 DEF SocialInv, Holds
<1>4. /\ \/ /\ pc[w] = "read" /\ new = view[RowOf(e)]
            /\ isStaleRelativeToSnapshot(e)
         \/ pc[w] = "write" /\ new = SocialRow(e)
      /\ view'[RowOf(e)] = new
  BY <1>1, <1>2, TypeParts DEF Commit, SocialOutcome, Wrote
<1>5. new.at \in {view[RowOf(e)].at, e} /\ new.val \in Nat
  BY <1>2, <1>3, <1>4 DEF SocialRow
<1> QED BY <1>2, <1>3, <1>4, <1>5

\* A social event whose row is being inserted is not behind the read model.
LEMMA SocialIsNext ==
  ASSUME CoreInv, SocialInv, NEW e \in Event, log[e].type = "social", log[e].ok,
         e \notin stored
  PROVE  view[RowOf(e)].at <= e
<1>1. TypeOK /\ RowOf(e) \in Row /\ e \in Nat /\ e >= 1
  BY LogFacts DEF CoreInv
<1>2. view[RowOf(e)].at \in Same(RowOf(e), {"social"}) \cup {0}
  BY <1>1 DEF SocialInv, Holds
<1>3. ASSUME NEW f \in Same(RowOf(e), {"social"}), f = view[RowOf(e)].at, f > e
      PROVE  FALSE
  <2>0. f \in stored /\ log[f].type = "social"
    BY DEF Same
  <2>1. f \in Event /\ f \in Nat /\ log[f].ok
    BY <1>1, <2>0, LogFacts, TypeParts DEF CoreInv, Parsed
  <2>2. ~Covered(e)
    BY DEF Covered, CoreInv, Parsed, SocialInv
  <2>3. Rank[log[e].type] # Rank[log[f].type]
    BY <1>1, <1>3, <2>0, <2>1, <2>2 DEF CoreInv, InOrder
  <2> QED BY <2>0, <2>3
<1>4. view[RowOf(e)].at \in Int
  BY <1>1, NewRows, RowNumbers
<1> QED BY <1>1, <1>2, <1>3, <1>4

\* A handler's step in the only batch.
LEMMA SocialHandler ==
  ASSUME CoreInv, SocialInv, NEW w \in Worker, NEW e \in Turn(w), Handler(w, e),
         Social, OneBatch
  PROVE  Social'
<1>1. /\ Frame(w, e) /\ Progress(w, e) /\ Shape(w, e) /\ e \in Event
      /\ AtLabel(e, pc[w]) /\ TypeOK /\ TypeOK' /\ e \in Int
      /\ log' = log
  BY HandlerCore, LogFacts DEF CoreInv, Frame
<1>2. pc[w] # "idle"
  BY TurnUnique DEF CoreInv, Labels
<1>3. \A v \in Worker : pc[v] # "idle" => v = w
  BY <1>2 DEF OneBatch
<1>4. /\ \A v \in Worker : todo'[v] = todo[v] => Turn(v)' = Turn(v)
      /\ \A f \in Turn(w) : f = e
  BY <1>1, FrameGrows, TurnUnique
<1>5. \A f \in Event : RowOf(f)' = RowOf(f)
  BY <1>1 DEF RowOf
<1>6. ASSUME NEW v \in Worker, pc'[v] \in {"read", "write"}, NEW f \in Turn(v)'
      PROVE  /\ view'[RowOf(f)].at <= f
             /\ pc'[v] = "write" => ~isStaleRelativeToSnapshot(f)'
  <2>1. v = w
    BY <1>1, <1>3, <1>6 DEF Frame, OthersKept
  <2>2. Move(w, e) \/ LogSocial(w, e)
    <3>1. ~Done(w, e) /\ ~Abandon(w) /\ ~Goto(w, "invalidate", {})
          /\ ~Goto(w, "log", {})
      <4>1. pc'[w] \in {"read", "write"}
        BY <1>6, <2>1
      <4> QED BY <1>1, <4>1, DoneParts, AbandonParts, GotoParts
              DEF Leaves, GivesUp, Stays
    <3> QED BY <1>1, <3>1 DEF Shape, Commit, Skip, DropStatus, LogOnly,
              CreateDistribution, processDividendClaimed, BookClaim, Throw,
              Malformed, Invalidate
  <2>3. CASE LogSocial(w, e)
    <3>1. Stays(w, "read") /\ view' = view
      BY <1>1, <2>3, GotoParts DEF LogSocial
    <3>2. f = e /\ pc'[w] = "read"
      BY <1>4, <1>6, <2>1, <3>1 DEF Stays
    <3>3. view[RowOf(e)].at <= e
      BY <1>1, <2>3, SocialIsNext DEF LogSocial
    <3> QED BY <2>1, <3>1, <3>2, <3>3
  <2>4. CASE Move(w, e)
    <3>1. \A l \in {"create", "retry", "tx"}, s \in SUBSET Event : ~Goto(w, l, s)
      BY <1>1, <1>6, <2>1, GotoParts DEF Stays
    <3>2. /\ Same(RowOf(e), {"trade"}) \in SUBSET Event
          /\ SelectedDistribution(e) \in SUBSET Event
      BY <1>1, TypeParts DEF Same, SelectedDistribution, Select
    <3>3. /\ Goto(w, "write", {}) /\ ~isStaleRelativeToSnapshot(e)
          /\ pc[w] = "read"
      BY <2>4, <3>1, <3>2 DEF Move
    <3>4. todo'[w] = todo[w]
      BY <1>1, <3>3, GotoParts DEF Stays
    <3>5. view' = view /\ f = e
      BY <1>4, <1>6, <2>1, <2>4, <3>4 DEF Move, Quiet, data
    <3>6. view[RowOf(e)].at <= e
      BY <3>3 DEF Social
    <3> QED BY <1>1, <3>3, <3>5, <3>6 DEF isStaleRelativeToSnapshot, RowOf
  <2> QED BY <2>2, <2>3, <2>4
<1>7. ASSUME NEW f \in stored', log[f].type = "social"
      PROVE  \/ Heeded(f, view'[RowOf(f)])
             \/ \E v \in Worker : f \in Turn(v)' /\ pc'[v] \in {"read", "write"}
  <2>1. CASE f \notin stored
    <3>1. f = e /\ LogSocial(w, e)
      BY <1>1, <1>7, <2>1 DEF Frame, Shape, Commit, Outcome, Move, Skip,
           DropStatus, LogOnly, CreateDistribution, Split,
           processDividendClaimed, BookClaim, Throw, Quiet, data, Malformed, Invalidate
    <3>2. Stays(w, "read")
      BY <1>1, <3>1, GotoParts DEF LogSocial
    <3> QED BY <1>4, <3>1, <3>2 DEF Stays
  <2>2. CASE f \in stored
    <3>0. f \in Event /\ f \in Int /\ RowOf(f) \in Row /\ log[f].amt \in Nat
      <4>1. TypeOK
        BY <1>1
      <4>2. f \in Event
        BY <2>2, <4>1, TypeParts
      <4>3. f \in Nat /\ RowOf(f) \in Row /\ log[f].amt \in Nat
        BY <4>1, <4>2, LogFacts
      <4> QED BY <4>2, <4>3
    <3>1. \/ Heeded(f, view[RowOf(f)])
          \/ f = e /\ pc[w] \in {"read", "write"}
      BY <1>3, <1>4, <1>7, <2>2 DEF Social
    <3>2. ASSUME NEW new, Commit(w, e, new), RowOf(f) = RowOf(e)
          PROVE  Heeded(f, view'[RowOf(f)])
      <4> DEFINE old == view[RowOf(e)]
      <4>1. log[e].type = "social"
        BY <1>1, <1>7, <3>0, <3>2, SocialNeighbour
      <4>2. /\ \/ pc[w] = "read" /\ new = old /\ isStaleRelativeToSnapshot(e)
               \/ pc[w] = "write" /\ new = SocialRow(e)
            /\ view'[RowOf(e)] = new
            /\ old.at \in Int /\ old.val \in Nat /\ log[e].amt \in Nat
            /\ old.st = "none" => old.at = 0 /\ old.val = 0
        BY <3>2, <4>1, SocialRows
      <4>3. /\ old.at <= e
            /\ pc[w] = "write" => ~isStaleRelativeToSnapshot(e)
        BY <4>2 DEF Social
      <4>4. CASE pc[w] = "read"
        <5>1. log[e].amt # 0 /\ log[e].amt < old.val /\ new = old
          BY <1>1, <4>2, <4>3, <4>4 DEF isStaleRelativeToSnapshot
        <5>2. Heeded(e, old)
          BY <4>2, <5>1 DEF Heeded
        <5> QED BY <3>1, <3>2, <4>2, <5>1, <5>2
      <4>5. CASE pc[w] = "write"
        <5>1. /\ new = SocialRow(e)
              /\ log[e].amt # 0 => log[e].amt >= old.val
          BY <1>1, <4>2, <4>3, <4>5 DEF isStaleRelativeToSnapshot
        <5>2. /\ new.at = e /\ new.val \in Nat /\ new.val >= old.val
              /\ new.val >= log[e].amt
          BY <4>2, <5>1 DEF SocialRow
        <5>3. CASE f = e
          BY <1>1, <3>2, <4>2, <5>2, <5>3 DEF Heeded
        <5>4. CASE f # e
          <6>1. Heeded(f, old)
            BY <3>1, <3>2, <5>4
          <6> HIDE DEF old
          <6>2. Heeded(f, new)
            BY <1>1, <3>0, <4>2, <4>3, <5>2, <6>1 DEF Heeded
          <6> QED BY <3>2, <4>2, <6>2
        <5> QED BY <5>3, <5>4
      <4> QED BY <4>2, <4>4, <4>5
    <3>3. CASE RowOf(f) # RowOf(e)
      BY <1>1, <3>0, <3>1, <3>3 DEF Frame
    <3>4. CASE ~ \E new : Commit(w, e, new)
      <4>1. view' = view
        BY <1>1, <3>4, ViewKept
      <4>2. CASE f = e /\ pc[w] \in {"read", "write"}
        <5>1. Move(w, e)
          BY <1>1, <1>7, <3>4, <4>2 DEF Shape, Skip, LogSocial, DropStatus, LogOnly,
               CreateDistribution, processDividendClaimed, Handles, BookClaim,
               Malformed, Invalidate
        <5>2. Goto(w, "write", {})
          BY <1>7, <4>2, <5>1 DEF Move, Leveled
        <5>3. Stays(w, "write")
          BY <1>1, <5>2, GotoParts
        <5> QED BY <1>4, <4>2, <5>3 DEF Stays
      <4> QED BY <3>1, <4>1, <4>2
    <3> QED BY <3>2, <3>3, <3>4
  <2> QED BY <2>1, <2>2
<1>8. stored' \subseteq Event
  BY <1>1, TypeParts DEF Frame
<1>9. \A v \in Worker : Turn(v)' \subseteq Event
  <2>1. Event' = Event
    BY <1>1 DEF Event
  <2> QED BY <1>1, <2>1 DEF TypeOK, Turn
<1> QED BY <1>1, <1>5, <1>6, <1>7, <1>8, <1>9 DEF Social, Heeded

\* The whole of SocialInv.
LEMMA SocialStep ==
  ASSUME CoreInv, SocialInv, [Next]_vars
  PROVE  SocialInv'
<1>0. ~overlap' => OneBatch'
  BY OneBatchStep DEF SocialInv
<1>1. ASSUME NEW w \in Worker, NEW e \in Turn(w), Handler(w, e) PROVE SocialInv'
  <2>1. /\ Frame(w, e) /\ Shape(w, e) /\ e \in Event /\ AtLabel(e, pc[w])
        /\ TypeOK /\ TypeOK' /\ log' = log
    BY <1>1, HandlerCore DEF CoreInv, Frame
  <2>2. ASSUME NEW r \in Row, view'[r].st = "none"
        PROVE  view'[r].at = 0 /\ view'[r].val = 0
    <3>1. CASE ~ \E new : Commit(w, e, new)
      BY <2>1, <2>2, <3>1, ViewKept DEF SocialInv
    <3>2. ASSUME NEW new, Commit(w, e, new)
          PROVE  view'[r].at = 0 /\ view'[r].val = 0
      <4>1. /\ view' = [view EXCEPT ![RowOf(e)] = new]
            /\ new.st = "none" => new = view[RowOf(e)]
        BY <3>2 DEF Commit, Wrote
      <4>2. view'[r] = view[r]
        BY <2>1, <2>2, <4>1, TypeParts
      <4> QED BY <2>2, <4>2 DEF SocialInv
    <3> QED BY <3>1, <3>2
  <2>3. ASSUME NEW f \in applied', log[f].type = "social", log[f].ok
        PROVE  f \in stored'
    <3>1. CASE f \in applied
      BY <2>1, <2>3, <3>1 DEF SocialInv, Frame
    <3>2. CASE f \notin applied
      <4>1. f = e
        BY <2>1, <2>3, <3>2 DEF Frame
      <4>2. \E new : Commit(w, e, new)
        BY <2>1, <2>3, <3>2, <4>1 DEF Shape, Move, Skip, LogSocial, DropStatus,
             LogOnly, CreateDistribution, processDividendClaimed, Handles,
             BookClaim, Throw, Malformed, Invalidate
      <4>3. pc[w] \in {"read", "write"}
        BY <2>3, <4>1, <4>2 DEF Commit, SocialOutcome
      <4> QED BY <2>1, <4>1, <4>3 DEF AtLabel, Frame
    <3> QED BY <3>1, <3>2
  <2>4. (faults' = 0 /\ ~overlap') => Social'
    <3> SUFFICES ASSUME faults' = 0, ~overlap' PROVE Social'
      OBVIOUS
    <3>1. faults = 0 /\ ~overlap
      BY <2>1, TypeParts DEF Frame
    <3> QED BY <1>1, <3>1, SocialHandler DEF SocialInv
  <2>5. ASSUME NEW r \in Row, Holds(r, {"social"})'
        PROVE  view'[r].val >= 0 /\ view'[r].at \in Same(r, {"social"})' \cup {0}
    <3>1. PICK f \in Event : RowOf(f) = r /\ log[f].type = "social"
      BY <2>1, <2>5 DEF Holds, Event, RowOf
    <3>2. /\ view[r].val >= 0 /\ view[r].at \in Same(r, {"social"}) \cup {0}
          /\ Same(r, {"social"}) \subseteq Same(r, {"social"})'
      <4>1. stored \subseteq stored'
        BY <2>1 DEF Frame
      <4> QED BY <2>1, <3>1, <4>1 DEF SocialInv, Holds, Same, RowOf
    <3>3. CASE view'[r] = view[r]
      BY <3>2, <3>3
    <3>4. ASSUME NEW new, Commit(w, e, new), RowOf(e) = r
          PROVE  view'[r].val >= 0 /\ view'[r].at \in Same(r, {"social"})' \cup {0}
      <4>1. log[e].type = "social"
        BY <2>1, <3>1, <3>4, SocialNeighbour
      <4>2. /\ view'[r] = new /\ new.val \in Nat
            /\ new.at \in {view[r].at, e} /\ pc[w] \in {"read", "write"}
        BY <1>1, <3>4, <4>1, SocialRows
      <4>3. e \in Same(r, {"social"})
        BY <2>1, <3>4, <4>1, <4>2 DEF AtLabel, Same
      <4> QED BY <3>2, <4>2, <4>3
    <3> QED BY <2>1, <3>3, <3>4, ViewKept DEF Frame
  <2> QED BY <1>0, <2>1, <2>2, <2>3, <2>4, <2>5 DEF SocialInv
<1>2. ASSUME DataKept,
             (faults' = 0 /\ ~overlap') => /\ faults = 0 /\ ~overlap
             /\ \A v \in Worker : \/ pc'[v] = pc[v] /\ todo'[v] = todo[v]
                                  \/ /\ pc'[v] \notin {"read", "write"}
                                     /\ pc[v] \notin {"read", "write"}
      PROVE  SocialInv'
  <2>1. /\ \A r \in Row : view'[r].st = "none" => view'[r].at = 0 /\ view'[r].val = 0
        /\ \A e \in applied' : (log[e].type = "social" /\ log[e].ok)' => e \in stored'
    BY <1>2 DEF SocialInv, DataKept
  <2>3. \A r \in Row : Holds(r, {"social"})' =>
          view'[r].val >= 0 /\ view'[r].at \in Same(r, {"social"})' \cup {0}
    BY <1>2 DEF SocialInv, DataKept, Holds, Same, Event, RowOf
  <2>2. ASSUME faults' = 0, ~overlap' PROVE Social'
    <3>1. /\ Social
          /\ \A v \in Worker : \/ pc'[v] = pc[v] /\ todo'[v] = todo[v]
                               \/ /\ pc'[v] \notin {"read", "write"}
                                  /\ pc[v] \notin {"read", "write"}
      BY <1>2, <2>2 DEF SocialInv
    <3>2. \A v \in Worker : todo'[v] = todo[v] => Turn(v)' = Turn(v)
      BY <1>2, KeptGrows
    <3>3. \A v \in Worker : pc'[v] \in {"read", "write"} =>
            \A f \in Turn(v)' : /\ view[RowOf(f)].at <= f
                                /\ pc'[v] = "write" => ~isStaleRelativeToSnapshot(f)
      BY <3>1, <3>2 DEF Social
    <3>4. ASSUME NEW f \in stored, log[f].type = "social"
          PROVE  \/ Heeded(f, view[RowOf(f)])
                 \/ \E v \in Worker : f \in Turn(v)' /\ pc'[v] \in {"read", "write"}
      BY <3>1, <3>2, <3>4 DEF Social
    <3> QED BY <1>2, <3>3, <3>4
            DEF Social, DataKept, RowOf, Heeded, isStaleRelativeToSnapshot
  <2> QED BY <1>0, <2>1, <2>2, <2>3 DEF SocialInv
<1>3. ASSUME NEW w \in Worker, advanceIndexerCursorForBatch(w) \/ Crash(w)
      PROVE  SocialInv'
  <2>1. DataKept /\ GivesUp(w) /\ OthersKept(w) /\ overlap' = overlap
    BY <1>3, EndStep
  <2>2. faults' = 0 => faults = 0 /\ pc[w] = "next"
    BY <1>3, TypeParts DEF CoreInv, advanceIndexerCursorForBatch, Crash
  <2>3. \A v \in Worker : v # w => pc'[v] = pc[v] /\ todo'[v] = todo[v]
    BY <2>1 DEF OthersKept
  <2> QED BY <1>2, <2>1, <2>2, <2>3 DEF GivesUp
<1>4. ASSUME NEW w \in Worker, Fetch(w) PROVE SocialInv'
  <2>1. /\ DataKept /\ OthersKept(w) /\ faults' = faults
        /\ pc[w] = "idle" /\ pc'[w] = "next" /\ (~overlap' => ~overlap)
    BY <1>4, FetchStep
  <2>2. \A v \in Worker : v # w => pc'[v] = pc[v] /\ todo'[v] = todo[v]
    BY <2>1 DEF OthersKept
  <2> QED BY <1>2, <2>1, <2>2
<1>5. CASE (\E r \in Row : LoadRow(r) \/ FillCache(r)) \/ UNCHANGED vars
  BY <1>2, <1>5, IdleStep
<1> QED BY <1>1, <1>3, <1>4, <1>5, NextCases

\* A level, a snapshot, a co-creator share holds the newest event dealt with,
\* whichever workers raced for it; the social row is not rolled back, by ledger
\* and by socialUpdatedAt, as long as no batch overlapped and nothing failed.
THEOREM NewestHolds == Spec => []NewestWins
<1>1. Init => SocialInv
  <2> SUFFICES ASSUME Init PROVE SocialInv
    OBVIOUS
  <2>1. OneBatch /\ Social
    BY DEF Init, OneBatch, Social
  <2> QED BY <2>1 DEF Init, SocialInv, NoRow
<1>2. CoreInv /\ SocialInv => NewestWins
  <2> SUFFICES ASSUME CoreInv, SocialInv PROVE NewestWins
    OBVIOUS
  <2>1. \A e \in applied : log[e].type \in Newest => view[RowOf(e)].at >= e
    BY DEF CoreInv, Idempotent, Settled
  <2>2. ASSUME faults = 0, ~overlap, NEW e \in 1..cursor,
               log[e].type = "social", log[e].ok
        PROVE  Heeded(e, view[RowOf(e)])
    <3>1. Covered(e)
      BY DEF CoreInv, Covering
    <3>2. e \in stored
      BY <2>2, <3>1 DEF CoreInv, Covered, Parsed, SocialInv
    <3>3. \A w \in Worker : e \notin Turn(w)
      <4>1. cursor \in Int /\ e \in Int /\ e <= cursor
        BY LogFacts DEF CoreInv
      <4> QED BY <2>2, <4>1 DEF SocialInv, OneBatch, Turn
    <3> QED BY <2>2, <3>2, <3>3 DEF SocialInv, Social
  <2> QED BY <2>1, <2>2 DEF NewestWins, Heeded
<1>3. CoreInv /\ SocialInv /\ [Next]_vars => SocialInv'
  BY SocialStep
<1> QED BY <1>1, <1>2, <1>3, InitCore, NextCore, PTL DEF Spec

-----------------------------------------------------------------------------
(* The cache *)

\* Event e of row r will be delivered again, and its handler drops the entry.
Pending(e, r) ==
  /\ RowOf(e) = r
  /\ \/ log[e].type \notin Reinvalidates \/ EndsAgain(e)
     \/ /\ log[e].ok /\ e > cursor
        /\ \A w \in Worker : e <= hi[w] => e \in todo[w]

\* A statement for an event that was dealt with changes nothing.
LEMMA CommitAgain ==
  ASSUME CoreInv, NEW w \in Worker, NEW e \in Event, NEW new, Commit(w, e, new),
         e \in applied, log[e].type \in Reinvalidates, ~EndsAgain(e)
  PROVE  stored' = stored /\ view' = view
<1> DEFINE old == view[RowOf(e)]
<1>1. /\ Outcome(e, old, new, stored, stored') /\ log[e].ok
      /\ view' = [view EXCEPT ![RowOf(e)] = new]
  BY DEF Commit, Wrote
<1>2. Settled(e) /\ TypeOK
  BY DEF CoreInv, Idempotent
<1>3. e \in Int /\ old.at \in Int /\ old.val \in Int /\ log[e].amt \in Int
  BY <1>2, LogFacts, NewRows, RowNumbers
<1>4. stored' = stored /\ new = old
  <2>1. CASE log[e].type \in Newest
    BY <1>1, <1>2, <1>3, <2>1 DEF Outcome, Settled
  <2>2. CASE log[e].type \in Inserted \cup Folded
    BY <1>1, <1>2, <2>2 DEF Outcome, Settled, Logged
  <2>3. CASE log[e].type \in Unique
    BY <1>1, <1>2, <2>3 DEF Outcome, Settled
  <2>4. CASE log[e].type \in Created \cup {"pollClosed"}
    BY <1>1, <1>2, <2>4 DEF Outcome, Settled, Ended
  <2>6. CASE log[e].type \in Replaced
    <3>1. /\ old.st = "closed" /\ old.at = e
          /\ old = [val |-> old.val, at |-> old.at, st |-> old.st]
      BY <1>1, <1>2, <2>6, NewRows DEF Settled, Replaced, Ended, RowRecord
    <3> QED BY <1>1, <2>6, <3>1 DEF Outcome, Replaced, Ended
  <2>5. CASE log[e].type = "bid"
    BY <1>1, <1>2, <1>3, <2>5 DEF Outcome, Settled, Logged, HighestBid
  <2> QED BY <2>1, <2>2, <2>3, <2>4, <2>5, <2>6
          DEF Reinvalidates, Inserted, Folded, Unique, Created, Replaced
<1> QED BY <1>1, <1>2, <1>4, SameRow

\* An event that was not dealt with is past the cursor and left to do.
LEMMA NotDealtWith ==
  ASSUME CoreInv, NEW e \in Event, e \notin applied, log[e].ok,
         log[e].type # "social"
  PROVE  e > cursor /\ \A w \in Worker : e <= hi[w] => e \in todo[w]
<1>1. ~Covered(e)
  BY DEF Covered, CoreInv, Parsed
<1>2. e \in Nat /\ e >= 1 /\ cursor \in Int
  BY LogFacts DEF CoreInv
<1>3. \A w \in Worker : hi[w] \in Int
  BY LogFacts DEF CoreInv, TypeOK
<1> QED BY <1>1, <1>2, <1>3 DEF CoreInv, Covering

\* Where an entry can go out of date.
LEMMA BecomesStale ==
  ASSUME CoreInv, NEW w \in Worker, NEW e \in Turn(w), Handler(w, e),
         cache[RowOf(e)] # "stale", cache'[RowOf(e)] = "stale"
  PROVE  Pending(e, RowOf(e))'
<1>1. /\ Frame(w, e) /\ Shape(w, e) /\ e \in Event /\ TypeOK
      /\ log' = log /\ RowOf(e)' = RowOf(e) /\ cursor' = cursor
  BY HandlerCore DEF CoreInv, Frame, RowOf
<1>2. CASE log[e].type \notin Reinvalidates \/ EndsAgain(e)
  BY <1>1, <1>2 DEF Pending, EndsAgain, Event, RowOf
<1>3. CASE log[e].type \in Reinvalidates /\ ~EndsAgain(e)
  <2>1. PICK new : Commit(w, e, new)
    <3>1. ~(CreateDistribution(w, e) \/ BookClaim(w, e))
      BY <1>3 DEF CreateDistribution, BookClaim, Reinvalidates, Newest
    <3>2. ~ (Move(w, e) \/ Skip(w, e) \/ LogSocial(w, e) \/ LogOnly(w, e)
             \/ processDividendClaimed(w, e) \/ Throw(w, e) \/ Malformed(w, e))
      BY DEF Move, Skip, LogSocial, LogOnly, processDividendClaimed, Throw,
             Malformed, Quiet
    <3>3. ~ (DropStatus(w, e) \/ Invalidate(w, e))
      BY <1>1, LogFacts, TypeParts DEF DropStatus, Invalidate
    <3> QED BY <1>1, <3>1, <3>2, <3>3 DEF Shape
  <2>2. stored' # stored \/ view' # view
    <3>1. cache' = [cache EXCEPT ![RowOf(e)] =
             IF (stored' # stored \/ view' # view) /\ @ = "fresh"
             THEN "stale" ELSE @]
      BY <2>1 DEF Commit, Wrote
    <3> QED BY <1>1, <3>1, LogFacts, TypeParts
  <2>3. e \notin applied
    BY <1>1, <1>3, <2>1, <2>2, CommitAgain
  <2>4. /\ log[e].ok /\ log[e].type # "social"
        /\ log[e].type \notin LpTypes \cup Invoice
    BY <1>3, <2>1 DEF Commit, Reinvalidates, Newest, LpTypes, Invoice
  <2>5. e > cursor /\ \A v \in Worker : e <= hi[v] => e \in todo[v]
    BY <1>1, <2>3, <2>4, NotDealtWith
  <2>6. \A v \in Worker : todo'[v] = todo[v] /\ hi'[v] = hi[v]
    BY <2>1, <2>4 DEF Commit, Goto
  <2> QED BY <1>1, <2>4, <2>5, <2>6 DEF Pending
<1> QED BY <1>2, <1>3

\* What drops an out-of-date entry stays pending until it does.
LEMMA StaysPending ==
  ASSUME CoreInv, NEW w \in Worker, NEW e \in Turn(w), Handler(w, e),
         NEW r \in Row, NEW g \in Event, Pending(g, r), cache'[r] = "stale"
  PROVE  Pending(g, r)'
<1>1. /\ Frame(w, e) /\ Shape(w, e) /\ Progress(w, e) /\ e \in Event /\ TypeOK
      /\ log' = log /\ RowOf(g)' = RowOf(g) /\ cursor' = cursor
  BY HandlerCore DEF CoreInv, Frame, RowOf
<1>2. CASE log[g].type \notin Reinvalidates \/ EndsAgain(g)
  BY <1>1, <1>2 DEF Pending, EndsAgain, Event, RowOf
<1>3. CASE log[g].type \in Reinvalidates /\ ~EndsAgain(g)
  <2>1. /\ log[g].ok /\ g > cursor /\ g \in Nat /\ g >= 1 /\ RowOf(g) = r
        /\ \A v \in Worker : g <= hi[v] => g \in todo[v]
    BY <1>1, <1>3, LogFacts DEF Pending
  <2>2. ASSUME Leaves(w, e) PROVE g # e
    <3>1. SUFFICES ASSUME g = e PROVE FALSE
      OBVIOUS
    <3>2. ~Goto(w, "invalidate", {}) /\ pc'[w] = "next"
      <4>1. pc'[w] = "next"
        BY <2>2 DEF Leaves
      <4> QED BY <1>1, <4>1, GotoParts DEF Stays
    <3>3. ~ \E new : Commit(w, e, new)
      BY <1>3, <3>1, <3>2 DEF Commit, Reinvalidates, Newest, LpTypes, Invoice
    <3>4. ~ (\/ Skip(w, e) \/ LogSocial(w, e) \/ DropStatus(w, e) \/ LogOnly(w, e)
             \/ CreateDistribution(w, e) \/ processDividendClaimed(w, e)
             \/ BookClaim(w, e) \/ Malformed(w, e))
      BY <1>3, <2>1, <3>1 DEF Skip, LogSocial, DropStatus, LogOnly,
           CreateDistribution, processDividendClaimed, Handles, BookClaim,
           Malformed, Reinvalidates, Newest
    <3>5. ~ (Move(w, e) \/ Throw(w, e))
      <4>1. /\ Same(RowOf(e), {"trade"}) \in SUBSET Event
            /\ SelectedDistribution(e) \in SUBSET Event
        BY <1>1, TypeParts DEF Same, SelectedDistribution, Select
      <4>2. \A l \in {"create", "retry", "write", "tx"}, s \in SUBSET Event :
              ~Goto(w, l, s)
        BY <1>1, <3>2, GotoParts DEF Stays
      <4>3. ~Abandon(w)
        BY <1>1, <3>2, AbandonParts DEF GivesUp
      <4> QED BY <4>1, <4>2, <4>3 DEF Move, Throw
    <3>6. ~Invalidate(w, e)
      BY <1>1, <2>1, <3>1, LogFacts, TypeParts DEF Invalidate
    <3> QED BY <1>1, <3>3, <3>4, <3>5, <3>6 DEF Shape
  <2>3. ASSUME NEW v \in Worker, g <= hi'[v] PROVE g \in todo'[v]
    BY <1>1, <2>1, <2>2, <2>3 DEF Frame, OthersKept, Progress, Leaves, Stays,
         GivesUp
  <2> QED BY <1>1, <2>1, <2>3 DEF Pending
<1> QED BY <1>2, <1>3

\* Every step preserves what is said of answers left out of date.
LEMMA CacheStep ==
  ASSUME CoreInv, CacheInv, [Next]_vars
  PROVE  CacheInv'
<1>0. \A r \in Row : cache[r] = "stale" => \E g \in Event : Pending(g, r)
  BY DEF CacheInv, Pending
<1> SUFFICES ASSUME NEW r \in Row, cache'[r] = "stale"
             PROVE  \E g \in Event' : Pending(g, r)'
  BY DEF CacheInv, Pending
<1>1. ASSUME NEW w \in Worker, NEW e \in Turn(w), Handler(w, e)
      PROVE  \E g \in Event' : Pending(g, r)'
  <2>1. Frame(w, e) /\ Event' = Event /\ e \in Event
    BY <1>1, HandlerCore DEF Frame, Event
  <2>2. CASE cache[r] = "stale"
    BY <1>0, <1>1, <2>1, <2>2, StaysPending
  <2>3. CASE cache[r] # "stale"
    <3>1. r = RowOf(e)
      BY <2>1, <2>3 DEF Frame
    <3>2. RowOf(e)' = r
      BY <2>1, <3>1 DEF Frame, RowOf
    <3>3. Pending(e, RowOf(e))'
      BY <1>1, <2>3, <3>1, BecomesStale
    <3> QED BY <2>1, <3>2, <3>3
  <2> QED BY <2>2, <2>3
<1>2. ASSUME DataKept, cache[r] = "stale",
             \A g \in Event : (g > cursor /\ \A v \in Worker : g <= hi[v] => g \in todo[v])
               => (g > cursor' /\ \A v \in Worker : g <= hi'[v] => g \in todo'[v])
      PROVE  \E g \in Event' : Pending(g, r)'
  <2>1. PICK g \in Event : Pending(g, r)
    BY <1>0, <1>2
  <2>2. Event' = Event /\ log' = log /\ RowOf(g)' = RowOf(g)
    BY <1>2 DEF DataKept, Event, RowOf
  <2>3. Pending(g, r)'
    <3>1. EndsAgain(g)' = EndsAgain(g)
      BY <2>2 DEF EndsAgain, RowOf
    <3> QED BY <1>2, <2>1, <2>2, <3>1 DEF Pending
  <2> QED BY <2>2, <2>3
<1>3. ASSUME NEW w \in Worker, advanceIndexerCursorForBatch(w) \/ Crash(w)
      PROVE  \E g \in Event' : Pending(g, r)'
  <2>1. /\ DataKept /\ GivesUp(w) /\ OthersKept(w) /\ cache' = cache
        /\ \/ cursor' = cursor
           \/ cursor' = hi[w] /\ todo[w] = {}
    BY <1>3, EndStep
  <2>2. hi[w] \in Int /\ cursor \in Int /\ \A g \in Event : g \in Nat /\ g >= 1
    BY LogFacts DEF CoreInv, TypeOK
  <2>3. ASSUME NEW g \in Event, g > cursor,
               \A v \in Worker : g <= hi[v] => g \in todo[v]
        PROVE  g > cursor' /\ \A v \in Worker : g <= hi'[v] => g \in todo'[v]
    BY <2>1, <2>2, <2>3 DEF GivesUp, OthersKept
  <2> QED BY <1>2, <2>1, <2>3
<1>4. ASSUME NEW w \in Worker, Fetch(w) PROVE \E g \in Event' : Pending(g, r)'
  <2>1. /\ DataKept /\ OthersKept(w) /\ cache' = cache /\ cursor' = cursor
        /\ hi'[w] \in Event /\ todo'[w] = (cursor + 1)..hi'[w]
    BY <1>4, FetchStep
  <2>2. cursor \in Int /\ \A g \in Event : g \in Nat /\ g >= 1
    BY LogFacts DEF CoreInv, TypeOK
  <2>3. ASSUME NEW g \in Event, g > cursor,
               \A v \in Worker : g <= hi[v] => g \in todo[v]
        PROVE  g > cursor' /\ \A v \in Worker : g <= hi'[v] => g \in todo'[v]
    BY <2>1, <2>2, <2>3 DEF OthersKept
  <2> QED BY <1>2, <2>1, <2>3
<1>5. CASE (\E q \in Row : LoadRow(q) \/ FillCache(q)) \/ UNCHANGED vars
  BY <1>2, <1>5, IdleStep
<1> QED BY <1>1, <1>3, <1>4, <1>5, NextCases

\* An answer a handler left out of date is dropped again by the redelivery of
\* its event: no such event of a family that re-invalidates is passed by the
\* cursor, also when the worker crashed between the write and the
\* invalidation (objects ended by several events are left out).
THEOREM CacheIsFollowed == Spec => []CacheFollows
<1>1. Init => CacheInv
  BY DEF Init, CacheInv
<1>2. CoreInv /\ CacheInv => CacheFollows
  BY DEF CacheInv, CacheFollows
<1>3. CoreInv /\ CacheInv /\ [Next]_vars => CacheInv'
  BY CacheStep
<1> QED BY <1>1, <1>2, <1>3, InitCore, NextCore, PTL DEF Spec

-----------------------------------------------------------------------------
(* Dividends and revenue shares *)

\* A handled event of a type with rows of its own has one.
LEMMA CoveredStored ==
  ASSUME CoreInv, NEW e \in Event, Covered(e), log[e].ok, log[e].type \in Logged
  PROVE  e \in stored
<1>1. log[e].type # "social"
  BY DEF Logged, Inserted, Folded, LpTypes, Invoice, Split
<1>2. e \in applied
  BY <1>1 DEF Covered, CoreInv, Parsed
<1> QED BY <1>2 DEF CoreInv, Idempotent, Settled

\* Trades are dispatched before distributions.
LEMMA TradesFirst ==
  ASSUME TypeOK, NEW t \in Event, NEW d \in Event, log[t].type = "trade",
         log[d].type \in Split
  PROVE  Rank[log[t].type] <= Rank[log[d].type]
<1>1. Rank["trade"] = 15 /\ Rank["dividend"] = 16 /\ Rank["revenue"] = 17
  BY DispatchFacts, RankOf
<1> QED BY <1>1 DEF Split

\* When the balances are read, every trade before the distribution is there.
LEMMA BalancesRead ==
  ASSUME CoreInv, NEW w \in Worker, NEW d \in Turn(w), d \in Event,
         log[d].type \in Split
  PROVE  TradesIn(d, Same(RowOf(d), {"trade"}))
<1> SUFFICES ASSUME NEW t \in Event, t < d, log[t].type = "trade", log[t].ok,
                    RowOf(t) = RowOf(d)
             PROVE  t \in Same(RowOf(d), {"trade"})
  BY DEF TradesIn
<1>1. Covered(t)
  BY TradesFirst, EarlierCovered DEF CoreInv
<1>2. t \in stored
  BY <1>1, CoveredStored DEF Logged
<1> QED BY <1>2 DEF Same

\* A worker comes to a transaction by reading what it is about.
LEMMA EntersTx ==
  ASSUME TypeOK, NEW w \in Worker, NEW e \in Event, Shape(w, e), pc'[w] = "tx"
  PROVE  /\ Move(w, e) /\ loc'[w] \subseteq Event /\ todo'[w] = todo[w]
         /\ log[e].type \in Split => loc'[w] = Same(RowOf(e), {"trade"})
         /\ log[e].type = "revenueClaimed" => loc'[w] = SelectedDistribution(e)
<1>1. \A l \in {"create", "retry", "read", "write", "log", "invalidate"} : ~Goto(w, l, {})
  BY GotoParts DEF Stays
<1>2. ~Done(w, e) /\ ~Abandon(w)
  BY DoneParts, AbandonParts DEF Leaves, GivesUp
<1>3. Move(w, e)
  BY <1>1, <1>2 DEF Shape, Commit, Skip, LogSocial, DropStatus, LogOnly,
       CreateDistribution, processDividendClaimed, BookClaim, Throw, Malformed,
       Invalidate
<1>4. /\ Same(RowOf(e), {"trade"}) \in SUBSET Event
      /\ SelectedDistribution(e) \in SUBSET Event
  BY TypeParts DEF Same, SelectedDistribution, Select
<1>5. \/ log[e].type \in Split /\ Goto(w, "tx", Same(RowOf(e), {"trade"}))
      \/ log[e].type = "revenueClaimed" /\ Goto(w, "tx", SelectedDistribution(e))
  BY <1>1, <1>3 DEF Move
<1>6. CASE log[e].type \in Split /\ Goto(w, "tx", Same(RowOf(e), {"trade"}))
  <2>1. loc'[w] = Same(RowOf(e), {"trade"}) /\ todo'[w] = todo[w]
    BY <1>4, <1>6, GotoParts DEF Stays
  <2> QED BY <1>3, <1>4, <1>6, <2>1 DEF Split
<1>7. CASE log[e].type = "revenueClaimed" /\ Goto(w, "tx", SelectedDistribution(e))
  <2>1. loc'[w] = SelectedDistribution(e) /\ todo'[w] = todo[w]
    BY <1>4, <1>7, GotoParts DEF Stays
  <2> QED BY <1>3, <1>4, <1>7, <2>1 DEF Split
<1> QED BY <1>5, <1>6, <1>7

\* A distribution keeps the balances it was split by.
LEMMA SeenKept ==
  ASSUME TypeOK, NEW w \in Worker, NEW e \in Event, Shape(w, e)
  PROVE  /\ \A d \in stored : seen'[d] = seen[d]
         /\ e \in stored' \ stored /\ log[e].type \in Split =>
              seen'[e] = loc[w] /\ pc[w] = "tx"
<1>1. CASE log[e].ok /\ CreateDistribution(w, e)
  BY <1>1, TypeParts DEF CreateDistribution
<1>2. CASE \E new : Commit(w, e, new)
  BY <1>2 DEF Commit, Wrote, CommitTypes, Inserted, Unique, Folded, LpTypes,
              Invoice, Created, Ended, Newest, Listed, Split
<1>3. CASE \/ Move(w, e) \/ Skip(w, e) \/ LogSocial(w, e) \/ DropStatus(w, e)
           \/ LogOnly(w, e) \/ Throw(w, e)
  BY <1>3 DEF Move, Skip, LogSocial, DropStatus, LogOnly, Throw, Quiet, data, Split
<1>4. CASE \/ processDividendClaimed(w, e) \/ BookClaim(w, e)
           \/ Malformed(w, e) \/ Invalidate(w, e)
  BY <1>4 DEF processDividendClaimed, BookClaim, Malformed, Invalidate, data, Split
<1> QED BY <1>1, <1>2, <1>3, <1>4 DEF Shape

\* Every step preserves that the trades before a distribution are in it.
LEMMA SplitStep ==
  ASSUME CoreInv, SplitInv, [Next]_vars
  PROVE  SplitInv'
<1>1. ASSUME NEW w \in Worker, NEW e \in Turn(w), Handler(w, e) PROVE SplitInv'
  <2>1. /\ Frame(w, e) /\ Shape(w, e) /\ e \in Event /\ TypeOK
        /\ log' = log
    BY <1>1, HandlerCore DEF CoreInv, Frame
  <2>2. \A d, s : TradesIn(d, s) => TradesIn(d, s)'
    BY <2>1 DEF TradesIn, Event, RowOf
  <2>3. ASSUME NEW d \in stored', log[d].type \in Split
        PROVE  TradesIn(d, seen'[d])
    <3>1. CASE d \in stored
      BY <2>1, <2>3, <3>1, SeenKept DEF SplitInv
    <3>2. CASE d \notin stored
      <4>1. d = e /\ seen'[e] = loc[w] /\ pc[w] = "tx"
        BY <2>1, <2>3, <3>2, SeenKept DEF Frame
      <4> QED BY <1>1, <2>3, <4>1 DEF SplitInv
    <3> QED BY <3>1, <3>2
  <2>4. ASSUME NEW v \in Worker, pc'[v] = "tx", NEW d \in Turn(v)',
               log[d].type \in Split
        PROVE  TradesIn(d, loc'[v])
    <3>1. CASE v # w
      <4>1. pc[v] = "tx" /\ loc'[v] = loc[v] /\ Turn(v)' = Turn(v)
        BY <2>1, <2>4, <3>1, FrameGrows DEF Frame, OthersKept
      <4> QED BY <2>4, <4>1 DEF SplitInv
    <3>2. CASE v = w
      <4>1. todo'[w] = todo[w]
        BY <2>1, <2>4, <3>2, EntersTx
      <4>2. d = e
        BY <1>1, <2>1, <2>4, <3>2, <4>1, FrameGrows, TurnUnique
      <4>3. loc'[w] = Same(RowOf(e), {"trade"})
        BY <2>1, <2>4, <3>2, <4>2, EntersTx
      <4> QED BY <1>1, <2>1, <2>4, <3>2, <4>2, <4>3, BalancesRead
    <3> QED BY <3>1, <3>2
  <2> QED BY <2>1, <2>2, <2>3, <2>4 DEF SplitInv
<1>2. ASSUME DataKept,
             \A v \in Worker : \/ /\ pc'[v] = pc[v] /\ todo'[v] = todo[v]
                                  /\ loc'[v] = loc[v]
                               \/ pc'[v] # "tx"
      PROVE  SplitInv'
  <2>1. /\ log' = log /\ stored' = stored /\ seen' = seen
        /\ \A d, s : TradesIn(d, s) => TradesIn(d, s)'
    BY <1>2 DEF DataKept, TradesIn, Event, RowOf
  <2>2. \A v \in Worker : todo'[v] = todo[v] => Turn(v)' = Turn(v)
    BY <1>2, KeptGrows
  <2>3. ASSUME NEW v \in Worker, pc'[v] = "tx", NEW d \in Turn(v)',
               log[d].type \in Split
        PROVE  TradesIn(d, loc'[v])
    BY <1>2, <2>2, <2>3 DEF SplitInv
  <2>4. \A d \in stored' : log[d].type \in Split => TradesIn(d, seen'[d])
    BY <2>1 DEF SplitInv
  <2> QED BY <2>1, <2>3, <2>4 DEF SplitInv
<1>3. ASSUME NEW w \in Worker, advanceIndexerCursorForBatch(w) \/ Crash(w)
      PROVE  SplitInv'
  <2>1. DataKept /\ GivesUp(w) /\ OthersKept(w)
    BY <1>3, EndStep
  <2> QED BY <1>2, <2>1 DEF GivesUp, OthersKept
<1>4. ASSUME NEW w \in Worker, Fetch(w) PROVE SplitInv'
  <2>1. DataKept /\ OthersKept(w) /\ pc'[w] = "next"
    BY <1>4, FetchStep
  <2> QED BY <1>2, <2>1 DEF OthersKept
<1>5. CASE (\E r \in Row : LoadRow(r) \/ FillCache(r)) \/ UNCHANGED vars
  BY <1>2, <1>5, IdleStep
<1> QED BY <1>1, <1>3, <1>4, <1>5, NextCases

\* What is claimed of a distribution, as a sum that can be reasoned about.
LEMMA ClaimedIs ==
  ASSUME TypeOK, NEW d \in Event
  PROVE  /\ Claimed(d) = Taken(d)
         /\ Booked(d) \subseteq Event /\ IsFiniteSet(Booked(d))
         /\ Taken(d) \in Int
         /\ \A f \in Event : Amount[f] = log[f].amt /\ Amount[f] \in Int
<1>1. Claimed(d) = Taken(d)
  BY DEF Claimed, Taken, SumOver, Booked
<1>2. Booked(d) \subseteq Event
  BY TypeParts DEF Booked, Same
<1>3. IsFiniteSet(Event)
  BY LogFacts, FS_Interval DEF Event
<1>4. IsFiniteSet(Booked(d))
  BY <1>2, <1>3, FS_Subset
<1>5. \A f \in Event : Amount[f] = log[f].amt /\ Amount[f] \in Int
  BY LogFacts DEF Amount
<1>6. Taken(d) \in Int
  <2>1. \A f \in Booked(d) : Amount[f] \in Int
    BY <1>2, <1>5
  <2> QED BY <1>4, <2>1, SumType DEF Taken
<1> QED BY <1>1, <1>2, <1>4, <1>5, <1>6

\* What is claimed changes only when a new claim is booked.
LEMMA BookedKept ==
  ASSUME TypeOK, NEW w \in Worker, NEW e \in Event, Shape(w, e), Frame(w, e),
         ~(BookClaim(w, e) /\ e \notin stored), NEW d \in Event
  PROVE  Taken(d)' = Taken(d)
<1>1. log' = log /\ Amount' = Amount
  BY DEF Frame, Amount, Event
<1>2. ASSUME NEW f \in Event, log[f].type = "revenueClaimed"
      PROVE  (f \in stored' <=> f \in stored) /\ claim'[f] = claim[f]
  <2>1. CASE \E new : Commit(w, e, new)
    BY <1>2, <2>1 DEF Frame, Commit, Wrote, CommitTypes, Inserted, Unique, Folded,
         LpTypes, Invoice, Created, Ended, Newest, Listed
  <2>2. CASE \/ Move(w, e) \/ Skip(w, e) \/ LogSocial(w, e) \/ DropStatus(w, e)
             \/ LogOnly(w, e) \/ Throw(w, e)
    BY <1>2, <2>2 DEF Move, Skip, LogSocial, DropStatus, LogOnly, Throw, Quiet, data
  <2>3. CASE CreateDistribution(w, e) \/ BookClaim(w, e)
    BY <1>2, <2>3 DEF CreateDistribution, BookClaim
  <2>4. CASE processDividendClaimed(w, e)
    <3>1. \/ claim' = claim
          \/ \E c \in Same(RowOf(e), {"dividend"}) : claim' = [claim EXCEPT ![c] = e]
      BY <2>4 DEF processDividendClaimed
    <3> QED BY <1>2, <2>4, <3>1, TypeParts DEF processDividendClaimed, Same
  <2>5. CASE Malformed(w, e) \/ Invalidate(w, e)
    BY <2>5 DEF Malformed, Invalidate, data
  <2> QED BY <2>1, <2>2, <2>3, <2>4, <2>5 DEF Shape
<1>3. Booked(d)' = Booked(d)
  <2>1. stored \subseteq Event /\ stored' \subseteq Event
    BY TypeParts DEF Frame
  <2> QED BY <1>1, <1>2, <2>1 DEF Booked, Same, RowOf
<1>4. Taken(d)' = SumOver(Amount', Booked(d)')
  BY DEF Taken
<1>5. Taken(d) = SumOver(Amount, Booked(d))
  BY DEF Taken
<1> QED BY <1>1, <1>3, <1>4, <1>5

\* A claim that is booked adds its amount to one distribution.
LEMMA BookedGrows ==
  ASSUME TypeOK, NEW w \in Worker, NEW e \in Event, Frame(w, e), BookClaim(w, e),
         e \notin stored, NEW d \in Event
  PROVE  \/ Taken(d)' = Taken(d)
         \/ d \in loc[w] /\ Taken(d)' = Taken(d) + log[e].amt
<1>1. log' = log /\ Amount' = Amount /\ stored' = stored \cup {e}
  BY DEF Frame, Amount, Event, BookClaim
<1>2. PICK c \in loc[w] : claim' = [claim EXCEPT ![e] = c]
  BY DEF BookClaim
<1>3. stored \subseteq Event /\ claim \in [Event -> Event \cup {0}]
  BY TypeParts
<1>4. \/ Booked(d)' = Booked(d)
      \/ d = c /\ Booked(d)' = Booked(d) \cup {e}
  BY <1>1, <1>2, <1>3 DEF Booked, Same, RowOf
<1>5. Taken(d)' = SumOver(Amount', Booked(d)')
  BY DEF Taken
<1>6. /\ Taken(d) = SumOver(Amount, Booked(d))
      /\ Booked(d) \subseteq Event /\ IsFiniteSet(Booked(d))
      /\ \A f \in Event : Amount[f] = log[f].amt /\ Amount[f] \in Int
  BY ClaimedIs DEF Taken
<1>7. e \notin Booked(d)
  BY DEF Booked, Same
<1>8. SumOver(Amount, Booked(d) \cup {e}) = SumOver(Amount, Booked(d)) + Amount[e]
  <2>1. \A f \in Booked(d) \cup {e} : Amount[f] \in Int
    BY <1>6
  <2>2. IsFiniteSet(Booked(d))
    BY <1>6
  <2> QED BY <1>7, <2>1, <2>2, SumAdd, Zenon
<1>9. CASE Booked(d)' = Booked(d)
  BY <1>1, <1>5, <1>6, <1>9
<1>10. CASE d = c /\ Booked(d)' = Booked(d) \cup {e}
  <2>1. Taken(d)' = SumOver(Amount, Booked(d) \cup {e})
    BY <1>1, <1>5, <1>10
  <2>2. Taken(d)' = Taken(d) + log[e].amt
    BY <1>6, <1>8, <2>1
  <2> QED BY <1>2, <1>10, <2>2
<1> QED BY <1>4, <1>9, <1>10

\* Two workers are never about to book different claims: the later one was
\* fetched after the earlier one had been booked.
LEMMA OneClaim ==
  ASSUME CoreInv, NEW v \in Worker, NEW w \in Worker, NEW f \in Turn(v),
         NEW e \in Turn(w), log[f].ok, log[e].ok,
         log[f].type = "revenueClaimed", log[e].type = "revenueClaimed",
         f \notin stored, e \notin stored
  PROVE  f = e
<1>1. e \in Event /\ f \in Event /\ e \in Nat /\ f \in Nat
  BY TurnUnique, LogFacts DEF CoreInv
<1>2. ~Covered(e) /\ ~Covered(f)
  BY <1>1, CoveredStored DEF Logged
<1>3. Rank[log[e].type] = Rank[log[f].type] /\ Rank[log[e].type] \in 1..26
  BY <1>1, LogFacts DEF CoreInv
<1>4. ~(f < e)
  BY <1>1, <1>2, <1>3, EarlierCovered DEF CoreInv
<1>5. ~(e < f)
  BY <1>1, <1>2, <1>3, EarlierCovered DEF CoreInv
<1> QED BY <1>1, <1>4, <1>5

\* The distribution a claim is for has enough left.
LEMMA EnoughLeft ==
  ASSUME TypeOK, NEW e \in Event, NEW d \in SelectedDistribution(e)
  PROVE  /\ d \in stored /\ log[d].type = "revenue" /\ RowOf(d) = RowOf(e)
         /\ Taken(d) + log[e].amt <= log[d].amt
<1>1. /\ d \in Same(RowOf(e), {"revenue"})
      /\ Remaining(d) >= log[e].amt
  BY DEF SelectedDistribution, Select
<1>2. /\ d \in stored /\ log[d].type = "revenue" /\ RowOf(d) = RowOf(e)
  BY <1>1 DEF Same
<1>3. Taken(d) \in Int /\ log[e].amt \in Int /\ log[d].amt \in Int
  BY <1>2, TypeParts, ClaimedIs, LogFacts
<1>4. Remaining(d) = log[d].amt - Taken(d)
  BY <1>2, TypeParts, ClaimedIs DEF Remaining
<1> QED BY <1>1, <1>2, <1>3, <1>4

\* Enough is left of d for claim e, which is about to be booked on it.
Affordable(e, d) ==
  /\ d \in stored /\ log[d].type = "revenue" /\ RowOf(d) = RowOf(e)
  /\ Taken(d) + log[e].amt <= log[d].amt

\* Every step preserves that the claims on a distribution stay within it.
LEMMA ClaimStep ==
  ASSUME CoreInv, ClaimInv, [Next]_vars
  PROVE  ClaimInv'
<1>1. ASSUME NEW w \in Worker, NEW e \in Turn(w), Handler(w, e) PROVE ClaimInv'
  <2>1. /\ Frame(w, e) /\ Shape(w, e) /\ e \in Event /\ TypeOK /\ TypeOK'
        /\ log' = log /\ Event' = Event /\ AtLabel(e, pc[w])
        /\ stored \subseteq stored'
    BY <1>1, HandlerCore DEF CoreInv, Frame, Event
  <2>2. \A d \in Event : /\ Taken(d) \in Int /\ log[d].amt \in Int
                         /\ RowOf(d)' = RowOf(d)
    BY <2>1, ClaimedIs, LogFacts DEF RowOf
  <2>3. ASSUME NEW d \in Event
        PROVE  \/ Taken(d)' = Taken(d)
               \/ /\ BookClaim(w, e) /\ e \notin stored
                  /\ d \in loc[w] /\ Taken(d)' = Taken(d) + log[e].amt
    BY <2>1, BookedKept, BookedGrows
  <2>4. BookClaim(w, e) /\ e \notin stored =>
          \A d \in loc[w] : Affordable(e, d)
    BY <1>1 DEF ClaimInv, BookClaim, Affordable
  <2>5. ASSUME NEW d \in Event, log[d].type = "revenue"
        PROVE  Taken(d)' <= log[d].amt
    BY <2>2, <2>3, <2>4, <2>5 DEF ClaimInv, Affordable
  <2>6. ASSUME NEW v \in Worker, pc'[v] = "tx", NEW f \in Turn(v)',
               log[f].type = "revenueClaimed", f \notin stored',
               NEW d \in loc'[v]
        PROVE  /\ d \in stored' /\ log[d].type = "revenue" /\ RowOf(d) = RowOf(f)
               /\ Taken(d)' + log[f].amt <= log[d].amt
    <3>1. CASE v # w
      <4>1. /\ pc[v] = "tx" /\ loc'[v] = loc[v] /\ f \in Turn(v) /\ f \notin stored
        BY <2>1, <2>6, <3>1, FrameGrows DEF Frame, OthersKept
      <4>2. Affordable(f, d) /\ AtLabel(f, pc[v])
        BY <2>6, <4>1 DEF ClaimInv, Affordable, CoreInv, Labels
      <4>3. d \in Event /\ log[f].ok
        BY <2>1, <4>1, <4>2, TypeParts DEF Affordable, AtLabel
      <4>4. ~(BookClaim(w, e) /\ e \notin stored)
        <5>1. SUFFICES ASSUME BookClaim(w, e), e \notin stored PROVE FALSE
          OBVIOUS
        <5>2. f = e
          BY <1>1, <2>6, <4>1, <4>3, <5>1, OneClaim DEF BookClaim
        <5> QED BY <2>6, <5>1, <5>2 DEF BookClaim
      <4>5. Taken(d)' = Taken(d)
        BY <2>1, <4>3, <4>4, BookedKept
      <4> QED BY <2>1, <4>2, <4>5 DEF Affordable
    <3>2. CASE v = w
      <4>1. Move(w, e) /\ todo'[w] = todo[w]
        BY <2>1, <2>6, <3>2, EntersTx
      <4>2. f = e
        BY <1>1, <2>1, <2>6, <3>2, <4>1, FrameGrows, TurnUnique
      <4>3. d \in SelectedDistribution(e)
        BY <2>1, <2>6, <3>2, <4>2, EntersTx
      <4>4. /\ d \in stored /\ log[d].type = "revenue" /\ RowOf(d) = RowOf(e)
            /\ Taken(d) + log[e].amt <= log[d].amt
        BY <2>1, <4>3, EnoughLeft
      <4>5. ~BookClaim(w, e)
        BY <4>1, <2>1 DEF Move, BookClaim
      <4>6. Taken(d)' = Taken(d)
        BY <2>1, <4>4, <4>5, TypeParts, BookedKept
      <4> QED BY <2>1, <4>2, <4>4, <4>6
    <3> QED BY <3>1, <3>2
  <2>7. \A v \in Worker : Turn(v)' \subseteq Event
    BY <2>1 DEF TypeOK, Turn
  <2>8. stored' \subseteq Event
    BY <2>1, TypeParts DEF Frame
  <2> QED BY <2>1, <2>2, <2>5, <2>6, <2>7, <2>8 DEF ClaimInv
<1>2. ASSUME DataKept,
             \A v \in Worker : \/ /\ pc'[v] = pc[v] /\ todo'[v] = todo[v]
                                  /\ loc'[v] = loc[v]
                               \/ pc'[v] # "tx"
      PROVE  ClaimInv'
  <2>1. /\ log' = log /\ stored' = stored /\ Event' = Event
        /\ \A d : RowOf(d)' = RowOf(d) /\ Taken(d)' = Taken(d)
    <3>1. log' = log /\ stored' = stored /\ claim' = claim
      BY <1>2 DEF DataKept
    <3> QED BY <3>1 DEF RowOf, Taken, Booked, Same, Amount, Event
  <2>2. \A v \in Worker : todo'[v] = todo[v] => Turn(v)' = Turn(v)
    BY <1>2, KeptGrows
  <2>3. ASSUME NEW v \in Worker, pc'[v] = "tx", NEW f \in Turn(v)',
               log[f].type = "revenueClaimed", f \notin stored,
               NEW d \in loc'[v]
        PROVE  Affordable(f, d)
    BY <1>2, <2>2, <2>3 DEF ClaimInv, Affordable
  <2>4. \A d \in Event : log[d].type = "revenue" => Taken(d) <= log[d].amt
    BY DEF ClaimInv
  <2> QED BY <2>1, <2>3, <2>4 DEF ClaimInv, Affordable
<1>3. ASSUME NEW w \in Worker, advanceIndexerCursorForBatch(w) \/ Crash(w)
      PROVE  ClaimInv'
  <2>1. DataKept /\ GivesUp(w) /\ OthersKept(w)
    BY <1>3, EndStep
  <2> QED BY <1>2, <2>1 DEF GivesUp, OthersKept
<1>4. ASSUME NEW w \in Worker, Fetch(w) PROVE ClaimInv'
  <2>1. DataKept /\ OthersKept(w) /\ pc'[w] = "next"
    BY <1>4, FetchStep
  <2> QED BY <1>2, <2>1 DEF OthersKept
<1>5. CASE (\E r \in Row : LoadRow(r) \/ FillCache(r)) \/ UNCHANGED vars
  BY <1>2, <1>5, IdleStep
<1> QED BY <1>1, <1>3, <1>4, <1>5, NextCases

\* A distribution is split over balances that contain every trade before it,
\* and the claims booked on it never exceed the wallet's share, although both
\* are computed from what was read before the transaction.
THEOREM DistributionsAreSound == Spec => []DistributionsSound
<1>1. Init => SplitInv /\ ClaimInv
  <2> SUFFICES ASSUME Init PROVE SplitInv /\ ClaimInv
    OBVIOUS
  <2>1. SplitInv
    BY DEF Init, SplitInv
  <2>2. TypeOK /\ \A w \in Worker : pc[w] = "idle"
    BY InitCore DEF CoreInv, Init
  <2>3. ASSUME NEW d \in Event PROVE Taken(d) <= log[d].amt
    <3>1. Booked(d) = {}
      BY DEF Init, Booked, Same
    <3>2. Taken(d) = 0
      BY <3>1, SumEmpty DEF Taken
    <3> QED BY <2>2, <3>2, LogFacts
  <2> QED BY <2>1, <2>2, <2>3 DEF ClaimInv
<1>2. CoreInv /\ SplitInv /\ ClaimInv => DistributionsSound
  BY TypeParts, ClaimedIs DEF CoreInv, SplitInv, ClaimInv, DistributionsSound, TradesIn, Split
<1>3. CoreInv /\ SplitInv /\ ClaimInv /\ [Next]_vars => SplitInv' /\ ClaimInv'
  BY SplitStep, ClaimStep
<1> QED BY <1>1, <1>2, <1>3, InitCore, NextCore, PTL DEF Spec

-----------------------------------------------------------------------------
(* Rows that are folded from their events *)

\* A sum of amounts, and what one event more adds to it.
LEMMA TotalFacts ==
  ASSUME TypeOK, NEW S \in SUBSET Event
  PROVE  /\ IsFiniteSet(S) /\ Total(S) \in Int /\ Total({}) = 0
         /\ \A e \in Event : e \notin S => Total(S \cup {e}) = Total(S) + log[e].amt
<1>1. \A f \in Event : Amount[f] = log[f].amt /\ Amount[f] \in Int
  BY LogFacts DEF Amount
<1>2. IsFiniteSet(S)
  <2>1. IsFiniteSet(Event)
    BY LogFacts, FS_Interval DEF Event
  <2> QED BY <2>1, FS_Subset
<1>3. Total(S) \in Int
  <2>1. \A f \in S : Amount[f] \in Int
    BY <1>1
  <2> QED BY <1>2, <2>1, SumType DEF Total
<1>4. Total({}) = 0
  BY SumEmpty DEF Total
<1>5. ASSUME NEW e \in Event, e \notin S
      PROVE  Total(S \cup {e}) = Total(S) + log[e].amt
  <2>1. \A f \in S \cup {e} : Amount[f] \in Int
    BY <1>1
  <2>2. SumOver(Amount, S \cup {e}) = SumOver(Amount, S) + Amount[e]
    BY <1>2, <1>5, <2>1, SumAdd, Zenon
  <2> QED BY <1>1, <2>2 DEF Total
<1> QED BY <1>2, <1>3, <1>4, <1>5

\* A total after the step is the same sum over the set after the step.
LEMMA TotalAfter ==
  ASSUME log' = log, NEW r, NEW T, NEW U, Same(r, T)' = U
  PROVE  Total(Same(r, T))' = Total(U)
<1>1. Amount' = Amount
  BY DEF Amount, Event
<1>2. Total(Same(r, T))' = SumOver(Amount', Same(r, T)')
  BY DEF Total
<1> QED BY <1>1, <1>2 DEF Total

\* An event without its row is newer than every stored one of its family.
LEMMA NewIsLast ==
  ASSUME CoreInv, NEW e \in Event, log[e].ok, log[e].type \in Logged,
         e \notin stored, NEW f \in stored,
         Rank[log[f].type] = Rank[log[e].type]
  PROVE  f < e
<1>1. e \in Nat /\ f \in Nat /\ f \in Event /\ e # f
  BY TypeParts, LogFacts DEF CoreInv
<1>2. ASSUME e < f PROVE FALSE
  <2>1. e \in 1..(f - 1)
    BY <1>1, <1>2, LogFacts DEF CoreInv
  <2>2. Covered(e)
    BY <2>1 DEF CoreInv, InOrder
  <2> QED BY <2>2, CoveredStored
<1> QED BY <1>1, <1>2

\* The types of the rows that are folded from their events.
ViewTypes == {"tip", "feeReceived", "accrued", "deployed", "lpAdded", "lpRemoved",
              "granted", "revoked", "bid"}

\* A row that is not written, and gets no event, keeps fitting its events.
LEMMA ViewFrame ==
  ASSUME TypeOK, log' = log, NEW r \in Row, view'[r] = view[r],
         \A T \in SUBSET ViewTypes : Same(r, T)' = Same(r, T), ViewOK(r)
  PROVE  ViewOK(r)'
<1>1. /\ Same(r, {"tip", "feeReceived"})' = Same(r, {"tip", "feeReceived"})
      /\ Same(r, {"accrued", "deployed"})' = Same(r, {"accrued", "deployed"})
      /\ Same(r, {"accrued"})' = Same(r, {"accrued"})
      /\ Same(r, {"deployed"})' = Same(r, {"deployed"})
      /\ Same(r, {"lpAdded", "lpRemoved"})' = Same(r, {"lpAdded", "lpRemoved"})
      /\ Same(r, {"granted", "revoked"})' = Same(r, {"granted", "revoked"})
      /\ Same(r, {"bid"})' = Same(r, {"bid"})
  BY DEF ViewTypes
<1>2. \A T : Holds(r, T)' <=> Holds(r, T)
  BY DEF Holds, Event, RowOf
<1>3. TotalOK(r)'
  BY <1>1, <1>2, TotalAfter DEF ViewOK, TotalOK
<1>4. ReserveOK(r)'
  <2>1. /\ Total(Same(r, {"accrued"}))' = Total(Same(r, {"accrued"}))
        /\ Total(Same(r, {"deployed"}))' = Total(Same(r, {"deployed"}))
    BY <1>1, TotalAfter
  <2> QED BY <1>1, <1>2, <2>1 DEF ViewOK, ReserveOK, NoRow
<1>5. LiquidOK(r)'
  <2>1. Deposits(r)' = Deposits(r)
    BY <1>1 DEF Deposits
  <2>2. Amount' = Amount
    BY DEF Amount, Event
  <2>3. Total(Deposits(r))' = SumOver(Amount', Deposits(r)')
    BY DEF Total
  <2>4. Total(Deposits(r))' = Total(Deposits(r))
    BY <2>1, <2>2, <2>3 DEF Total
  <2> QED BY <1>2, <2>1, <2>4 DEF ViewOK, LiquidOK
<1>6. VerifiedOK(r)'
  BY <1>1 DEF ViewOK, VerifiedOK
<1>7. BidsOK(r)'
  BY <1>1, <1>2 DEF ViewOK, BidsOK
<1> QED BY <1>3, <1>4, <1>5, <1>6, <1>7 DEF ViewOK

\* What a handler that writes its row in one statement does to the row and to
\* the events about it.
LEMMA CommitRow ==
  ASSUME CoreInv, NEW w \in Worker, NEW e \in Event, NEW new, Commit(w, e, new),
         Frame(w, e)
  PROVE  LET r == RowOf(e)  old == view[r] IN
         /\ log' = log /\ r \in Row /\ view'[r] = new
         /\ log[e].ok /\ log[e].type \in CommitTypes
         /\ old.val \in Int /\ new.val \in Int /\ e \in Nat /\ log[e].amt \in Nat
         /\ Outcome(e, old, new, stored, stored')
         /\ stored' \in {stored, stored \cup {e}}
         /\ \A T : Same(r, T) \subseteq Event
         /\ \A T : e \in stored \/ log[e].type \notin T =>
                     Same(r, T)' = Same(r, T)
         /\ \A T : stored' = stored \cup {e} /\ log[e].type \in T =>
                     Same(r, T)' = Same(r, T) \cup {e}
         /\ \A T : e \notin stored => e \notin Same(r, T)
         /\ \A T : Holds(r, T)' <=> Holds(r, T)
<1> DEFINE r == RowOf(e)
<1>1. /\ log' = log /\ r \in Row /\ view'[r] = new /\ TypeOK
      /\ log[e].ok /\ log[e].type \in CommitTypes
      /\ new \in RowRecord /\ view[r] \in RowRecord
      /\ Outcome(e, view[r], new, stored, stored')
      /\ stored' \in {stored, stored \cup {e}}
  BY LogFacts, TypeParts, NewRows DEF CoreInv, Commit, Wrote, Frame
<1>2. view[r].val \in Int /\ new.val \in Int /\ e \in Nat /\ log[e].amt \in Nat
  BY <1>1, RowNumbers, LogFacts
<1>3. stored \subseteq Event
  BY <1>1, TypeParts
<1>4. ASSUME NEW T
      PROVE  /\ Same(r, T) \subseteq Event
             /\ e \in stored \/ log[e].type \notin T => Same(r, T)' = Same(r, T)
             /\ stored' = stored \cup {e} /\ log[e].type \in T =>
                  Same(r, T)' = Same(r, T) \cup {e}
             /\ e \notin stored => e \notin Same(r, T)
             /\ Holds(r, T)' <=> Holds(r, T)
  <2>1. e \in stored \/ log[e].type \notin T => Same(r, T)' = Same(r, T)
    BY <1>1 DEF Same, RowOf
  <2>2. stored' = stored \cup {e} /\ log[e].type \in T =>
          Same(r, T)' = Same(r, T) \cup {e}
    BY <1>1 DEF Same, RowOf
  <2>3. Holds(r, T)' <=> Holds(r, T)
    BY <1>1 DEF Holds, Event, RowOf
  <2> QED BY <1>3, <2>1, <2>2, <2>3 DEF Same
<1> QED BY <1>1, <1>2, <1>4

\* The type of an event about a row, from the family of the row.
LEMMA FamilyOf ==
  ASSUME TypeOK, NEW e \in Event
  PROVE  /\ Holds(RowOf(e), {"tip", "feeReceived"}) =>
              log[e].type \in {"tip", "feeReceived", "allocated"}
         /\ Holds(RowOf(e), {"accrued", "deployed"}) =>
              log[e].type \in {"accrued", "deployed"}
         /\ Holds(RowOf(e), LpTypes) => log[e].type \in LpTypes
         /\ Holds(RowOf(e), {"granted", "revoked"}) =>
              log[e].type \in {"granted", "revoked"}
         /\ Holds(RowOf(e), {"auctionCreated", "bid", "auctionSettled"}) =>
              log[e].type \in {"auctionCreated", "bid", "auctionSettled"}
<1>1. ASSUME NEW T, Holds(RowOf(e), T)
      PROVE  \E f \in Event : /\ log[f].type \in T
                              /\ \A i \in {14, 18, 20, 21, 22, 24} :
                                   log[f].type \in Dispatch[i] => log[e].type \in Dispatch[i]
  <2>1. PICK f \in Event : RowOf(e) = RowOf(f) /\ log[f].type \in T
    BY <1>1 DEF Holds
  <2>2. \A i \in {14, 18, 20, 21, 22, 24} : i \in 1..26 /\ i \notin {15, 16, 17}
    OBVIOUS
  <2> QED BY <2>1, <2>2, SameFamily
<1>2. /\ Dispatch[21] = {"tip"} /\ Dispatch[22] = {"feeReceived", "allocated"}
      /\ Dispatch[20] = {"accrued", "deployed"} /\ Dispatch[18] = LpTypes
      /\ Dispatch[24] = {"granted", "revoked"}
      /\ Dispatch[14] = {"auctionCreated", "bid", "auctionSettled"}
  BY DispatchFacts
<1>3. ASSUME Holds(RowOf(e), {"tip", "feeReceived"})
      PROVE  log[e].type \in {"tip", "feeReceived", "allocated"}
  BY <1>1, <1>2, <1>3
<1>4. ASSUME Holds(RowOf(e), {"accrued", "deployed"})
      PROVE  log[e].type \in {"accrued", "deployed"}
  BY <1>1, <1>2, <1>4
<1>5. ASSUME Holds(RowOf(e), LpTypes) PROVE log[e].type \in LpTypes
  BY <1>1, <1>2, <1>5
<1>6. ASSUME Holds(RowOf(e), {"granted", "revoked"})
      PROVE  log[e].type \in {"granted", "revoked"}
  BY <1>1, <1>2, <1>6
<1>7. ASSUME Holds(RowOf(e), {"auctionCreated", "bid", "auctionSettled"})
      PROVE  log[e].type \in {"auctionCreated", "bid", "auctionSettled"}
  BY <1>1, <1>2, <1>7
<1> QED BY <1>3, <1>4, <1>5, <1>6, <1>7

\* A new event of a row is newer than what the row was folded from.
LEMMA LastOfRow ==
  ASSUME CoreInv, NEW e \in Event, log[e].ok, log[e].type \in Logged,
         e \notin stored, NEW i \in 1..26, log[e].type \in Dispatch[i],
         NEW T, T \subseteq Dispatch[i], NEW f \in Same(RowOf(e), T)
  PROVE  f < e
<1>1. f \in stored /\ log[f].type \in Dispatch[i]
  BY DEF Same
<1>2. Rank[log[f].type] = i /\ Rank[log[e].type] = i
  BY <1>1, RankOf
<1> QED BY <1>1, <1>2, NewIsLast

\* Tips and fees: a new event is added to its row.
LEMMA TotalStep ==
  ASSUME CoreInv, NEW w \in Worker, NEW e \in Event, NEW new, Commit(w, e, new),
         Frame(w, e), TotalOK(RowOf(e))
  PROVE  TotalOK(RowOf(e))'
<1> DEFINE r == RowOf(e)
           old == view[r]
           S == Same(r, {"tip", "feeReceived"})
<1>1. /\ log' = log /\ view'[r] = new /\ TypeOK
      /\ old.val \in Int /\ log[e].amt \in Nat
      /\ Outcome(e, old, new, stored, stored')
      /\ S \subseteq Event
      /\ e \in stored \/ log[e].type \notin {"tip", "feeReceived"} => S' = S
      /\ stored' = stored \cup {e} /\ log[e].type \in {"tip", "feeReceived"} =>
           S' = S \cup {e}
      /\ e \notin stored => e \notin S
      /\ Holds(r, {"tip", "feeReceived"})' => Holds(r, {"tip", "feeReceived"})
  BY CommitRow DEF CoreInv
<1>2. RowOf(e)' = r
  BY <1>1 DEF RowOf
<1> SUFFICES ASSUME Holds(r, {"tip", "feeReceived"}) PROVE new.val = Total(S)'
  BY <1>1, <1>2 DEF TotalOK
<1>3. log[e].type \in {"tip", "feeReceived", "allocated"}
  BY <1>1, FamilyOf
<1>4. old.val = Total(S)
  BY DEF TotalOK
<1>5. CASE e \in stored \/ log[e].type = "allocated"
  <2>1. S' = S
    BY <1>1, <1>5
  <2>2. Total(S)' = Total(S)
    BY <1>1, <2>1, TotalAfter
  <2>3. new = old
    BY <1>1, <1>3, <1>5 DEF Outcome, Folded, Inserted
  <2> QED BY <1>4, <2>2, <2>3
<1>6. CASE e \notin stored /\ log[e].type # "allocated"
  <2>1. S' = S \cup {e} /\ new = FoldRow(e)
    BY <1>1, <1>3, <1>6 DEF Outcome, Folded
  <2>2. Total(S)' = Total(S \cup {e})
    BY <1>1, <2>1, TotalAfter
  <2>3. Total(S \cup {e}) = Total(S) + log[e].amt
    BY <1>1, <1>6, TotalFacts
  <2>4. FoldRow(e).val = old.val + log[e].amt
    BY <1>3, <1>6 DEF FoldRow, Plus
  <2> QED BY <1>4, <2>1, <2>2, <2>3, <2>4
<1> QED BY <1>5, <1>6

\* Reserves: an accrual is added, a deployment taken off an existing row.
LEMMA ReserveStep ==
  ASSUME CoreInv, NEW w \in Worker, NEW e \in Event, NEW new, Commit(w, e, new),
         Frame(w, e), ReserveOK(RowOf(e))
  PROVE  ReserveOK(RowOf(e))'
<1> DEFINE r == RowOf(e)
           old == view[r]
           R == Same(r, {"accrued", "deployed"})
           A == Same(r, {"accrued"})
           D == Same(r, {"deployed"})
<1>1. /\ log' = log /\ view'[r] = new /\ TypeOK /\ log[e].ok
      /\ old.val \in Int /\ e \in Nat /\ log[e].amt \in Nat
      /\ Outcome(e, old, new, stored, stored')
      /\ R \subseteq Event /\ A \subseteq Event /\ D \subseteq Event
      /\ e \notin stored => e \notin A /\ e \notin D
      /\ Holds(r, {"accrued", "deployed"})' => Holds(r, {"accrued", "deployed"})
  BY CommitRow DEF CoreInv
<1>2. RowOf(e)' = r
  BY <1>1 DEF RowOf
<1> SUFFICES ASSUME Holds(r, {"accrued", "deployed"})
             PROVE  /\ R' = {} => new = NoRow
                    /\ R' # {} => new.st # "none"
                    /\ \A m \in R' :
                         (\A f \in R' : m <= f) /\ log[m].type = "accrued" =>
                           new.val = Total(A)' - Total(D)'
  BY <1>1, <1>2 DEF ReserveOK, NoRow
<1>3. log[e].type \in {"accrued", "deployed"}
  BY <1>1, FamilyOf
<1>4. /\ R = {} => old = NoRow
      /\ R # {} => old.st # "none"
      /\ \A m \in R : (\A f \in R : m <= f) /\ log[m].type = "accrued" =>
                        old.val = Total(A) - Total(D)
  BY DEF ReserveOK
<1>5. CASE e \in stored
  <2>1. R' = R /\ A' = A /\ D' = D
    BY <1>5, CommitRow
  <2>2. Total(A)' = Total(A) /\ Total(D)' = Total(D)
    BY <1>1, <2>1, TotalAfter
  <2>3. new = old
    BY <1>1, <1>3, <1>5 DEF Outcome, Folded
  <2> QED BY <1>4, <2>1, <2>2, <2>3
<1>6. CASE e \notin stored
  <2>1. new = FoldRow(e) /\ stored' = stored \cup {e}
    BY <1>1, <1>3, <1>6 DEF Outcome, Folded
  <2>2. R' = R \cup {e}
    BY <1>3, <2>1, CommitRow
  <2>3. \A f \in R : f < e /\ f \in Nat
    <3>1. Dispatch[20] = {"accrued", "deployed"} /\ 20 \in 1..26
      BY DispatchFacts
    <3>2. log[e].type \in Logged
      BY <1>3 DEF Logged, Folded
    <3>3. \A f \in R : f < e
      BY <1>1, <1>3, <1>6, <3>1, <3>2, LastOfRow
    <3> QED BY <1>1, <3>3, LogFacts
  <2>4. Total(A) \in Int /\ Total(D) \in Int
    BY <1>1, TotalFacts
  <2>5. new.st = "active"
    BY <1>3, <2>1 DEF FoldRow, Plus
  <2>6. log[e].type = "accrued" =>
          Total(A)' = Total(A) + log[e].amt /\ Total(D)' = Total(D)
    <3>1. SUFFICES ASSUME log[e].type = "accrued"
                   PROVE  Total(A)' = Total(A) + log[e].amt /\ Total(D)' = Total(D)
      OBVIOUS
    <3>2. A' = A \cup {e} /\ D' = D
      BY <2>1, <3>1, CommitRow
    <3>3. Total(A)' = Total(A \cup {e}) /\ Total(D)' = Total(D)
      BY <1>1, <3>2, TotalAfter
    <3>4. Total(A \cup {e}) = Total(A) + log[e].amt
      BY <1>1, <1>6, TotalFacts
    <3> QED BY <3>3, <3>4
  <2>7. log[e].type = "deployed" =>
          Total(D)' = Total(D) + log[e].amt /\ Total(A)' = Total(A)
    <3>1. SUFFICES ASSUME log[e].type = "deployed"
                   PROVE  Total(D)' = Total(D) + log[e].amt /\ Total(A)' = Total(A)
      OBVIOUS
    <3>2. D' = D \cup {e} /\ A' = A
      BY <2>1, <3>1, CommitRow
    <3>3. Total(D)' = Total(D \cup {e}) /\ Total(A)' = Total(A)
      BY <1>1, <3>2, TotalAfter
    <3>4. Total(D \cup {e}) = Total(D) + log[e].amt
      BY <1>1, <1>6, TotalFacts
    <3> QED BY <3>3, <3>4
  <2>8. ASSUME NEW m \in R', \A f \in R' : m <= f, log[m].type = "accrued"
        PROVE  new.val = Total(A)' - Total(D)'
    <3>1. CASE R = {}
      <4>1. m = e /\ old.val = 0
        BY <1>4, <2>2, <2>8, <3>1 DEF NoRow
      <4>2. A = {} /\ D = {}
        BY <3>1 DEF Same
      <4>3. Total(A) = 0 /\ Total(D) = 0
        BY <1>1, <4>2, TotalFacts
      <4>4. new.val = old.val + log[e].amt
        BY <2>1, <2>8, <4>1 DEF FoldRow, Plus
      <4> QED BY <1>1, <2>6, <2>8, <4>1, <4>3, <4>4
    <3>2. CASE R # {}
      <4>1. m \in R
        BY <1>1, <2>2, <2>3, <2>8, <3>2
      <4>2. old.val = Total(A) - Total(D) /\ old.st # "none"
        BY <1>4, <2>2, <2>8, <3>2, <4>1
      <4>3. new.val = IF log[e].type = "accrued" THEN old.val + log[e].amt
                      ELSE old.val + (-log[e].amt)
        BY <1>3, <2>1, <4>2 DEF FoldRow, Plus
      <4> HIDE DEF A, D, old
      <4> QED BY <1>1, <1>3, <2>4, <2>6, <2>7, <4>2, <4>3
    <3> QED BY <3>1, <3>2
  <2> QED BY <2>2, <2>5, <2>8
<1> QED BY <1>5, <1>6

\* Liquidity: a deposit is added, or starts a removed position again.
LEMMA LiquidStep ==
  ASSUME CoreInv, NEW w \in Worker, NEW e \in Event, NEW new, Commit(w, e, new),
         Frame(w, e), LiquidOK(RowOf(e))
  PROVE  LiquidOK(RowOf(e))'
<1> DEFINE r == RowOf(e)
           old == view[r]
           L == Same(r, {"lpAdded", "lpRemoved"})
           P == Deposits(r)
<1>1. /\ log' = log /\ view'[r] = new /\ TypeOK /\ log[e].ok
      /\ old.val \in Int /\ e \in Nat /\ log[e].amt \in Nat
      /\ Outcome(e, old, new, stored, stored')
      /\ L \subseteq Event
      /\ e \notin stored => e \notin L
      /\ Holds(r, LpTypes)' => Holds(r, LpTypes)
  BY CommitRow DEF CoreInv
<1>2. RowOf(e)' = r
  BY <1>1 DEF RowOf
<1> SUFFICES ASSUME Holds(r, LpTypes)
             PROVE  /\ new.st = "none" => new.val = 0
                    /\ new.st # "closed" => new.val = Total(P)'
                    /\ new.st = "closed" => P' = {}
  BY <1>1, <1>2 DEF LiquidOK
<1>3. log[e].type \in {"lpAdded", "lpClaimed", "lpRemoved"}
  BY <1>1, FamilyOf DEF LpTypes
<1>4. /\ old.st = "none" => old.val = 0
      /\ old.st # "closed" => old.val = Total(P)
      /\ old.st = "closed" => P = {}
  BY DEF LiquidOK
<1>5. P \subseteq Event /\ (e \notin stored => e \notin P)
  BY <1>1 DEF Deposits
<1>6. ASSUME NEW U, P' = U PROVE Total(P)' = Total(U)
  <2>1. Amount' = Amount
    BY <1>1 DEF Amount, Event
  <2>2. Total(P)' = SumOver(Amount', P')
    BY DEF Total
  <2> QED BY <1>6, <2>1, <2>2 DEF Total
<1>7. CASE e \in stored \/ log[e].type = "lpClaimed"
  <2>1. L' = L
    BY <1>7, CommitRow
  <2>2. P' = P
    BY <1>1, <2>1 DEF Deposits
  <2>3. Total(P)' = Total(P)
    BY <1>6, <2>2
  <2>4. new = old
    BY <1>1, <1>3, <1>7 DEF Outcome, LpTypes, LpPosition
  <2> QED BY <1>4, <2>2, <2>3, <2>4
<1>8. CASE e \notin stored /\ log[e].type # "lpClaimed"
  <2>1. new = LpPosition(e) /\ stored' = stored \cup {e}
    BY <1>1, <1>3, <1>8 DEF Outcome, LpTypes
  <2>2. L' = L \cup {e}
    BY <1>3, <1>8, <2>1, CommitRow
  <2>3. \A f \in L : f < e /\ f \in Nat
    <3>1. /\ Dispatch[18] = LpTypes /\ 18 \in 1..26
          /\ {"lpAdded", "lpRemoved"} \subseteq LpTypes /\ log[e].type \in LpTypes
      BY <1>3, DispatchFacts DEF LpTypes
    <3>2. log[e].type \in Logged
      BY <3>1 DEF Logged
    <3>3. \A f \in L : f < e
      BY <1>1, <1>8, <3>1, <3>2, LastOfRow
    <3> QED BY <1>1, <3>3, LogFacts
  <2>4. CASE log[e].type = "lpAdded"
    <3>1. P' = P \cup {e}
      BY <1>1, <2>2, <2>3, <2>4 DEF Deposits
    <3>2. Total(P)' = Total(P \cup {e})
      BY <1>6, <3>1
    <3>3. Total(P \cup {e}) = Total(P) + log[e].amt
      BY <1>1, <1>5, <1>8, TotalFacts
    <3>4. /\ new.st = "active"
          /\ new.val = log[e].amt + (IF old.st = "closed" THEN 0 ELSE old.val)
      BY <2>1, <2>4 DEF LpPosition
    <3>5. Total(P) = IF old.st = "closed" THEN 0 ELSE old.val
      BY <1>1, <1>4, <1>5, TotalFacts
    <3> HIDE DEF P, old
    <3> QED BY <1>1, <3>2, <3>3, <3>4, <3>5
  <2>5. CASE log[e].type = "lpRemoved"
    <3>1. P' = {}
      BY <1>1, <2>2, <2>3, <2>5 DEF Deposits
    <3>2. Total(P)' = 0
      BY <1>1, <1>6, <3>1, TotalFacts
    <3>3. new = IF old.st # "none" THEN [val |-> 0, at |-> e, st |-> "closed"] ELSE old
      BY <2>1, <2>5 DEF LpPosition
    <3> QED BY <1>4, <3>1, <3>2, <3>3
  <2> QED BY <1>3, <1>8, <2>4, <2>5
<1> QED BY <1>7, <1>8

\* Verification: a new event is the last one.
LEMMA VerifiedStep ==
  ASSUME CoreInv, NEW w \in Worker, NEW e \in Event, NEW new, Commit(w, e, new),
         Frame(w, e), VerifiedOK(RowOf(e))
  PROVE  VerifiedOK(RowOf(e))'
<1> DEFINE r == RowOf(e)
           old == view[r]
           V == Same(r, {"granted", "revoked"})
<1>1. /\ log' = log /\ view'[r] = new /\ TypeOK /\ log[e].ok
      /\ e \in Nat /\ Outcome(e, old, new, stored, stored')
      /\ V \subseteq Event
  BY CommitRow DEF CoreInv
<1>2. RowOf(e)' = r
  BY <1>1 DEF RowOf
<1> SUFFICES ASSUME NEW m \in V', \A f \in V' : f <= m
             PROVE  new.st = IF log[m].type = "granted" THEN "active" ELSE "closed"
  BY <1>1, <1>2 DEF VerifiedOK
<1>3. log[e].type \in {"granted", "revoked"}
  <2>1. V' \subseteq Event
    BY <1>1, TypeParts DEF Same, Frame
  <2>2. Holds(r, {"granted", "revoked"})
    BY <1>1, <2>1 DEF Holds, Same, RowOf
  <2> QED BY <1>1, <2>2, FamilyOf
<1>4. CASE e \in stored
  <2>1. V' = V
    BY <1>4, CommitRow
  <2>2. new = old
    BY <1>1, <1>3, <1>4 DEF Outcome, Folded
  <2> QED BY <2>1, <2>2 DEF VerifiedOK
<1>5. CASE e \notin stored
  <2>1. new = FoldRow(e) /\ stored' = stored \cup {e}
    BY <1>1, <1>3, <1>5 DEF Outcome, Folded
  <2>2. V' = V \cup {e}
    BY <1>3, <2>1, CommitRow
  <2>3. \A f \in V : f < e /\ f \in Nat
    <3>1. Dispatch[24] = {"granted", "revoked"} /\ 24 \in 1..26
      BY DispatchFacts
    <3>2. log[e].type \in Logged
      BY <1>3 DEF Logged, Folded
    <3>3. \A f \in V : f < e
      BY <1>1, <1>3, <1>5, <3>1, <3>2, LastOfRow
    <3> QED BY <1>1, <3>3, LogFacts
  <2>4. m = e
    BY <1>1, <2>2, <2>3
  <2> QED BY <1>3, <2>1, <2>4 DEF FoldRow
<1> QED BY <1>4, <1>5

\* Auctions: a new bid is stored and compared with the highest.
LEMMA BidsStep ==
  ASSUME CoreInv, NEW w \in Worker, NEW e \in Event, NEW new, Commit(w, e, new),
         Frame(w, e), BidsOK(RowOf(e))
  PROVE  BidsOK(RowOf(e))'
<1> DEFINE r == RowOf(e)
           old == view[r]
           B == Same(r, {"bid"})
           T == {"auctionCreated", "bid", "auctionSettled"}
<1>1. /\ log' = log /\ view'[r] = new /\ TypeOK /\ log[e].ok
      /\ old.val \in Int /\ e \in Nat /\ log[e].amt \in Nat
      /\ Outcome(e, old, new, stored, stored')
      /\ B \subseteq Event
      /\ Holds(r, T)' => Holds(r, T)
  BY CommitRow DEF CoreInv
<1>2. RowOf(e)' = r
  BY <1>1 DEF RowOf
<1> SUFFICES ASSUME Holds(r, T)
             PROVE  /\ new.st = "none" => B' = {}
                    /\ B' = {} => new.val = 0
                    /\ \A f \in B' : log[f].amt <= new.val
                    /\ B' # {} => \E f \in B' : log[f].amt = new.val
  BY <1>1, <1>2 DEF BidsOK
<1>3. log[e].type \in T
  BY <1>1, FamilyOf
<1>4. /\ old.st = "none" => B = {}
      /\ B = {} => old.val = 0
      /\ \A f \in B : log[f].amt <= old.val
      /\ B # {} => \E f \in B : log[f].amt = old.val
  BY DEF BidsOK
<1>5. CASE log[e].type \in {"auctionCreated", "auctionSettled"}
  <2>1. B' = B
    BY <1>5, CommitRow
  <2>2. new.val = old.val /\ (new.st = "none" => old.st = "none")
    BY <1>1, <1>4, <1>5 DEF Outcome, Created, Ended
  <2> QED BY <1>4, <2>1, <2>2
<1>6. CASE log[e].type = "bid"
  <2>1. new = HighestBid(old, e) /\ old.st # "none" /\ stored' = stored \cup {e}
    BY <1>1, <1>6 DEF Outcome
  <2>2. B' = B \cup {e}
    BY <1>6, <2>1, CommitRow
  <2>3. \/ log[e].amt > old.val /\ new.val = log[e].amt /\ new.st = old.st
        \/ log[e].amt <= old.val /\ new = old
    BY <1>1, <2>1 DEF HighestBid
  <2>4. \A f \in B : log[f].amt \in Nat
    BY <1>1, LogFacts
  <2>5. old.val \in Int /\ log[e].amt \in Nat
    BY <1>1
  <2> HIDE DEF B, old
  <2>6. CASE log[e].amt > old.val /\ new.val = log[e].amt /\ new.st = old.st
    <3>1. \A f \in B : log[f].amt <= new.val
      BY <1>4, <2>4, <2>5, <2>6
    <3>2. new.val = log[e].amt /\ new.st # "none" /\ log[e].amt <= new.val
      BY <2>1, <2>5, <2>6
    <3> QED BY <2>2, <3>1, <3>2
  <2>7. CASE log[e].amt <= old.val /\ new = old
    <3>1. B = {} => log[e].amt = new.val
      BY <1>4, <2>5, <2>7
    <3> QED BY <1>4, <2>1, <2>2, <2>7, <3>1
  <2> QED BY <2>3, <2>6, <2>7
<1> QED BY <1>3, <1>5, <1>6

\* Every step preserves that the rows fit their events.
LEMMA ViewStep ==
  ASSUME CoreInv, ViewInv, [Next]_vars
  PROVE  ViewInv'
<1>1. ASSUME DataKept PROVE ViewInv'
  <2> SUFFICES ASSUME NEW r \in Row PROVE ViewOK(r)'
    BY DEF ViewInv
  <2>1. log' = log /\ view'[r] = view[r] /\ \A T : Same(r, T)' = Same(r, T)
    BY <1>1 DEF DataKept, Same, RowOf
  <2> QED BY <2>1, ViewFrame DEF CoreInv, ViewInv
<1>2. ASSUME NEW w \in Worker, NEW e \in Turn(w), Handler(w, e), NEW r \in Row
      PROVE  ViewOK(r)'
  <2>1. /\ Frame(w, e) /\ Shape(w, e) /\ e \in Event /\ TypeOK
        /\ log' = log /\ stored' \in {stored, stored \cup {e}} /\ ViewOK(r)
    BY <1>2, HandlerCore DEF CoreInv, Frame, ViewInv
  <2>2. CASE RowOf(e) # r
    <3>1. view'[r] = view[r]
      BY <2>1, <2>2 DEF Frame
    <3>2. \A T : Same(r, T)' = Same(r, T)
      BY <2>1, <2>2 DEF Same, RowOf
    <3> QED BY <2>1, <3>1, <3>2, ViewFrame
  <2>3. ASSUME NEW new, Commit(w, e, new), RowOf(e) = r PROVE ViewOK(r)'
    <3>1. /\ TotalOK(RowOf(e)) /\ ReserveOK(RowOf(e)) /\ LiquidOK(RowOf(e))
          /\ VerifiedOK(RowOf(e)) /\ BidsOK(RowOf(e)) /\ RowOf(e)' = r
      BY <2>1, <2>3 DEF ViewOK, RowOf
    <3>2. /\ TotalOK(RowOf(e))' /\ ReserveOK(RowOf(e))' /\ LiquidOK(RowOf(e))'
          /\ VerifiedOK(RowOf(e))' /\ BidsOK(RowOf(e))'
      BY <2>1, <2>3, <3>1, TotalStep, ReserveStep, LiquidStep, VerifiedStep, BidsStep
    <3>3. ViewOK(RowOf(e))'
      BY <3>2 DEF ViewOK
    <3> QED BY <3>1, <3>3
  <2>4. CASE ~ \E new : Commit(w, e, new)
    <3>1. view'[r] = view[r]
      BY <2>1, <2>4, ViewKept
    <3>2. stored' = stored \/ log[e].type \notin ViewTypes
      BY <2>1, <2>4 DEF Shape, Move, Skip, LogSocial, DropStatus, LogOnly, Throw,
           Quiet, data, CreateDistribution, processDividendClaimed, BookClaim,
           Malformed, Invalidate, ViewTypes
    <3>3. \A T \in SUBSET ViewTypes : Same(r, T)' = Same(r, T)
      BY <2>1, <3>2 DEF Same, RowOf
    <3> QED BY <2>1, <3>1, <3>3, ViewFrame
  <2> QED BY <2>2, <2>3, <2>4
<1>3. CASE \E w \in Worker : \E e \in Turn(w) : Handler(w, e)
  BY <1>2, <1>3 DEF ViewInv
<1> QED BY <1>1, <1>3, NextCases, EndStep, FetchStep, IdleStep

\* A greatest element is the maximum.
LEMMA MaxIs ==
  ASSUME NEW M, NEW m, M \subseteq Nat, m \in M, \A a \in M : a <= m
  PROVE  Max(M) = m
<1>1. ASSUME NEW x \in M, \A y \in M : x >= y PROVE x = m
  <2>1. x \in Nat /\ m \in Nat /\ x >= m /\ x <= m
    BY <1>1
  <2> QED BY <2>1
<1>2. \A y \in M : m >= y
  OBVIOUS
<1> QED BY <1>1, <1>2, Zenon DEF Max

\* The invariant says what the property says, in terms of sums that can be
\* reasoned about.
LEMMA ViewIsFolded ==
  ASSUME TypeOK, ViewInv
  PROVE  ViewMatchesLog
<1> SUFFICES ASSUME NEW r \in Row
             PROVE  LET S(T) == Same(r, T)
                        Lp == S({"lpAdded", "lpRemoved"})
                        Since == {e \in Lp : log[e].type = "lpAdded" /\
                                   \A f \in Lp : log[f].type = "lpRemoved" => f < e}
                        Ver == S({"granted", "revoked"})
                        Res == S({"accrued", "deployed"})
                    IN  /\ S({"tip", "feeReceived"}) # {} =>
                             view[r].val = SumOf(S({"tip", "feeReceived"}))
                        /\ (Res # {} /\ Backed(Res)) =>
                             view[r].val = SumOf(S({"accrued"})) - SumOf(S({"deployed"}))
                        /\ Since # {} => view[r].val = SumOf(Since)
                        /\ Ver # {} => view[r].st = (IF log[Max(Ver)].type = "granted"
                                                     THEN "active" ELSE "closed")
                        /\ S({"bid"}) # {} =>
                             view[r].val = Max({log[e].amt : e \in S({"bid"})})
  BY Zenon DEF ViewMatchesLog
<1>1. ViewOK(r)
  BY DEF ViewInv
<1>2. \A S : SumOf(S) = Total(S)
  BY DEF SumOf, Total, SumOver
<1>3. /\ \A T : Same(r, T) \subseteq Event
      /\ \A T : Same(r, T) # {} => Holds(r, T)
      /\ \A T, U : T \subseteq U /\ Holds(r, T) => Holds(r, U)
  BY TypeParts DEF Same, Holds
<1>4. Event \subseteq Nat /\ \A e \in Event : log[e].amt \in Nat
  BY LogFacts
<1>5. Same(r, {"tip", "feeReceived"}) # {} =>
        view[r].val = SumOf(Same(r, {"tip", "feeReceived"}))
  BY <1>1, <1>2, <1>3 DEF ViewOK, TotalOK
<1>6. ASSUME Same(r, {"accrued", "deployed"}) # {},
             Backed(Same(r, {"accrued", "deployed"}))
      PROVE  view[r].val = SumOf(Same(r, {"accrued"})) - SumOf(Same(r, {"deployed"}))
  <2> DEFINE R == Same(r, {"accrued", "deployed"})
  <2>1. \E m \in R : \A f \in R : m <= f
    BY <1>3, <1>4, <1>6, LeastNatural
  <2>2. Min(R) \in R /\ \A f \in R : Min(R) <= f
    <3> HIDE DEF R
    <3> QED BY <2>1 DEF Min
  <2>3. log[Min(R)].type = "accrued"
    BY <1>6 DEF Backed
  <2> QED BY <1>1, <1>2, <1>3, <1>6, <2>2, <2>3 DEF ViewOK, ReserveOK
<1>7. Deposits(r) # {} => view[r].val = SumOf(Deposits(r))
  <2>1. SUFFICES ASSUME Deposits(r) # {} PROVE view[r].val = Total(Deposits(r))
    BY <1>2
  <2>2. Same(r, {"lpAdded", "lpRemoved"}) # {}
    BY <2>1 DEF Deposits
  <2>3. Holds(r, LpTypes)
    BY <1>3, <2>2 DEF LpTypes
  <2> QED BY <1>1, <2>1, <2>3 DEF ViewOK, LiquidOK
<1>8. ASSUME Same(r, {"granted", "revoked"}) # {}
      PROVE  view[r].st = (IF log[Max(Same(r, {"granted", "revoked"}))].type = "granted"
                           THEN "active" ELSE "closed")
  <2> DEFINE V == Same(r, {"granted", "revoked"})
  <2>1. \E m \in V : \A f \in V : f <= m
    BY <1>3, <1>8, LatestIn
  <2>2. Max(V) \in V /\ \A f \in V : f <= Max(V)
    <3>1. V \subseteq Nat
      BY <1>3, <1>4
    <3> HIDE DEF V
    <3> QED BY <2>1, <3>1 DEF Max
  <2> QED BY <1>1, <2>2 DEF ViewOK, VerifiedOK
<1>9. ASSUME Same(r, {"bid"}) # {}
      PROVE  view[r].val = Max({log[e].amt : e \in Same(r, {"bid"})})
  <2> DEFINE B == Same(r, {"bid"})
             M == {log[e].amt : e \in B}
  <2>1. Holds(r, {"auctionCreated", "bid", "auctionSettled"})
    BY <1>3, <1>9
  <2>2. view[r].val \in M /\ (\A a \in M : a <= view[r].val)
    BY <1>1, <1>9, <2>1 DEF ViewOK, BidsOK
  <2>3. M \subseteq Nat
    BY <1>3, <1>4
  <2> HIDE DEF M
  <2>4. Max(M) = view[r].val
    BY <2>2, <2>3, MaxIs
  <2> QED BY <2>4 DEF M
<1> QED BY <1>5, <1>6, <1>7, <1>8, <1>9 DEF Deposits

\* No running total, reserve, liquidity position, verification state or best
\* bid ever drifts from the events logged for it, whatever is replayed and
\* however batches overlap.
THEOREM ViewIsLog == Spec => []ViewMatchesLog
<1>1. Init => ViewInv
  <2> SUFFICES ASSUME Init, NEW r \in Row PROVE ViewOK(r)
    BY DEF ViewInv
  <2>1. view[r] = NoRow /\ NoRow.val = 0 /\ NoRow.st = "none"
    BY DEF Init, NoRow
  <2>2. \A T : Same(r, T) = {}
    BY DEF Init, Same
  <2>3. Deposits(r) = {} /\ Total({}) = 0
    BY <2>2, SumEmpty DEF Deposits, Total
  <2> QED BY <2>1, <2>2, <2>3
          DEF ViewOK, TotalOK, ReserveOK, LiquidOK, VerifiedOK, BidsOK
<1>2. CoreInv /\ ViewInv => ViewMatchesLog
  BY ViewIsFolded DEF CoreInv
<1>3. CoreInv /\ ViewInv /\ [Next]_vars => ViewInv'
  BY ViewStep
<1> QED BY <1>1, <1>2, <1>3, InitCore, NextCore, PTL DEF Spec
=============================================================================
