---------------------- MODULE ContractSubmissionProofs ----------------------
(* Safety of ContractSubmission for every set of calls and transactions,   *)
(* every assignment of envelopes and every retry, depth and fault budget.  *)
EXTENDS ContractSubmission, TLAPS

\* The network never holds a queued envelope that is also on the chain, nor
\* a transaction in a ledger that has not closed.
NetworkSound ==
  /\ \A t \in queue : ~ Included(t)
  /\ \A t \in Tx : inc[t].ledger <= head

\* What a call learned from a poll is still so, unless a reorg undid it; the
\* ledger it took down is the including one or a later one.
PollStillHolds ==
  \A s \in Sub : TxOf[s] \notin dropped =>
    /\ pc[s] \in {"depth", "confirm"} =>
         /\ Included(TxOf[s]) /\ inc[TxOf[s]].ok
         /\ seen[s] >= inc[TxOf[s]].ledger
    /\ pc[s] = "fail user" => Included(TxOf[s]) /\ ~ inc[TxOf[s]].ok

\* A call that is still to submit has attempts left.
AttemptsLeft ==
  \A s \in Sub : pc[s] \in {"new", "submit"} => attempts[s] < MaxAttempts

IInv ==
  /\ TypeOK /\ AttemptsLeft /\ NetworkSound /\ PollStillHolds
  /\ RowTruthful /\ ReleasedIsDeep /\ PendingHasOwner

\* What a closing ledger or a reorg leaves of what was known: inclusions
\* outside `dropped' are kept as they are.
KeepsInclusions ==
  /\ dropped \subseteq dropped'
  /\ top' >= top
  /\ \A t \in Tx : (Included(t) /\ t \notin dropped') => inc'[t] = inc[t]

\* The ledger numbers of the network are numbers.
LEMMA LedgerNumbers ==
  ASSUME TypeOK
  PROVE  /\ head \in 0..MaxHead /\ top \in 0..MaxHead /\ head <= top
         /\ reorgs \in 0..MaxReorg
         /\ \A t \in Tx : inc[t].ledger \in 0..MaxHead
  BY DEF TypeOK, Ledger

\* What the disjunct of a failed write does to the fault counter.
LEMMA FaultNumbers ==
  ASSUME TypeOK, faults' = faults \/ (faults < MaxFault /\ faults' = faults + 1)
  PROVE  faults' \in 0..MaxFault /\ (faults' = 0 => faults = 0 /\ faults' = faults)
<1>1. faults \in 0..MaxFault
  BY DEF TypeOK
<1> QED
  BY <1>1, SubmissionAssumption

\* The invariant holds before the first submission.
LEMMA InitInv == Init => IInv
<1> SUFFICES ASSUME Init PROVE IInv
  OBVIOUS
<1> USE SubmissionAssumption DEF Init
<1>1. TypeOK
  BY DEF TypeOK, Ledger, Terminal, NotIncluded
<1>2. AttemptsLeft /\ NetworkSound /\ PollStillHolds
  BY DEF AttemptsLeft, NetworkSound, PollStillHolds, NotIncluded
<1>3. RowTruthful /\ ReleasedIsDeep /\ PendingHasOwner
  BY DEF RowTruthful, ReleasedIsDeep, PendingHasOwner
<1> QED
  BY <1>1, <1>2, <1>3 DEF IInv

\* A step of the network that keeps inclusions keeps the invariant.
LEMMA NetworkKeeps ==
  ASSUME IInv, TypeOK', NetworkSound', KeepsInclusions,
         UNCHANGED <<row, pc, attempts, seen, released, verdict, faults>>
  PROVE  IInv'
<1> USE SubmissionAssumption DEF IInv, KeepsInclusions, Included
<1>1. PollStillHolds'
  BY DEF TypeOK, PollStillHolds
<1>2. RowTruthful'
  BY DEF TypeOK, RowTruthful
<1>3. ReleasedIsDeep'
  <2> SUFFICES ASSUME NEW s \in Sub, released[s], TxOf[s] \notin dropped'
               PROVE  /\ Included(TxOf[s])' /\ inc'[TxOf[s]].ok
                      /\ top' - inc'[TxOf[s]].ledger >= Depth
    BY DEF ReleasedIsDeep
  <2>1. /\ TxOf[s] \in Tx /\ Included(TxOf[s]) /\ inc[TxOf[s]].ok
        /\ top - inc[TxOf[s]].ledger >= Depth
    BY DEF ReleasedIsDeep
  <2>2. inc'[TxOf[s]] = inc[TxOf[s]]
    BY <2>1
  <2>3. /\ top \in 0..MaxHead /\ top' \in 0..MaxHead
        /\ inc[TxOf[s]].ledger \in 0..MaxHead /\ top' >= top
    <3>1. top' \in 0..MaxHead
      BY DEF TypeOK, Ledger
    <3> QED
      BY <2>1, <3>1, LedgerNumbers
  <2>4. top' - inc[TxOf[s]].ledger >= Depth
    BY <2>1, <2>3
  <2> QED
    BY <2>1, <2>2, <2>4
<1>4. PendingHasOwner' /\ AttemptsLeft'
  BY DEF PendingHasOwner, AttemptsLeft
<1> QED
  BY <1>1, <1>2, <1>3, <1>4

\* A ledger that closes only adds transactions to the chain.
LEMMA CloseLedgerInv == IInv /\ CloseLedger => IInv'
<1> SUFFICES ASSUME IInv, CloseLedger PROVE IInv'
  OBVIOUS
<1> USE SubmissionAssumption DEF IInv
<1>1. PICK S \in SUBSET queue : \E good \in SUBSET S :
        /\ queue' = queue \ S
        /\ inc' = [t \in Tx |-> IF t \in S
                                THEN [ledger |-> head + 1, ok |-> t \in good]
                                ELSE inc[t]]
  BY Zenon DEF CloseLedger
<1>2. PICK good \in SUBSET S :
        /\ queue' = queue \ S
        /\ inc' = [t \in Tx |-> IF t \in S
                                THEN [ledger |-> head + 1, ok |-> t \in good]
                                ELSE inc[t]]
  BY <1>1
<1>3. /\ head' \in Ledger /\ top' \in Ledger /\ head' <= top' /\ top' >= top
      /\ head + 1 \in Ledger
  <2>1. /\ head < MaxHead /\ head' = head + 1
        /\ top' = IF head + 1 > top THEN head + 1 ELSE top
    BY DEF CloseLedger
  <2> QED
    BY <2>1, LedgerNumbers DEF Ledger
<1>4. inc' \in [Tx -> [ledger : Ledger, ok : BOOLEAN]]
  <2>1. \A t \in Tx : [ledger |-> head + 1, ok |-> t \in good]
                        \in [ledger : Ledger, ok : BOOLEAN]
    BY <1>3
  <2> QED
    BY <1>2, <2>1 DEF TypeOK
<1>5. TypeOK'
  BY <1>2, <1>3, <1>4 DEF CloseLedger, TypeOK
<1>6. NetworkSound'
  <2>1. \A t \in queue' : ~ Included(t)'
    BY <1>2 DEF TypeOK, NetworkSound, Included
  <2>2. \A t \in Tx : inc'[t].ledger = head + 1 \/ inc'[t] = inc[t]
    BY <1>2
  <2>3. head' = head + 1 /\ \A t \in Tx : inc[t].ledger <= head
    BY DEF CloseLedger, NetworkSound
  <2> QED
    BY <2>1, <2>2, <2>3, LedgerNumbers DEF NetworkSound
<1>7. KeepsInclusions
  BY <1>2, <1>3 DEF CloseLedger, KeepsInclusions, NetworkSound, Included
<1> QED
  BY <1>5, <1>6, <1>7, NetworkKeeps DEF CloseLedger

\* A reorg remembers what it drops, which excuses the calls that saw it.
LEMMA ReorgInv == IInv /\ Reorg => IInv'
<1> SUFFICES ASSUME IInv, Reorg PROVE IInv'
  OBVIOUS
<1> USE SubmissionAssumption DEF IInv
<1>1. PICK n \in Ledger :
        /\ n < head /\ head' = n
        /\ inc' = [t \in Tx |-> IF t \in {u \in Tx : inc[u].ledger > n}
                                THEN NotIncluded ELSE inc[t]]
        /\ dropped' = dropped \cup {u \in Tx : inc[u].ledger > n}
        /\ \E S \in SUBSET {u \in Tx : inc[u].ledger > n} : queue' = queue \cup S
  BY DEF Reorg
<1>2. NotIncluded \in [ledger : Ledger, ok : BOOLEAN]
  BY DEF NotIncluded, Ledger
<1>3. inc' \in [Tx -> [ledger : Ledger, ok : BOOLEAN]]
  BY <1>1, <1>2 DEF TypeOK
<1>4. head' \in Ledger /\ head' <= top /\ reorgs' \in 0..MaxReorg /\ top' >= top
  <2>1. reorgs < MaxReorg /\ reorgs' = reorgs + 1 /\ top' = top
    BY DEF Reorg
  <2>2. n \in Ledger /\ n < head /\ head' = n
    BY <1>1
  <2> QED
    BY <2>1, <2>2, LedgerNumbers DEF Ledger
<1>5. TypeOK'
  BY <1>1, <1>3, <1>4 DEF Reorg, TypeOK
<1>6. NetworkSound'
  <2>1. \A t \in queue' : ~ Included(t)'
    BY <1>1 DEF TypeOK, NetworkSound, Included, NotIncluded
  <2>2. ASSUME NEW t \in Tx PROVE inc'[t].ledger <= head'
    <3>1. CASE inc[t].ledger > n
      BY <1>1, <3>1 DEF NotIncluded, Ledger
    <3>2. CASE ~ (inc[t].ledger > n)
      BY <1>1, <3>2, LedgerNumbers DEF Ledger
    <3> QED
      BY <3>1, <3>2
  <2> QED
    BY <2>1, <2>2 DEF NetworkSound
<1>7. KeepsInclusions
  BY <1>1, <1>4 DEF KeepsInclusions
<1> QED
  BY <1>5, <1>6, <1>7, NetworkKeeps DEF Reorg

\* One more submission attempt of call s.
LEMMA AttemptInv ==
  ASSUME IInv, NEW s \in Sub,
         submitOnce(s) \/ submitTransient(s) \/ submitUserError(s)
  PROVE  IInv'
<1> USE SubmissionAssumption DEF IInv
<1>1. /\ pc[s] = "submit" /\ attempts' = [attempts EXCEPT ![s] = @ + 1]
      /\ queue' = queue \/ Enqueue(TxOf[s])
      /\ UNCHANGED <<head, top, inc, dropped, reorgs, row, seen, released, faults>>
  BY DEF submitOnce, submitTransient, submitUserError, Attempt, network
<1>2. /\ \E l \in {"submit", "track", "done"} : pc' = [pc EXCEPT ![s] = l]
      /\ \/ verdict' = verdict
         \/ \E v \in {"throw user", "throw transient"} :
              verdict' = [verdict EXCEPT ![s] = v]
      /\ pc'[s] = "submit" => attempts'[s] < MaxAttempts
  BY <1>1 DEF submitOnce, submitTransient, submitUserError, Goto, TypeOK
<1>3. attempts' \in [Sub -> 0..MaxAttempts]
  <2>1. attempts[s] \in 0..MaxAttempts /\ attempts[s] < MaxAttempts
    BY <1>1 DEF TypeOK, AttemptsLeft
  <2>2. attempts[s] + 1 \in 0..MaxAttempts
    BY <2>1
  <2> QED
    BY <1>1, <2>2 DEF TypeOK
<1>4. AttemptsLeft'
  BY <1>1, <1>2, <1>3 DEF AttemptsLeft, TypeOK
<1>5. NetworkSound' /\ queue' \in SUBSET Tx
  BY <1>1 DEF NetworkSound, Enqueue, Included, TypeOK
<1>6. pc' \in [Sub -> {"new", "submit", "track", "poll", "depth", "confirm",
                       "fail user", "fail transient", "done", "lost"}]
  BY <1>2 DEF TypeOK
<1>7. verdict' \in [Sub -> {"none", "throw user", "throw transient"} \cup Terminal]
  BY <1>2 DEF TypeOK
<1>8. TypeOK'
  BY <1>1, <1>3, <1>5, <1>6, <1>7 DEF TypeOK
<1>9. \A u \in Sub : pc'[u] = pc[u] \/ (pc[u] = "submit" /\ pc'[u] \in {"submit", "track", "done"})
  BY <1>1, <1>2 DEF TypeOK
<1>10. PollStillHolds'
  BY <1>1, <1>9 DEF PollStillHolds, Included
<1>11. PendingHasOwner'
  BY <1>1, <1>9 DEF PendingHasOwner, Tracking
<1>12. RowTruthful' /\ ReleasedIsDeep'
  BY <1>1 DEF RowTruthful, ReleasedIsDeep, Included
<1> QED
  BY <1>4, <1>5, <1>8, <1>10, <1>11, <1>12

\* recordPending only creates a row, and its call goes on to poll for it.
LEMMA RecordPendingInv == ASSUME IInv, NEW s \in Sub, recordPending(s) PROVE IInv'
<1> USE SubmissionAssumption DEF IInv, recordPending, Goto, network
<1>1. row' \in [Tx -> {"none", "PENDING"} \cup Terminal] /\ faults' \in 0..MaxFault
  <2>1. row' = row \/ row' = [row EXCEPT ![TxOf[s]] = IF @ = "none" THEN "PENDING" ELSE @]
    OBVIOUS
  <2>2. row' \in [Tx -> {"none", "PENDING"} \cup Terminal]
    BY <2>1 DEF TypeOK
  <2>3. faults' \in 0..MaxFault
    BY FaultNumbers
  <2> QED
    BY <2>2, <2>3
<1>2. TypeOK'
  BY <1>1 DEF TypeOK
<1>3. \A u \in Sub : pc'[u] = pc[u] \/ (u = s /\ pc[s] = "track" /\ pc'[s] = "poll")
  BY DEF TypeOK
<1>4. AttemptsLeft' /\ NetworkSound' /\ PollStillHolds' /\ ReleasedIsDeep'
  BY <1>3 DEF AttemptsLeft, NetworkSound, PollStillHolds, ReleasedIsDeep, Included
<1>5. \A t \in Tx : row'[t] = row[t] \/ (t = TxOf[s] /\ row'[t] = "PENDING")
  BY DEF TypeOK
<1>6. RowTruthful'
  BY <1>5 DEF RowTruthful, Included
<1>7. PendingHasOwner'
  <2> SUFFICES ASSUME NEW t \in Tx, row'[t] = "PENDING", faults' = 0
               PROVE  \E u \in Sub : TxOf[u] = t /\ pc'[u] \in Tracking
    BY DEF PendingHasOwner
  <2>1. faults = 0
    BY FaultNumbers
  <2>2. pc'[s] = "poll"
    BY DEF TypeOK
  <2>3. CASE row[t] = "PENDING"
    BY <1>3, <2>1, <2>3 DEF PendingHasOwner, Tracking
  <2>4. CASE t = TxOf[s]
    BY <2>2, <2>4 DEF Tracking
  <2> QED
    BY <1>5, <2>3, <2>4
<1> QED
  BY <1>2, <1>4, <1>6, <1>7

\* The labels that one step of a call moves it between.
Moves(s, from, to) == pc[s] = from /\ pc' = [pc EXCEPT ![s] = to]

\* pollForConfirmation and the timeouts write nothing but the call's own state.
LEMMA LocalInv ==
  ASSUME IInv, NEW s \in Sub,
         \/ submitContractCall(s) \/ pollForConfirmation(s) \/ pollTimesOut(s)
         \/ waitForLedgerDepth(s) \/ depthTimesOut(s)
  PROVE  IInv'
<1> USE SubmissionAssumption DEF IInv
<1>1. UNCHANGED <<head, top, queue, inc, dropped, reorgs, row, attempts, verdict, faults>>
  BY DEF submitContractCall, pollForConfirmation, pollTimesOut, waitForLedgerDepth,
         depthTimesOut, network
<1>2. \/ Moves(s, "new", "submit") /\ UNCHANGED <<seen, released>>
      \/ /\ Moves(s, "poll", "depth") /\ UNCHANGED released
         /\ Included(TxOf[s]) /\ inc[TxOf[s]].ok
         /\ \E ledger \in {inc[TxOf[s]].ledger, head} :
              seen' = [seen EXCEPT ![s] = ledger]
      \/ /\ Moves(s, "poll", "fail user") /\ UNCHANGED <<seen, released>>
         /\ Included(TxOf[s]) /\ ~ inc[TxOf[s]].ok
      \/ Moves(s, "poll", "fail transient") /\ UNCHANGED <<seen, released>>
      \/ Moves(s, "depth", "confirm") /\ UNCHANGED <<seen, released>>
      \/ /\ Moves(s, "depth", "confirm") /\ UNCHANGED seen
         /\ DeepEnough(head, seen[s])
         /\ released' = [released EXCEPT ![s] = TRUE]
  BY DEF submitContractCall, pollForConfirmation, pollTimesOut, waitForLedgerDepth,
         depthTimesOut, Goto, Moves
<1>3. TypeOK'
  <2>1. inc[TxOf[s]].ledger \in Ledger /\ head \in Ledger
    BY DEF TypeOK
  <2>2. seen' \in [Sub -> Ledger]
    BY <1>2, <2>1 DEF TypeOK
  <2>3. released' \in [Sub -> BOOLEAN]
    BY <1>2 DEF TypeOK
  <2>4. pc' \in [Sub -> {"new", "submit", "track", "poll", "depth", "confirm",
                         "fail user", "fail transient", "done", "lost"}]
    BY <1>2 DEF TypeOK, Moves
  <2> QED
    BY <1>1, <2>2, <2>3, <2>4 DEF TypeOK
<1>4. \A u \in Sub : pc'[u] = pc[u]
        \/ (u = s /\ pc[s] = "new" /\ pc'[s] = "submit")
        \/ (u = s /\ pc[s] \in Tracking /\ pc'[s] \in Tracking)
  BY <1>2 DEF TypeOK, Moves, Tracking
<1>5. AttemptsLeft' /\ NetworkSound' /\ RowTruthful'
  <2>1. AttemptsLeft'
    BY <1>1, <1>4 DEF AttemptsLeft, Tracking
  <2> QED
    BY <1>1, <2>1 DEF NetworkSound, RowTruthful, Included
<1>6. PendingHasOwner'
  <2>1. \A u \in Sub : pc[u] \in Tracking => pc'[u] \in Tracking
    BY <1>4 DEF Tracking
  <2> QED
    BY <1>1, <2>1 DEF PendingHasOwner
<1>7. PollStillHolds'
  <2> SUFFICES ASSUME NEW u \in Sub, TxOf[u] \notin dropped
               PROVE  /\ pc'[u] \in {"depth", "confirm"} =>
                           /\ Included(TxOf[u]) /\ inc[TxOf[u]].ok
                           /\ seen'[u] >= inc[TxOf[u]].ledger
                      /\ pc'[u] = "fail user" => Included(TxOf[u]) /\ ~ inc[TxOf[u]].ok
    BY <1>1 DEF PollStillHolds, Included
  <2>1. CASE pc'[u] = pc[u] /\ seen'[u] = seen[u]
    BY <2>1 DEF PollStillHolds
  <2>2. CASE u = s /\ pc[s] = "poll" /\ pc'[s] = "depth"
    <3>1. PICK ledger \in {inc[TxOf[s]].ledger, head} :
            seen' = [seen EXCEPT ![s] = ledger]
      BY <1>2, <2>2 DEF TypeOK, Moves
    <3>2. Included(TxOf[s]) /\ inc[TxOf[s]].ok
      BY <1>2, <2>2 DEF TypeOK, Moves
    <3>3. TxOf[s] \in Tx /\ inc[TxOf[s]].ledger <= head
      BY DEF NetworkSound
    <3>4. ledger >= inc[TxOf[s]].ledger
      BY <3>3, LedgerNumbers
    <3>5. seen'[s] = ledger
      BY <3>1 DEF TypeOK
    <3> QED
      BY <2>2, <3>2, <3>4, <3>5
  <2>3. CASE u = s /\ pc[s] = "poll" /\ pc'[s] = "fail user"
    BY <1>2, <2>3 DEF TypeOK, Moves
  <2>4. CASE u = s /\ pc[s] = "depth" /\ pc'[s] = "confirm" /\ seen' = seen
    BY <2>4 DEF PollStillHolds
  <2>5. CASE u = s /\ pc'[s] \in {"submit", "fail transient"}
    BY <2>5
  <2>6. \/ pc'[u] = pc[u] /\ seen'[u] = seen[u]
        \/ u = s /\ pc[s] = "poll" /\ pc'[s] \in {"depth", "fail user"}
        \/ u = s /\ pc[s] = "depth" /\ pc'[s] = "confirm" /\ seen' = seen
        \/ u = s /\ pc'[s] \in {"submit", "fail transient"}
    BY <1>2 DEF TypeOK, Moves
  <2> QED
    BY <2>1, <2>2, <2>3, <2>4, <2>5, <2>6
<1>8. ReleasedIsDeep'
  <2> SUFFICES ASSUME NEW u \in Sub, released'[u], TxOf[u] \notin dropped
               PROVE  /\ Included(TxOf[u]) /\ inc[TxOf[u]].ok
                      /\ top - inc[TxOf[u]].ledger >= Depth
    BY <1>1 DEF ReleasedIsDeep, Included
  <2>1. CASE released[u]
    BY <2>1 DEF ReleasedIsDeep
  <2>2. CASE u = s /\ pc[s] = "depth" /\ DeepEnough(head, seen[s])
    <3>1. Included(TxOf[s]) /\ inc[TxOf[s]].ok /\ seen[s] >= inc[TxOf[s]].ledger
      BY <2>2 DEF PollStillHolds
    <3>2. TxOf[s] \in Tx /\ seen[s] \in 0..MaxHead
      BY DEF TypeOK, Ledger
    <3>3. head - inc[TxOf[s]].ledger >= Depth
      BY <2>2, <3>1, <3>2, LedgerNumbers DEF DeepEnough
    <3>4. top - inc[TxOf[s]].ledger >= Depth
      BY <3>2, <3>3, LedgerNumbers
    <3> QED
      BY <2>2, <3>1, <3>4
  <2>3. released[u] \/ (u = s /\ pc[s] = "depth" /\ DeepEnough(head, seen[s]))
    BY <1>2 DEF TypeOK, Moves
  <2> QED
    BY <2>1, <2>2, <2>3
<1> QED
  BY <1>3, <1>5, <1>6, <1>7, <1>8

\* What the update that ends a call may write, and what it knows by then.
LEMMA ResolveCases ==
  ASSUME NEW s \in Sub, persistConfirmed(s) \/ persistFailed(s)
  PROVE  \E status \in Terminal :
           /\ Resolve(s, status)
           /\ status = "CONFIRMED" => pc[s] = "confirm"
           /\ status = "FAILED user" => pc[s] = "fail user"
           /\ pc[s] \in {"confirm", "fail user", "fail transient"}
  BY DEF persistConfirmed, persistFailed, Terminal

\* Writing the verdict of a call that has one.
LEMMA ResolveInv ==
  ASSUME IInv, NEW s \in Sub, persistConfirmed(s) \/ persistFailed(s)
  PROVE  IInv'
<1> USE SubmissionAssumption DEF IInv
<1>1. PICK status \in Terminal :
        /\ Resolve(s, status)
        /\ status = "CONFIRMED" => pc[s] = "confirm"
        /\ status = "FAILED user" => pc[s] = "fail user"
        /\ pc[s] \in {"confirm", "fail user", "fail transient"}
  BY ResolveCases
<1> DEFINE Written == [row EXCEPT ![TxOf[s]] = IF @ = "none" THEN @ ELSE status]
<1>2. /\ \/ row' = Written /\ faults' = faults
         \/ row' = row /\ faults < MaxFault /\ faults' = faults + 1
      /\ verdict' = [verdict EXCEPT ![s] = status]
      /\ pc' = [pc EXCEPT ![s] = "done"]
      /\ UNCHANGED <<head, top, queue, inc, dropped, reorgs, attempts, seen, released>>
  BY <1>1, Zenon DEF Resolve, Goto, network
<1>3. /\ faults' \in 0..MaxFault
      /\ faults' = 0 => faults = 0 /\ row' = Written
  <2>1. faults \in 0..MaxFault
    BY DEF TypeOK
  <2> HIDE DEF Written
  <2> QED
    BY <1>2, <2>1
<1>4. row' \in [Tx -> {"none", "PENDING"} \cup Terminal]
  BY <1>2 DEF TypeOK
<1>5. TypeOK'
  BY <1>2, <1>3, <1>4 DEF TypeOK
<1>6. \A u \in Sub : pc'[u] = pc[u] \/ (u = s /\ pc'[u] = "done")
  BY <1>2 DEF TypeOK
<1>7. AttemptsLeft' /\ NetworkSound' /\ PollStillHolds' /\ ReleasedIsDeep'
  BY <1>2, <1>6 DEF AttemptsLeft, NetworkSound, PollStillHolds, ReleasedIsDeep, Included
<1>8. \A t \in Tx : row'[t] = row[t] \/ (t = TxOf[s] /\ row'[t] = status)
  BY <1>2 DEF TypeOK
<1>9. RowTruthful'
  <2>1. /\ status = "CONFIRMED" /\ TxOf[s] \notin dropped =>
             Included(TxOf[s]) /\ inc[TxOf[s]].ok
        /\ status = "FAILED user" /\ TxOf[s] \notin dropped =>
             Included(TxOf[s]) /\ ~ inc[TxOf[s]].ok
    BY <1>1 DEF PollStillHolds
  <2> QED
    BY <1>2, <1>8, <2>1 DEF RowTruthful, Included
<1>10. PendingHasOwner'
  <2> SUFFICES ASSUME NEW t \in Tx, row'[t] = "PENDING", faults' = 0
               PROVE  \E u \in Sub : TxOf[u] = t /\ pc'[u] \in Tracking
    BY DEF PendingHasOwner
  <2>1. /\ faults = 0
        /\ row' = [row EXCEPT ![TxOf[s]] = IF @ = "none" THEN @ ELSE status]
    BY <1>3
  <2>2. row[t] = "PENDING" /\ t # TxOf[s]
    BY <2>1 DEF TypeOK, Terminal
  <2> QED
    BY <1>6, <2>1, <2>2 DEF PendingHasOwner
<1> QED
  BY <1>5, <1>7, <1>9, <1>10

\* A crash is a fault: the row it leaves PENDING needs no owner.
LEMMA CrashInv == IInv /\ crash => IInv'
<1> SUFFICES ASSUME IInv, crash PROVE IInv'
  OBVIOUS
<1> USE SubmissionAssumption DEF IInv
<1>1. /\ pc' = [s \in Sub |-> IF pc[s] \in {"new", "done"} THEN pc[s] ELSE "lost"]
      /\ UNCHANGED <<head, top, queue, inc, dropped, reorgs, row, attempts, seen,
                     released, verdict>>
      /\ faults < MaxFault /\ faults' = faults + 1
  BY DEF crash, network
<1>2. faults' \in 0..MaxFault /\ faults' # 0
  <2>1. faults \in 0..MaxFault
    BY DEF TypeOK
  <2> QED
    BY <1>1, <2>1
<1>3. TypeOK'
  BY <1>1, <1>2 DEF TypeOK
<1>4. AttemptsLeft' /\ NetworkSound' /\ PollStillHolds'
  BY <1>1 DEF AttemptsLeft, NetworkSound, PollStillHolds, Included
<1>5. RowTruthful' /\ ReleasedIsDeep' /\ PendingHasOwner'
  BY <1>1, <1>2 DEF RowTruthful, ReleasedIsDeep, PendingHasOwner, Included
<1> QED
  BY <1>3, <1>4, <1>5

\* Every step preserves the invariant ...
LEMMA StepInv == IInv /\ [Next]_vars => IInv'
<1> SUFFICES ASSUME IInv, [Next]_vars PROVE IInv'
  OBVIOUS
<1>1. CASE UNCHANGED vars
  <2>1. TypeOK' /\ AttemptsLeft' /\ NetworkSound' /\ PollStillHolds'
    BY <1>1 DEF IInv, vars, TypeOK, AttemptsLeft, NetworkSound, PollStillHolds,
                Included
  <2>2. RowTruthful' /\ ReleasedIsDeep' /\ PendingHasOwner'
    BY <1>1 DEF IInv, vars, RowTruthful, ReleasedIsDeep, PendingHasOwner, Included
  <2> QED
    BY <2>1, <2>2 DEF IInv
<1>2. ASSUME NEW s \in Sub, submitContractCall(s) \/ Step(s) PROVE IInv'
  BY <1>2, AttemptInv, RecordPendingInv, LocalInv, ResolveInv, Zenon DEF Step
<1> QED
  BY <1>1, <1>2, CloseLedgerInv, ReorgInv, CrashInv DEF Next

\* ... and so every behaviour has it.
LEMMA Inductive == Spec => []IInv
  BY InitInv, StepInv, PTL DEF Spec

\* Network, calls and tracking rows keep their types; in particular no call
\* makes more than SOROBAN_SUBMIT_MAX_ATTEMPTS attempts.
THEOREM TypeCorrect == Spec => []TypeOK
<1>1. IInv => TypeOK
  BY DEF IInv
<1> QED
  BY <1>1, Inductive, PTL

\* The tracking row never contradicts the chain outside of reorgs.
THEOREM TruthfulRow == Spec => []RowTruthful
<1>1. IInv => RowTruthful
  BY DEF IInv
<1> QED
  BY <1>1, Inductive, PTL

\* What the depth gate released is too deep to be reorganised away.
THEOREM DeepRelease == Spec => []ReleasedIsDeep
<1>1. IInv => ReleasedIsDeep
  BY DEF IInv
<1> QED
  BY <1>1, Inductive, PTL

\* Without a failed write or a crash, every PENDING row has a call at work.
THEOREM PendingOwned == Spec => []PendingHasOwner
<1>1. IInv => PendingHasOwner
  BY DEF IInv
<1> QED
  BY <1>1, Inductive, PTL

\* A resolved row is never reopened, nor turned into the opposite verdict.
THEOREM StableVerdict == Spec => VerdictStays
<1> DEFINE Stays ==
      \A t \in Tx : row[t] \in Terminal =>
        /\ row'[t] \in Terminal
        /\ t \notin dropped =>
             /\ row[t] = "CONFIRMED" => row'[t] # "FAILED user"
             /\ row[t] = "FAILED user" => row'[t] # "CONFIRMED"
<1>1. IInv /\ [Next]_vars => [Stays]_vars
  <2> SUFFICES ASSUME IInv, Next, NEW t \in Tx, row[t] \in Terminal
               PROVE  /\ row'[t] \in Terminal
                      /\ t \notin dropped =>
                           /\ row[t] = "CONFIRMED" => row'[t] # "FAILED user"
                           /\ row[t] = "FAILED user" => row'[t] # "CONFIRMED"
    BY DEF vars
  <2>1. CASE row' = row
    BY <2>1 DEF Terminal
  <2>2. ASSUME NEW s \in Sub, recordPending(s)
        PROVE  row'[t] = row[t]
    BY <2>2, SubmissionAssumption DEF recordPending, IInv, TypeOK, Terminal
  <2>3. ASSUME NEW s \in Sub, persistConfirmed(s) \/ persistFailed(s)
        PROVE  /\ row'[t] \in Terminal
               /\ t \notin dropped =>
                    /\ row[t] = "CONFIRMED" => row'[t] # "FAILED user"
                    /\ row[t] = "FAILED user" => row'[t] # "CONFIRMED"
    <3>1. PICK status \in Terminal :
            /\ Resolve(s, status)
            /\ status = "CONFIRMED" => pc[s] = "confirm"
            /\ status = "FAILED user" => pc[s] = "fail user"
            /\ pc[s] \in {"confirm", "fail user", "fail transient"}
      BY <2>3, ResolveCases
    <3>2. row'[t] = row[t] \/ (t = TxOf[s] /\ row'[t] = status)
      BY <3>1 DEF Resolve, IInv, TypeOK
    <3>3. t = TxOf[s] /\ t \notin dropped =>
            /\ status = "CONFIRMED" => inc[t].ok
            /\ status = "FAILED user" => ~ inc[t].ok
      BY <3>1 DEF IInv, PollStillHolds
    <3>4. t \notin dropped =>
            /\ row[t] = "CONFIRMED" => inc[t].ok
            /\ row[t] = "FAILED user" => ~ inc[t].ok
      BY DEF IInv, RowTruthful
    <3> QED
      BY <3>1, <3>2, <3>3, <3>4 DEF Terminal
  <2>4. \/ row' = row
        \/ \E s \in Sub : recordPending(s) \/ persistConfirmed(s) \/ persistFailed(s)
    BY DEF Next, CloseLedger, Reorg, crash, Step, submitContractCall, submitOnce,
           submitTransient, submitUserError, pollForConfirmation, pollTimesOut,
           waitForLedgerDepth, depthTimesOut
  <2> QED
    BY <2>1, <2>2, <2>3, <2>4 DEF Terminal
<1> QED
  BY <1>1, Inductive, PTL DEF Spec, VerdictStays
=============================================================================
