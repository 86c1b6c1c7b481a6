--------------------------- MODULE ServicesProofs ---------------------------
(* Safety of the services for every set of wallets, requests, evaluations    *)
(* and operations, every threshold and every number of faults.               *)
EXTENDS Services, SetSums

\* A step of the server is a step of each service, or leaves it alone.
LEMMA ServiceSteps ==
  ASSUME [Next]_vars
  PROVE  /\ [PositionsNext]_positionVars /\ [MultisigNext]_multisigVars
         /\ [AutoInvestNext]_investVars /\ [ExportJobsNext]_jobVars
         /\ [MerkleNext]_merkleVars
BY DEF Next, vars, Positions, AdminMultisig, Invest, Exports, Merkle

-----------------------------------------------------------------------------
(* Admin multisig *)

\* What a request has read is part of what is stored, and its own signature
\* is not among it: it can only undercount.
ReadsAreStored ==
  \A b \in Ballot : ballotPc[b] = "write" =>
    /\ ballotRead[b] \subseteq signatures
    /\ b \notin Rejections => SignerOf[b] \notin ballotRead[b]

\* Before the proposal exists nothing has happened.
NothingBeforeProposal ==
  proposal = "none" => /\ signatures = {} /\ ~executed /\ ~rejected
                       /\ \A b \in Ballot : ballotPc[b] # "write"

\* One request at a time has read what is stored, and the proposal is pending
\* while one is in progress.
OneAtATime ==
  ~raced => /\ \A b, c \in Ballot : ballotPc[b] = "write" /\ ballotPc[c] = "write" => b = c
            /\ \A b \in Ballot : ballotPc[b] = "write" =>
                 ballotRead[b] = signatures /\ proposal = "pending"
            /\ proposal = "pending" => ~executed /\ ~rejected

MultisigInv ==
  /\ MultisigTypeOK /\ ReadsAreStored /\ NothingBeforeProposal /\ OneAtATime
  /\ ExecutedByThreshold

\* Sets of signers have a size, and one more signer counts.
LEMMA SignerCount ==
  ASSUME NEW s \in SUBSET Signer
  PROVE  /\ IsFiniteSet(s) /\ Cardinality(s) \in Nat
         /\ \A t \in SUBSET s : Cardinality(t) <= Cardinality(s)
         /\ \A x \in Signer \ s : Cardinality(s \cup {x}) = Cardinality(s) + 1
<1>1. IsFiniteSet(s)
  BY MultisigAssumption, FS_Subset
<1>2. \A t \in SUBSET s : Cardinality(t) <= Cardinality(s)
  BY <1>1, FS_Subset
<1>3. \A x \in Signer \ s : Cardinality(s \cup {x}) = Cardinality(s) + 1
  BY <1>1, FS_AddElement
<1> QED BY <1>1, <1>2, <1>3, FS_CardinalityType

\* The threshold is a positive number.
LEMMA ThresholdType == Threshold \in Nat /\ Threshold >= 1
<1>1. Cardinality(Signer) \in Nat
  BY MultisigAssumption, FS_CardinalityType
<1> QED BY <1>1, MultisigAssumption

\* The invariant of the multisig holds initially ...
LEMMA MultisigInitInv == MultisigInit => MultisigInv
<1> SUFFICES ASSUME MultisigInit PROVE MultisigInv
  OBVIOUS
<1>1. MultisigTypeOK
  <2>1. ballotRead \in [Ballot -> SUBSET Signer]
    BY {} \in SUBSET Signer DEF MultisigInit
  <2>2. signatures \subseteq Signer
    BY DEF MultisigInit
  <2>3. rollbacks \in 0..MaxRollbacks
    BY MultisigAssumption DEF MultisigInit
  <2>4. ballotPc \in [Ballot -> {"idle", "write", "done"}]
    BY DEF MultisigInit
  <2> QED BY <2>1, <2>2, <2>3, <2>4 DEF MultisigInit, MultisigTypeOK
<1>2. ReadsAreStored /\ NothingBeforeProposal /\ OneAtATime
  BY DEF MultisigInit, ReadsAreStored, NothingBeforeProposal, OneAtATime
<1>3. ExecutedByThreshold
  BY DEF MultisigInit, ExecutedByThreshold
<1> QED BY <1>1, <1>2, <1>3 DEF MultisigInv

\* ... and every step of it preserves it.
LEMMA MultisigStepInv ==
  ASSUME MultisigInv, [MultisigNext]_multisigVars PROVE MultisigInv'
<1> USE MultisigAssumption
    DEF MultisigInv, MultisigTypeOK, ReadsAreStored, NothingBeforeProposal,
        OneAtATime, ExecutedByThreshold
<1>0. Threshold \in Nat /\ Threshold >= 1
  BY ThresholdType
<1>1. CASE createMultisigProposal
  <2>1. Cardinality(signatures) < Threshold
    BY <1>0, <1>1, FS_EmptySet DEF createMultisigProposal
  <2> QED BY <1>1, <2>1 DEF createMultisigProposal
<1>2. ASSUME NEW b \in Ballot, BallotRead(b) PROVE MultisigInv'
  <2>1. MultisigTypeOK'
    BY <1>2 DEF BallotRead
  <2>2. ReadsAreStored' /\ NothingBeforeProposal'
    BY <1>2 DEF BallotRead
  <2>3. OneAtATime'
    BY <1>2 DEF BallotRead
  <2>4. ExecutedByThreshold'
    BY <1>2 DEF BallotRead
  <2> QED BY <2>1, <2>2, <2>3, <2>4
<1>3. ASSUME NEW b \in Ballot, signMultisigProposal(b) PROVE MultisigInv'
  <2>1. SignerOf[b] \in Signer /\ ballotRead[b] \in SUBSET signatures
        /\ signatures \in SUBSET Signer /\ signatures' \in SUBSET Signer
    BY <1>3 DEF signMultisigProposal
  <2>2. /\ Cardinality(ballotRead[b]) <= Cardinality(signatures)
        /\ Cardinality(signatures) \in Nat /\ Cardinality(ballotRead[b]) \in Nat
    BY <2>1, SignerCount
  <2>3. CASE SignerOf[b] \in signatures
    BY <1>3, <2>3 DEF signMultisigProposal
  <2>4. CASE SignerOf[b] \notin signatures
    <3>1. Cardinality(signatures') = Cardinality(signatures) + 1
          /\ signatures' = signatures \cup {SignerOf[b]}
      BY <1>3, <2>1, <2>4, SignerCount DEF signMultisigProposal
    <3>2. MultisigTypeOK' /\ ReadsAreStored' /\ NothingBeforeProposal' /\ OneAtATime'
      BY <1>3, <2>1, <2>4, <3>1 DEF signMultisigProposal
    <3>3. ExecutedByThreshold'
      BY <1>0, <1>3, <2>1, <2>2, <2>4, <3>1 DEF signMultisigProposal, approvalCount
    <3> QED BY <3>2, <3>3
  <2> QED BY <2>3, <2>4
<1>4. ASSUME NEW b \in Ballot, rejectMultisigProposal(b) PROVE MultisigInv'
  BY <1>4 DEF rejectMultisigProposal
<1>5. ASSUME NEW b \in Ballot, BallotFails(b) PROVE MultisigInv'
  BY <1>5 DEF BallotFails
<1>6. CASE UNCHANGED multisigVars
  BY <1>6 DEF multisigVars
<1> QED BY <1>1, <1>2, <1>3, <1>4, <1>5, <1>6 DEF MultisigNext

\* signMultisigProposal counts from the signatures its transaction has read.
\* However the requests of the admins overlap, fail and are retried, a
\* proposal is executed only on the signatures of Threshold different admins;
\* and when they do not overlap it is executed exactly then, and never both
\* executed and rejected.
THEOREM MultisigSafe == Spec => []ExecutedByThreshold
<1>1. Init => MultisigInv
  BY MultisigInitInv DEF Init
<1>2. MultisigInv /\ [Next]_vars => MultisigInv'
  BY MultisigStepInv, ServiceSteps
<1>3. MultisigInv => ExecutedByThreshold
  BY DEF MultisigInv
<1> QED BY <1>1, <1>2, <1>3, PTL DEF Spec

-----------------------------------------------------------------------------
(* Auto-invest *)

\* An evaluation that has claimed the execution row.
Claimed(v) == evalPc[v] \in {"balance", "skip", "buy", "record", "fail"}

\* Only one evaluation ever holds the claim; while it does, the row is still
\* PENDING and nothing was bought before the purchase itself.
OneClaim ==
  /\ \A v, w \in Evaluation : Claimed(v) /\ Claimed(w) => v = w
  /\ \A v \in Evaluation :
       /\ Claimed(v) => execution = "PENDING"
       /\ evalPc[v] \in {"balance", "skip", "buy"} => purchases = 0
       /\ evalPc[v] = "record" => purchases = 1
  /\ execution = "none" => purchases = 0

InvestInv == AutoInvestTypeOK /\ OneClaim /\ OneBuyPerListing

\* The invariant of auto-invest holds initially ...
LEMMA InvestInitInv == AutoInvestInit => InvestInv
BY AutoInvestAssumption
   DEF AutoInvestInit, InvestInv, AutoInvestTypeOK, OneClaim, OneBuyPerListing, Claimed

\* ... and every step of it preserves it.
LEMMA InvestStepInv ==
  ASSUME InvestInv, [AutoInvestNext]_investVars PROVE InvestInv'
<1> USE AutoInvestAssumption
    DEF InvestInv, AutoInvestTypeOK, OneClaim, OneBuyPerListing, Claimed, Move,
        Report, Fault
<1>1. ASSUME NEW r \in {"active", "inactive", "deleted"}, updateAutoInvestRule(r)
      PROVE InvestInv'
  BY <1>1 DEF updateAutoInvestRule
<1>2. ASSUME NEW v \in Evaluation, evaluateListing(v) PROVE InvestInv'
  BY <1>2 DEF evaluateListing
<1>3. ASSUME NEW v \in Evaluation, CreateExecution(v) PROVE InvestInv'
  BY <1>3 DEF CreateExecution
<1>4. ASSUME NEW v \in Evaluation, CheckBalance(v) PROVE InvestInv'
  BY <1>4 DEF CheckBalance
<1>5. ASSUME NEW v \in Evaluation, SkipExecution(v) PROVE InvestInv'
  BY <1>5 DEF SkipExecution
<1>6. ASSUME NEW v \in Evaluation, submitBuy(v) PROVE InvestInv'
  BY <1>6 DEF submitBuy
<1>7. ASSUME NEW v \in Evaluation, RecordExecuted(v) PROVE InvestInv'
  BY <1>7 DEF RecordExecuted
<1>8. ASSUME NEW v \in Evaluation, RecordFailed(v) PROVE InvestInv'
  BY <1>8 DEF RecordFailed
<1>9. ASSUME NEW v \in Evaluation, EvaluationCrash(v) PROVE InvestInv'
  BY <1>9 DEF EvaluationCrash
<1>10. CASE UNCHANGED investVars
  BY <1>10 DEF investVars
<1> QED BY <1>1, <1>2, <1>3, <1>4, <1>5, <1>6, <1>7, <1>8, <1>9, <1>10
        DEF AutoInvestNext

\* evaluateListing claims the unique execution row before it buys.  Over any
\* number of evaluations, crashes, failed statements and lost answers of the
\* buy gateway, a rule buys a listing at most once, an EXECUTED row is backed
\* by a purchase and a SKIPPED one by none.
THEOREM InvestSafe == Spec => []OneBuyPerListing
<1>1. Init => InvestInv
  BY InvestInitInv DEF Init
<1>2. InvestInv /\ [Next]_vars => InvestInv'
  BY InvestStepInv, ServiceSteps
<1>3. InvestInv => OneBuyPerListing
  BY DEF InvestInv
<1> QED BY <1>1, <1>2, <1>3, PTL DEF Spec

-----------------------------------------------------------------------------
(* Key positions *)

\* What an operation in progress has still to add to its holder's balance.
Due(o) ==
  IF Is(o, "bought", "tx") \/ Is(o, "payment", "credit") THEN QtyOf[o]
  ELSE IF KindOf[o] = "sold" /\ opPc[o] \in {"tx", "write", "fallback"}
  THEN -QtyOf[o] ELSE 0

Trading(o) == KindOf[o] \in {"bought", "sold"} /\ InProgress(o)

\* A holder who never had two operations at once has at most one: nothing is
\* missing from his balance but what it is about to add, it has read what is
\* stored, and the order it is to settle is still open.
HolderAlone ==
  opFaults = 0 => \A h \in Holder \ busyTwice :
    /\ \A o, p \in Op : HolderOf[o] = h /\ InProgress(o)
                        /\ HolderOf[p] = h /\ InProgress(p) => o = p
    /\ ~At(h) => balance[h] = earned[h]
    /\ \A o \in Op : HolderOf[o] = h /\ InProgress(o) =>
         /\ earned[h] = balance[h] + Due(o)
         /\ opPc[o] = "write" => opRead[o].balance = balance[h]
         /\ Is(o, "payment", "tx") => OrderOf[o] \notin settled

\* One operation at a time: it has read what is stored, and until the indexer
\* has written no balance is negative.
OpsAlone ==
  ~crowded =>
    /\ busyTwice = {}
    /\ \A o, p \in Op : InProgress(o) /\ InProgress(p) => o = p
    /\ \A o \in Op :
         /\ opPc[o] = "write" => /\ opRead[o].supply = supply
                                 /\ opRead[o].balance = balance[HolderOf[o]]
         /\ opPc[o] = "persist" => opRead[o].supply = traded
         /\ Is(o, "sell", "write") => balance[HolderOf[o]] >= QtyOf[o]
    /\ ~indexed => \A h \in Holder : balance[h] >= 0

\* The supply is the sum of the balances, and so is the sum of the trades as
\* long as the API has written none, except for what the indexer's operation
\* in progress has still to write.
SupplyIsSum ==
  (opFaults = 0 /\ ~crowded /\ ~(apiUsed /\ indexed) /\ settled = {}) =>
    /\ (\A o \in Op : ~Trading(o)) => supply = SumOver(balance, Holder)
    /\ ~apiUsed => /\ (\A o \in Op : ~Trading(o)) => traded = SumOver(balance, Holder)
                   /\ \A o \in Op : Trading(o) => traded = SumOver(balance, Holder) + Due(o)

\* Where an operation of each kind can be, and what it has left behind.
LabelsOK ==
  \A o \in Op :
    /\ opPc[o] = "tx" => KindOf[o] # "buyback"
    /\ opPc[o] = "write" => KindOf[o] \in {"sell", "buyback", "sold"}
    /\ opPc[o] = "fallback" => KindOf[o] = "sold"
    /\ opPc[o] = "credit" => KindOf[o] = "payment" /\ settled # {}
    /\ opPc[o] \in {"supply", "persist"} => KindOf[o] \in {"bought", "sold"}
    /\ Trading(o) => indexed

PositionsInv ==
  /\ PositionsTypeOK /\ LabelsOK /\ HolderAlone /\ OpsAlone /\ SupplyIsSum

\* What an operation is, and that the sum of the balances is a number.
LEMMA OpFacts ==
  ASSUME PositionsTypeOK, NEW o \in Op
  PROVE  /\ HolderOf[o] \in Holder /\ KindOf[o] \in Kinds
         /\ QtyOf[o] \in Nat /\ QtyOf[o] > 0
         /\ balance[HolderOf[o]] \in Int /\ earned[HolderOf[o]] \in Int
         /\ opRead[o].balance \in Int /\ opRead[o].supply \in Int
         /\ Due(o) \in Int /\ SumOver(balance, Holder) \in Int
<1>1. /\ HolderOf[o] \in Holder /\ KindOf[o] \in Kinds
      /\ QtyOf[o] \in Nat /\ QtyOf[o] > 0
  BY KeyPositionsAssumption
<1>2. SumOver(balance, Holder) \in Int
  BY KeyPositionsAssumption, SumType DEF PositionsTypeOK
<1>3. Due(o) \in Int
  BY <1>1 DEF Due
<1>4. /\ balance[HolderOf[o]] \in Int /\ earned[HolderOf[o]] \in Int
      /\ opRead[o].balance \in Int /\ opRead[o].supply \in Int
  BY <1>1 DEF PositionsTypeOK
<1> QED BY <1>1, <1>2, <1>3, <1>4

\* A balance written, and how the sum changes with it.
Wrote(o, b) ==
  /\ balance' \in [Holder -> Int] /\ balance'[HolderOf[o]] = b
  /\ \A h \in Holder \ {HolderOf[o]} : balance'[h] = balance[h]
  /\ SumOver(balance', Holder) = SumOver(balance, Holder) + (b - balance[HolderOf[o]])

\* Setting a balance changes one position and nothing else.
LEMMA SetBalanceFacts ==
  ASSUME PositionsTypeOK, NEW o \in Op, NEW b \in Int, SetBalance(o, b)
  PROVE  Wrote(o, b)
<1>1. HolderOf[o] \in Holder /\ IsFiniteSet(Holder)
  BY KeyPositionsAssumption
<1>2. /\ balance' \in [Holder -> Int] /\ balance'[HolderOf[o]] = b
      /\ \A h \in Holder \ {HolderOf[o]} : balance'[h] = balance[h]
  BY <1>1 DEF PositionsTypeOK, SetBalance
<1>3. SumOver(balance', Holder) = SumOver(balance, Holder) + (b - balance[HolderOf[o]])
  <2>1. balance \in [Holder -> Int]
    BY DEF PositionsTypeOK
  <2>2. SumOver([balance EXCEPT ![HolderOf[o]] = b], Holder)
          = SumOver(balance, Holder) + (b - balance[HolderOf[o]])
    BY <1>1, <2>1, SumExcept, Zenon
  <2> QED BY <2>2, Zenon DEF SetBalance
<1> QED BY <1>2, <1>3 DEF Wrote

\* What a holder is owed, and what a transaction has read.
EarnedBy(o, q) ==
  /\ earned' \in [Holder -> Int] /\ earned'[HolderOf[o]] = earned[HolderOf[o]] + q
  /\ \A h \in Holder \ {HolderOf[o]} : earned'[h] = earned[h]

\* A writer books what its holder is owed.
LEMMA EarnsFacts ==
  ASSUME PositionsTypeOK, NEW o \in Op, NEW q \in Int, Earns(o, q)
  PROVE  EarnedBy(o, q)
<1>1. HolderOf[o] \in Holder
  BY KeyPositionsAssumption
<1> QED BY <1>1 DEF PositionsTypeOK, Earns, EarnedBy

HasRead(o, s) ==
  /\ opRead' \in [Op -> [balance : Int, supply : Int]]
  /\ opRead'[o].supply = s
  /\ \A r \in Op \ {o} : opRead'[r] = opRead[r]

\* A transaction reads the supply and the balance of its holder.
LEMMA ReadFacts ==
  ASSUME PositionsTypeOK, NEW o \in Op, ReadPosition(o)
  PROVE  HasRead(o, supply) /\ opRead'[o].balance = balance[HolderOf[o]]
<1>1. /\ balance[HolderOf[o]] \in Int /\ supply \in Int
      /\ opRead \in [Op -> [balance : Int, supply : Int]]
  BY OpFacts DEF PositionsTypeOK
<1> QED BY <1>1 DEF ReadPosition, HasRead

\* What an operation that begins remembers of the others.
Began(o, label) ==
  /\ opPc' = [opPc EXCEPT ![o] = label]
  /\ busyTwice' \subseteq Holder /\ crowded' \in BOOLEAN
  /\ ~crowded' => /\ ~crowded /\ busyTwice' = busyTwice
                  /\ \A p \in Op : ~InProgress(p)
  /\ busyTwice \subseteq busyTwice'
  /\ \A h \in Holder \ {HolderOf[o]} : h \in busyTwice' => h \in busyTwice
  /\ HolderOf[o] \notin busyTwice' =>
       \A p \in Op : HolderOf[p] = HolderOf[o] => ~InProgress(p)

\* An operation begins and notices the others that are in progress.
LEMMA BeginFacts ==
  ASSUME PositionsTypeOK, NEW o \in Op, NEW label, opPc[o] = "idle", Begin(o, label)
  PROVE  Began(o, label)
<1>1. HolderOf[o] \in Holder
  BY KeyPositionsAssumption
<1> QED BY <1>1 DEF Began, Begin, GoOn, InProgress, PositionsTypeOK

\* The larger of zero and a number.
LEMMA MaxFacts ==
  ASSUME NEW n \in Int
  PROVE  Max({0, n}) \in Int /\ (n >= 0 => Max({0, n}) = n)
<1>1. \E x \in {0, n} : \A y \in {0, n} : x >= y
  BY n >= 0 \/ n <= 0
<1>2. Max({0, n}) \in {0, n} /\ \A y \in {0, n} : Max({0, n}) >= y
  BY <1>1 DEF Max
<1> HIDE DEF Max
<1> QED BY <1>2

\* The invariant of the key positions holds initially ...
LEMMA PositionsInitInv == PositionsInit => PositionsInv
<1> SUFFICES ASSUME PositionsInit PROVE PositionsInv
  OBVIOUS
<1> USE KeyPositionsAssumption
<1>1. Cardinality(Holder) \in Nat
  BY FS_CardinalityType
<1>2. supply \in Int
  BY <1>1 DEF PositionsInit
<1>3. PositionsTypeOK
  <2>1. /\ balance \in [Holder -> Int] /\ frozen \in [Holder -> BOOLEAN]
        /\ earned \in [Holder -> Int] /\ opFaults \in 0..OpFaults
    BY DEF PositionsInit
  <2>2. opRead \in [Op -> [balance : Int, supply : Int]]
    BY DEF PositionsInit
  <2>3. settled \subseteq Order /\ busyTwice \subseteq Holder
    BY DEF PositionsInit
  <2> QED BY <1>2, <2>1, <2>2, <2>3 DEF PositionsInit, PositionsTypeOK
<1>4. SumOver(balance, Holder) = StartBalance * Cardinality(Holder)
  BY SumConstant DEF PositionsInit
<1>5. LabelsOK /\ OpsAlone
  BY DEF PositionsInit, LabelsOK, OpsAlone, Trading, InProgress, Is
<1>6. HolderAlone
  BY DEF PositionsInit, HolderAlone, InProgress, At
<1>7. SupplyIsSum
  BY <1>4 DEF PositionsInit, SupplyIsSum, Trading, InProgress
<1> QED BY <1>3, <1>5, <1>6, <1>7 DEF PositionsInv

\* ... and every step of them preserves it.
LEMMA PositionsStepInv ==
  ASSUME PositionsInv, [PositionsNext]_positionVars PROVE PositionsInv'
<1> USE DEF PositionsInv
<1>1. CASE deprecateKey
  BY <1>1 DEF deprecateKey, PositionsTypeOK, LabelsOK, HolderAlone, OpsAlone,
     SupplyIsSum, Trading, InProgress, Is, Due, At, opHistory
<1>2. ASSUME NEW h \in Holder, freezePosition(h) \/ unfreezePosition(h)
      PROVE  PositionsInv'
  <2>1. frozen' \in [Holder -> BOOLEAN]
    BY <1>2 DEF freezePosition, unfreezePosition, PositionsTypeOK
  <2> QED BY <1>2, <2>1 DEF freezePosition, unfreezePosition, PositionsTypeOK, LabelsOK,
     HolderAlone, OpsAlone, SupplyIsSum, Trading, InProgress, Is, Due, At, opHistory
<1>3. ASSUME NEW o \in Op, httpSellCreatorKey(o) PROVE PositionsInv'
  <2>2. /\ HolderOf[o] \in Holder /\ QtyOf[o] \in Nat /\ QtyOf[o] > 0
        /\ KindOf[o] \in Kinds /\ Due(o) \in Int
        /\ balance[HolderOf[o]] \in Int /\ earned[HolderOf[o]] \in Int
        /\ opRead[o].balance \in Int /\ opRead[o].supply \in Int
        /\ SumOver(balance, Holder) \in Int
    BY OpFacts
  <2>3. PICK l \in {"tx", "done"} : Begin(o, l) /\ Is(o, "sell", "idle")
    BY <1>3 DEF httpSellCreatorKey
  <2>4. Began(o, l)
    BY <2>3, BeginFacts DEF Is
  <2>5. /\ Is(o, "sell", "idle")
        /\ UNCHANGED <<balance, frozen, supply, traded, settled, deprecated,
                        opRead, earned, apiUsed, indexed, opFaults>>
    BY <1>3 DEF httpSellCreatorKey
  <2>6. PositionsTypeOK'
    BY <2>2, <2>3, <2>4, <2>5 DEF PositionsTypeOK, Began
  <2>7. LabelsOK'
    BY <2>2, <2>3, <2>4, <2>5
    DEF LabelsOK, Trading, InProgress, Is, PositionsTypeOK, Began
  <2>8. HolderAlone'
    BY <2>2, <2>3, <2>4, <2>5
    DEF HolderAlone, InProgress, Is, Due, At, PositionsTypeOK, Began
  <2>9. OpsAlone'
    BY <2>2, <2>3, <2>4, <2>5
    DEF OpsAlone, LabelsOK, Trading, InProgress, Is, PositionsTypeOK, Began
  <2>10. SupplyIsSum'
    BY <2>2, <2>3, <2>4, <2>5
    DEF SupplyIsSum, OpsAlone, LabelsOK, Trading, InProgress, Is, Due, PositionsTypeOK, Began
  <2> QED BY <2>6, <2>7, <2>8, <2>9, <2>10
<1>4. ASSUME NEW o \in Op, SellRead(o) PROVE PositionsInv'
  <2>2. /\ HolderOf[o] \in Holder /\ QtyOf[o] \in Nat /\ QtyOf[o] > 0
        /\ KindOf[o] \in Kinds /\ Due(o) \in Int
        /\ balance[HolderOf[o]] \in Int /\ earned[HolderOf[o]] \in Int
        /\ opRead[o].balance \in Int /\ opRead[o].supply \in Int
        /\ SumOver(balance, Holder) \in Int
    BY OpFacts
  <2>3. \/ opPc' = [opPc EXCEPT ![o] = "done"] /\ UNCHANGED opRead
        \/ /\ opPc' = [opPc EXCEPT ![o] = "write"] /\ balance[HolderOf[o]] >= QtyOf[o]
           /\ HasRead(o, supply) /\ opRead'[o].balance = balance[HolderOf[o]]
    BY <1>4, ReadFacts DEF SellRead, Refused, GoOn
  <2>4. /\ Is(o, "sell", "tx")
        /\ UNCHANGED <<balance, frozen, supply, traded, settled, deprecated,
                        earned, busyTwice, crowded, apiUsed, indexed, opFaults>>
    BY <1>4 DEF SellRead, Refused, opHistory, GoOn
  <2>5. PositionsTypeOK'
    BY <2>2, <2>3, <2>4 DEF PositionsTypeOK, HasRead
  <2>6. LabelsOK'
    BY <2>2, <2>3, <2>4
    DEF LabelsOK, Trading, InProgress, Is, PositionsTypeOK, HasRead
  <2>7. HolderAlone'
    <3>1. CASE opPc' = [opPc EXCEPT ![o] = "done"] /\ UNCHANGED opRead
      BY <2>2, <2>4, <3>1 DEF HolderAlone, InProgress, Is, Due, At, PositionsTypeOK
    <3>2. CASE /\ opPc' = [opPc EXCEPT ![o] = "write"]
               /\ HasRead(o, supply) /\ opRead'[o].balance = balance[HolderOf[o]]
      BY <2>2, <2>4, <3>2
      DEF HasRead, HolderAlone, InProgress, Is, Due, At, PositionsTypeOK
    <3> QED BY <2>3, <3>1, <3>2
  <2>8. OpsAlone'
    BY <2>2, <2>3, <2>4
    DEF OpsAlone, LabelsOK, Trading, InProgress, Is, PositionsTypeOK, HasRead
  <2>9. SupplyIsSum'
    BY <2>2, <2>3, <2>4
    DEF SupplyIsSum, OpsAlone, LabelsOK, Trading, InProgress, Is, Due, PositionsTypeOK, HasRead
  <2> QED BY <2>5, <2>6, <2>7, <2>8, <2>9
<1>5. ASSUME NEW o \in Op, SellCommit(o) PROVE PositionsInv'
  <2>2. /\ HolderOf[o] \in Holder /\ QtyOf[o] \in Nat /\ QtyOf[o] > 0
        /\ KindOf[o] \in Kinds /\ Due(o) \in Int
        /\ balance[HolderOf[o]] \in Int /\ earned[HolderOf[o]] \in Int
        /\ opRead[o].balance \in Int /\ opRead[o].supply \in Int
        /\ SumOver(balance, Holder) \in Int
    BY OpFacts
  <2>3. Wrote(o, opRead[o].balance - QtyOf[o])
    BY <1>5, <2>2, SetBalanceFacts DEF SellCommit
  <2>4. EarnedBy(o, -QtyOf[o])
    BY <1>5, <2>2, EarnsFacts DEF SellCommit
  <2>5. /\ Is(o, "sell", "write")
        /\ opPc' = [opPc EXCEPT ![o] = "done"]
        /\ supply' = opRead[o].supply - QtyOf[o] /\ apiUsed'
        /\ UNCHANGED <<frozen, traded, settled, deprecated, opRead, busyTwice,
                        crowded, indexed, opFaults>>
    BY <1>5 DEF SellCommit, opHistory, GoOn
  <2>6. PositionsTypeOK'
    BY <2>2, <2>3, <2>4, <2>5 DEF PositionsTypeOK, Wrote, EarnedBy
  <2>7. LabelsOK'
    BY <2>2, <2>3, <2>4, <2>5
    DEF LabelsOK, Trading, InProgress, Is, PositionsTypeOK, Wrote, EarnedBy
  <2>8. HolderAlone'
    BY <2>2, <2>3, <2>4, <2>5
    DEF HolderAlone, InProgress, Is, Due, At, PositionsTypeOK, Wrote, EarnedBy
  <2>9. OpsAlone'
    BY <2>2, <2>3, <2>4, <2>5
    DEF OpsAlone, LabelsOK, Trading, InProgress, Is, PositionsTypeOK, Wrote, EarnedBy
  <2>10. SupplyIsSum'
    <3> SUFFICES ASSUME opFaults' = 0, ~crowded', ~(apiUsed' /\ indexed'), settled' = {}
                 PROVE  supply' = SumOver(balance', Holder)
      BY <2>2, <2>3, <2>4, <2>5 DEF SupplyIsSum
    <3>1. /\ opFaults = 0 /\ ~crowded /\ ~indexed /\ settled = {}
          /\ opRead[o].supply = supply /\ opRead[o].balance = balance[HolderOf[o]]
          /\ \A r \in Op : ~Trading(r)
      BY <2>2, <2>3, <2>4, <2>5 DEF OpsAlone, LabelsOK, Is
    <3>2. supply = SumOver(balance, Holder)
      BY <3>1 DEF SupplyIsSum
    <3> QED BY <2>2, <2>3, <2>4, <2>5, <3>1, <3>2 DEF Wrote
  <2> QED BY <2>6, <2>7, <2>8, <2>9, <2>10
<1>6. ASSUME NEW o \in Op, processBuyback(o) PROVE PositionsInv'
  <2>2. /\ HolderOf[o] \in Holder /\ QtyOf[o] \in Nat /\ QtyOf[o] > 0
        /\ KindOf[o] \in Kinds /\ Due(o) \in Int
        /\ balance[HolderOf[o]] \in Int /\ earned[HolderOf[o]] \in Int
        /\ opRead[o].balance \in Int /\ opRead[o].supply \in Int
        /\ SumOver(balance, Holder) \in Int
    BY OpFacts
  <2>3. PICK l \in {"write", "done"} :
           /\ Begin(o, l) /\ Is(o, "buyback", "idle")
           /\ l = "write" => ReadPosition(o)
           /\ l = "done" => UNCHANGED opRead
    BY <1>6 DEF processBuyback
  <2>4. Began(o, l)
    BY <2>3, BeginFacts DEF Is
  <2>5. l = "write" => HasRead(o, supply) /\ opRead'[o].balance = balance[HolderOf[o]]
    BY <2>3, ReadFacts
  <2>6. l = "done" => UNCHANGED opRead
    BY <2>3
  <2>7. /\ Is(o, "buyback", "idle")
        /\ UNCHANGED <<balance, frozen, supply, traded, settled, deprecated,
                        earned, apiUsed, indexed, opFaults>>
    BY <1>6 DEF processBuyback
  <2>8. PositionsTypeOK'
    BY <2>2, <2>3, <2>4, <2>5, <2>6, <2>7 DEF PositionsTypeOK, Began, HasRead
  <2>9. LabelsOK'
    BY <2>2, <2>3, <2>4, <2>5, <2>6, <2>7
    DEF LabelsOK, Trading, InProgress, Is, PositionsTypeOK, Began, HasRead
  <2>10. HolderAlone'
    BY <2>2, <2>3, <2>4, <2>5, <2>6, <2>7
    DEF HolderAlone, InProgress, Is, Due, At, PositionsTypeOK, Began, HasRead
  <2>11. OpsAlone'
    BY <2>2, <2>3, <2>4, <2>5, <2>6, <2>7
    DEF OpsAlone, LabelsOK, Trading, InProgress, Is, PositionsTypeOK, Began, HasRead
  <2>12. SupplyIsSum'
    BY <2>2, <2>3, <2>4, <2>5, <2>6, <2>7
    DEF SupplyIsSum, OpsAlone, LabelsOK, Trading, InProgress, Is, Due, PositionsTypeOK, Began, HasRead
  <2> QED BY <2>8, <2>9, <2>10, <2>11, <2>12
<1>7. ASSUME NEW o \in Op, BuybackCommit(o) PROVE PositionsInv'
  <2>2. /\ HolderOf[o] \in Holder /\ QtyOf[o] \in Nat /\ QtyOf[o] > 0
        /\ KindOf[o] \in Kinds /\ Due(o) \in Int
        /\ balance[HolderOf[o]] \in Int /\ earned[HolderOf[o]] \in Int
        /\ opRead[o].balance \in Int /\ opRead[o].supply \in Int
        /\ SumOver(balance, Holder) \in Int
    BY OpFacts
  <2>3. Wrote(o, 0)
    BY <1>7, <2>2, SetBalanceFacts DEF BuybackCommit
  <2>4. EarnedBy(o, -opRead[o].balance)
    BY <1>7, <2>2, EarnsFacts DEF BuybackCommit
  <2>5. supply' \in Int /\ (opRead[o].supply - opRead[o].balance >= 0 => supply' = opRead[o].supply - opRead[o].balance)
    BY <1>7, <2>2, MaxFacts DEF BuybackCommit
  <2>6. /\ Is(o, "buyback", "write")
        /\ opPc' = [opPc EXCEPT ![o] = "done"]
        /\ apiUsed'
        /\ UNCHANGED <<frozen, traded, settled, deprecated, opRead, busyTwice,
                        crowded, indexed, opFaults>>
    BY <1>7 DEF BuybackCommit, opHistory, GoOn
  <2>7. PositionsTypeOK'
    BY <2>2, <2>3, <2>4, <2>5, <2>6 DEF PositionsTypeOK, Wrote, EarnedBy
  <2>8. LabelsOK'
    BY <2>2, <2>3, <2>4, <2>5, <2>6
    DEF LabelsOK, Trading, InProgress, Is, PositionsTypeOK, Wrote, EarnedBy
  <2>9. HolderAlone'
    BY <2>2, <2>3, <2>4, <2>5, <2>6
    DEF HolderAlone, InProgress, Is, Due, At, PositionsTypeOK, Wrote, EarnedBy
  <2>10. OpsAlone'
    BY <2>2, <2>3, <2>4, <2>5, <2>6
    DEF OpsAlone, LabelsOK, Trading, InProgress, Is, PositionsTypeOK, Wrote, EarnedBy
  <2>11. SupplyIsSum'
    <3> SUFFICES ASSUME opFaults' = 0, ~crowded', ~(apiUsed' /\ indexed'), settled' = {}
                 PROVE  supply' = SumOver(balance', Holder)
      BY <2>2, <2>3, <2>4, <2>5, <2>6 DEF SupplyIsSum
    <3>1. /\ opFaults = 0 /\ ~crowded /\ ~indexed /\ settled = {}
          /\ opRead[o].supply = supply /\ opRead[o].balance = balance[HolderOf[o]]
          /\ \A r \in Op : ~Trading(r)
      BY <2>2, <2>3, <2>4, <2>5, <2>6 DEF OpsAlone, LabelsOK, Is
    <3>2. supply = SumOver(balance, Holder)
      BY <3>1 DEF SupplyIsSum
    <3>3. \A h \in Holder : balance[h] \in Nat
      BY <3>1 DEF OpsAlone, PositionsTypeOK
    <3>4. balance[HolderOf[o]] <= SumOver(balance, Holder)
      BY <2>2, <3>3, SumElement, KeyPositionsAssumption
    <3> QED BY <2>2, <2>3, <2>4, <2>5, <2>6, <3>1, <3>2, <3>4 DEF Wrote
  <2> QED BY <2>7, <2>8, <2>9, <2>10, <2>11
<1>8. ASSUME NEW o \in Op, TradeActivity(o) PROVE PositionsInv'
  <2>2. /\ HolderOf[o] \in Holder /\ QtyOf[o] \in Nat /\ QtyOf[o] > 0
        /\ KindOf[o] \in Kinds /\ Due(o) \in Int
        /\ balance[HolderOf[o]] \in Int /\ earned[HolderOf[o]] \in Int
        /\ opRead[o].balance \in Int /\ opRead[o].supply \in Int
        /\ SumOver(balance, Holder) \in Int
    BY OpFacts
  <2>3. Began(o, "tx")
    BY <1>8, BeginFacts DEF TradeActivity
  <2>4. PICK q \in {QtyOf[o], -QtyOf[o]} :
           /\ KindOf[o] = "bought" => q = QtyOf[o]
           /\ KindOf[o] = "sold" => q = -QtyOf[o]
           /\ KindOf[o] \in {"bought", "sold"}
           /\ traded' = traded + q /\ EarnedBy(o, q)
    BY <1>8, <2>2, EarnsFacts DEF TradeActivity
  <2>5. /\ opPc[o] = "idle" /\ indexed'
        /\ UNCHANGED <<balance, frozen, supply, settled, deprecated, opRead,
                        apiUsed, opFaults>>
    BY <1>8 DEF TradeActivity
  <2>6. PositionsTypeOK'
    BY <2>2, <2>3, <2>4, <2>5 DEF PositionsTypeOK, Began, EarnedBy
  <2>7. LabelsOK'
    BY <2>2, <2>3, <2>4, <2>5
    DEF LabelsOK, Trading, InProgress, Is, PositionsTypeOK, Began, EarnedBy
  <2>8. HolderAlone'
    BY <2>2, <2>3, <2>4, <2>5
    DEF HolderAlone, InProgress, Is, Due, At, PositionsTypeOK, Began, EarnedBy
  <2>9. OpsAlone'
    BY <2>2, <2>3, <2>4, <2>5
    DEF OpsAlone, LabelsOK, Trading, InProgress, Is, PositionsTypeOK, Began, EarnedBy
  <2>10. SupplyIsSum'
    BY <2>2, <2>3, <2>4, <2>5
    DEF SupplyIsSum, OpsAlone, LabelsOK, Trading, InProgress, Is, Due, PositionsTypeOK, Began, EarnedBy
  <2> QED BY <2>6, <2>7, <2>8, <2>9, <2>10
<1>9. ASSUME NEW o \in Op, recordKeyPurchase(o) PROVE PositionsInv'
  <2>2. /\ HolderOf[o] \in Holder /\ QtyOf[o] \in Nat /\ QtyOf[o] > 0
        /\ KindOf[o] \in Kinds /\ Due(o) \in Int
        /\ balance[HolderOf[o]] \in Int /\ earned[HolderOf[o]] \in Int
        /\ opRead[o].balance \in Int /\ opRead[o].supply \in Int
        /\ SumOver(balance, Holder) \in Int
    BY OpFacts
  <2>3. Wrote(o, balance[HolderOf[o]] + QtyOf[o])
    BY <1>9, <2>2, SetBalanceFacts DEF recordKeyPurchase
  <2>4. /\ Is(o, "bought", "tx")
        /\ opPc' = [opPc EXCEPT ![o] = "supply"]
        /\ UNCHANGED <<frozen, supply, traded, settled, deprecated, opRead, earned,
                        busyTwice, crowded, apiUsed, indexed, opFaults>>
    BY <1>9 DEF recordKeyPurchase, opHistory, GoOn
  <2>5. PositionsTypeOK'
    BY <2>2, <2>3, <2>4 DEF PositionsTypeOK, Wrote
  <2>6. LabelsOK'
    BY <2>2, <2>3, <2>4
    DEF LabelsOK, Trading, InProgress, Is, PositionsTypeOK, Wrote
  <2>7. HolderAlone'
    BY <2>2, <2>3, <2>4
    DEF HolderAlone, InProgress, Is, Due, At, PositionsTypeOK, Wrote
  <2>8. OpsAlone'
    BY <2>2, <2>3, <2>4
    DEF OpsAlone, LabelsOK, Trading, InProgress, Is, PositionsTypeOK, Wrote
  <2>9. SupplyIsSum'
    BY <2>2, <2>3, <2>4
    DEF SupplyIsSum, OpsAlone, LabelsOK, Trading, InProgress, Is, Due, PositionsTypeOK, Wrote
  <2> QED BY <2>5, <2>6, <2>7, <2>8, <2>9
<1>10. ASSUME NEW o \in Op, recordKeySale(o) PROVE PositionsInv'
  <2>2. /\ HolderOf[o] \in Holder /\ QtyOf[o] \in Nat /\ QtyOf[o] > 0
        /\ KindOf[o] \in Kinds /\ Due(o) \in Int
        /\ balance[HolderOf[o]] \in Int /\ earned[HolderOf[o]] \in Int
        /\ opRead[o].balance \in Int /\ opRead[o].supply \in Int
        /\ SumOver(balance, Holder) \in Int
    BY OpFacts
  <2>3. \/ opPc' = [opPc EXCEPT ![o] = "fallback"] /\ UNCHANGED opRead
        \/ /\ opPc' = [opPc EXCEPT ![o] = "write"]
           /\ HasRead(o, supply) /\ opRead'[o].balance = balance[HolderOf[o]]
    BY <1>10, ReadFacts DEF recordKeySale, GoOn
  <2>4. /\ Is(o, "sold", "tx")
        /\ UNCHANGED <<balance, frozen, supply, traded, settled, deprecated,
                        earned, busyTwice, crowded, apiUsed, indexed, opFaults>>
    BY <1>10 DEF recordKeySale, opHistory
  <2>5. PositionsTypeOK'
    BY <2>2, <2>3, <2>4 DEF PositionsTypeOK, HasRead
  <2>6. LabelsOK'
    BY <2>2, <2>3, <2>4
    DEF LabelsOK, Trading, InProgress, Is, PositionsTypeOK, HasRead
  <2>7. HolderAlone'
    <3>1. CASE opPc' = [opPc EXCEPT ![o] = "fallback"] /\ UNCHANGED opRead
      BY <2>2, <2>4, <3>1 DEF HolderAlone, InProgress, Is, Due, At, PositionsTypeOK
    <3>2. CASE /\ opPc' = [opPc EXCEPT ![o] = "write"]
               /\ HasRead(o, supply) /\ opRead'[o].balance = balance[HolderOf[o]]
      BY <2>2, <2>4, <3>2
      DEF HasRead, HolderAlone, InProgress, Is, Due, At, PositionsTypeOK
    <3> QED BY <2>3, <3>1, <3>2
  <2>8. OpsAlone'
    BY <2>2, <2>3, <2>4
    DEF OpsAlone, LabelsOK, Trading, InProgress, Is, PositionsTypeOK, HasRead
  <2>9. SupplyIsSum'
    BY <2>2, <2>3, <2>4
    DEF SupplyIsSum, OpsAlone, LabelsOK, Trading, InProgress, Is, Due, PositionsTypeOK, HasRead
  <2> QED BY <2>5, <2>6, <2>7, <2>8, <2>9
<1>11. ASSUME NEW o \in Op, recordKeySaleUpdate(o) PROVE PositionsInv'
  <2>2. /\ HolderOf[o] \in Holder /\ QtyOf[o] \in Nat /\ QtyOf[o] > 0
        /\ KindOf[o] \in Kinds /\ Due(o) \in Int
        /\ balance[HolderOf[o]] \in Int /\ earned[HolderOf[o]] \in Int
        /\ opRead[o].balance \in Int /\ opRead[o].supply \in Int
        /\ SumOver(balance, Holder) \in Int
    BY OpFacts
  <2>3. Wrote(o, opRead[o].balance - QtyOf[o])
    BY <1>11, <2>2, SetBalanceFacts DEF recordKeySaleUpdate
  <2>4. /\ Is(o, "sold", "write")
        /\ \/ opPc' = [opPc EXCEPT ![o] = "supply"] /\ UNCHANGED opFaults
           \/ opPc' = [opPc EXCEPT ![o] = "fallback"] /\ opFaults' = opFaults + 1 /\ opFaults < OpFaults
        /\ UNCHANGED <<frozen, supply, traded, settled, deprecated, opRead, earned,
                        busyTwice, crowded, apiUsed, indexed>>
    BY <1>11 DEF recordKeySaleUpdate, opHistory, GoOn
  <2>5. PositionsTypeOK'
    BY <2>2, <2>3, <2>4, KeyPositionsAssumption DEF PositionsTypeOK, Wrote
  <2>6. LabelsOK'
    BY <2>2, <2>3, <2>4
    DEF LabelsOK, Trading, InProgress, Is, PositionsTypeOK, Wrote
  <2>7. HolderAlone'
    <3>1. CASE opPc' = [opPc EXCEPT ![o] = "supply"] /\ UNCHANGED opFaults
      <4>1. HolderOf[o] \notin busyTwice /\ opFaults = 0 =>
              balance'[HolderOf[o]] = earned[HolderOf[o]]
        BY <2>2, <2>3, <2>4 DEF Wrote, HolderAlone, InProgress, Is, Due
      <4> QED BY <2>2, <2>3, <2>4, <3>1, <4>1
          DEF Wrote, HolderAlone, InProgress, Is, Due, At, PositionsTypeOK
    <3>2. CASE opFaults' = opFaults + 1
      <4>1. opFaults' # 0
        BY <3>2, KeyPositionsAssumption DEF PositionsTypeOK
      <4> QED BY <4>1 DEF HolderAlone
    <3> QED BY <2>2, <2>3, <2>4, <3>1, <3>2
  <2>8. OpsAlone'
    BY <2>2, <2>3, <2>4
    DEF OpsAlone, LabelsOK, Trading, InProgress, Is, PositionsTypeOK, Wrote
  <2>9. SupplyIsSum'
    BY <2>2, <2>3, <2>4
    DEF SupplyIsSum, OpsAlone, LabelsOK, Trading, InProgress, Is, Due, PositionsTypeOK, Wrote
  <2> QED BY <2>5, <2>6, <2>7, <2>8, <2>9
<1>12. ASSUME NEW o \in Op, updateOwnershipSell(o) PROVE PositionsInv'
  <2>2. /\ HolderOf[o] \in Holder /\ QtyOf[o] \in Nat /\ QtyOf[o] > 0
        /\ KindOf[o] \in Kinds /\ Due(o) \in Int
        /\ balance[HolderOf[o]] \in Int /\ earned[HolderOf[o]] \in Int
        /\ opRead[o].balance \in Int /\ opRead[o].supply \in Int
        /\ SumOver(balance, Holder) \in Int
    BY OpFacts
  <2>3. Wrote(o, balance[HolderOf[o]] - QtyOf[o])
    BY <1>12, <2>2, SetBalanceFacts DEF updateOwnershipSell
  <2>4. /\ Is(o, "sold", "fallback")
        /\ opPc' = [opPc EXCEPT ![o] = "supply"]
        /\ UNCHANGED <<frozen, supply, traded, settled, deprecated, opRead, earned,
                        busyTwice, crowded, apiUsed, indexed, opFaults>>
    BY <1>12 DEF updateOwnershipSell, opHistory, GoOn
  <2>5. PositionsTypeOK'
    BY <2>2, <2>3, <2>4 DEF PositionsTypeOK, Wrote
  <2>6. LabelsOK'
    BY <2>2, <2>3, <2>4
    DEF LabelsOK, Trading, InProgress, Is, PositionsTypeOK, Wrote
  <2>7. HolderAlone'
    BY <2>2, <2>3, <2>4
    DEF HolderAlone, InProgress, Is, Due, At, PositionsTypeOK, Wrote
  <2>8. OpsAlone'
    BY <2>2, <2>3, <2>4
    DEF OpsAlone, LabelsOK, Trading, InProgress, Is, PositionsTypeOK, Wrote
  <2>9. SupplyIsSum'
    BY <2>2, <2>3, <2>4
    DEF SupplyIsSum, OpsAlone, LabelsOK, Trading, InProgress, Is, Due, PositionsTypeOK, Wrote
  <2> QED BY <2>5, <2>6, <2>7, <2>8, <2>9
<1>13. ASSUME NEW o \in Op, SupplyRead(o) PROVE PositionsInv'
  <2>2. /\ HolderOf[o] \in Holder /\ QtyOf[o] \in Nat /\ QtyOf[o] > 0
        /\ KindOf[o] \in Kinds /\ Due(o) \in Int
        /\ balance[HolderOf[o]] \in Int /\ earned[HolderOf[o]] \in Int
        /\ opRead[o].balance \in Int /\ opRead[o].supply \in Int
        /\ SumOver(balance, Holder) \in Int
    BY OpFacts
  <2>3. HasRead(o, traded)
    BY <1>13, <2>2 DEF SupplyRead, HasRead, PositionsTypeOK
  <2>4. /\ opPc[o] = "supply"
        /\ opPc' = [opPc EXCEPT ![o] = "persist"]
        /\ UNCHANGED <<balance, frozen, supply, traded, settled, deprecated,
                        earned, busyTwice, crowded, apiUsed, indexed, opFaults>>
    BY <1>13 DEF SupplyRead, opHistory, GoOn
  <2>5. PositionsTypeOK'
    BY <2>2, <2>3, <2>4 DEF PositionsTypeOK, HasRead
  <2>6. LabelsOK'
    BY <2>2, <2>3, <2>4
    DEF LabelsOK, Trading, InProgress, Is, PositionsTypeOK, HasRead
  <2>7. HolderAlone'
    BY <2>2, <2>3, <2>4
    DEF HolderAlone, InProgress, Is, Due, At, PositionsTypeOK, HasRead
  <2>8. OpsAlone'
    BY <2>2, <2>3, <2>4
    DEF OpsAlone, LabelsOK, Trading, InProgress, Is, PositionsTypeOK, HasRead
  <2>9. SupplyIsSum'
    BY <2>2, <2>3, <2>4
    DEF SupplyIsSum, OpsAlone, LabelsOK, Trading, InProgress, Is, Due, PositionsTypeOK, HasRead
  <2> QED BY <2>5, <2>6, <2>7, <2>8, <2>9
<1>14. ASSUME NEW o \in Op, SupplyWrite(o) PROVE PositionsInv'
  <2>2. /\ HolderOf[o] \in Holder /\ QtyOf[o] \in Nat /\ QtyOf[o] > 0
        /\ KindOf[o] \in Kinds /\ Due(o) \in Int
        /\ balance[HolderOf[o]] \in Int /\ earned[HolderOf[o]] \in Int
        /\ opRead[o].balance \in Int /\ opRead[o].supply \in Int
        /\ SumOver(balance, Holder) \in Int
    BY OpFacts
  <2>3. /\ opPc[o] = "persist"
        /\ opPc' = [opPc EXCEPT ![o] = "done"]
        /\ supply' = opRead[o].supply
        /\ UNCHANGED <<balance, frozen, traded, settled, deprecated, opRead,
                        earned, busyTwice, crowded, apiUsed, indexed, opFaults>>
    BY <1>14 DEF SupplyWrite, opHistory, GoOn
  <2>4. PositionsTypeOK'
    BY <2>2, <2>3 DEF PositionsTypeOK
  <2>5. LabelsOK'
    BY <2>2, <2>3 DEF LabelsOK, Trading, InProgress, Is, PositionsTypeOK
  <2>6. HolderAlone'
    BY <2>2, <2>3 DEF HolderAlone, InProgress, Is, Due, At, PositionsTypeOK
  <2>7. OpsAlone'
    BY <2>2, <2>3 DEF OpsAlone, LabelsOK, Trading, InProgress, Is, PositionsTypeOK
  <2>8. SupplyIsSum'
    BY <2>2, <2>3
    DEF SupplyIsSum, OpsAlone, LabelsOK, Trading, InProgress, Is, Due, PositionsTypeOK
  <2> QED BY <2>4, <2>5, <2>6, <2>7, <2>8
<1>15. ASSUME NEW o \in Op, horizonWebhook(o) PROVE PositionsInv'
  <2>2. /\ HolderOf[o] \in Holder /\ QtyOf[o] \in Nat /\ QtyOf[o] > 0
        /\ KindOf[o] \in Kinds /\ Due(o) \in Int
        /\ balance[HolderOf[o]] \in Int /\ earned[HolderOf[o]] \in Int
        /\ opRead[o].balance \in Int /\ opRead[o].supply \in Int
        /\ SumOver(balance, Holder) \in Int
    BY OpFacts
  <2>3. PICK l \in {"tx", "done"} :
           /\ Begin(o, l) /\ Is(o, "payment", "idle")
           /\ l = "tx" => OrderOf[o] \notin settled
    BY <1>15 DEF horizonWebhook
  <2>4. Began(o, l)
    BY <2>3, BeginFacts DEF Is
  <2>5. l = "tx" => OrderOf[o] \notin settled
    BY <2>3
  <2>6. /\ Is(o, "payment", "idle")
        /\ UNCHANGED <<balance, frozen, supply, traded, settled, deprecated,
                        opRead, earned, apiUsed, indexed, opFaults>>
    BY <1>15 DEF horizonWebhook
  <2>7. PositionsTypeOK'
    BY <2>2, <2>3, <2>4, <2>5, <2>6 DEF PositionsTypeOK, Began
  <2>8. LabelsOK'
    BY <2>2, <2>3, <2>4, <2>5, <2>6
    DEF LabelsOK, Trading, InProgress, Is, PositionsTypeOK, Began
  <2>9. HolderAlone'
    BY <2>2, <2>3, <2>4, <2>5, <2>6
    DEF HolderAlone, InProgress, Is, Due, At, PositionsTypeOK, Began
  <2>10. OpsAlone'
    BY <2>2, <2>3, <2>4, <2>5, <2>6
    DEF OpsAlone, LabelsOK, Trading, InProgress, Is, PositionsTypeOK, Began
  <2>11. SupplyIsSum'
    BY <2>2, <2>3, <2>4, <2>5, <2>6
    DEF SupplyIsSum, OpsAlone, LabelsOK, Trading, InProgress, Is, Due, PositionsTypeOK, Began
  <2> QED BY <2>7, <2>8, <2>9, <2>10, <2>11
<1>16. ASSUME NEW o \in Op, SettleOrder(o) PROVE PositionsInv'
  <2>2. /\ HolderOf[o] \in Holder /\ QtyOf[o] \in Nat /\ QtyOf[o] > 0
        /\ KindOf[o] \in Kinds /\ Due(o) \in Int
        /\ balance[HolderOf[o]] \in Int /\ earned[HolderOf[o]] \in Int
        /\ opRead[o].balance \in Int /\ opRead[o].supply \in Int
        /\ SumOver(balance, Holder) \in Int
    BY OpFacts
  <2>3. EarnedBy(o, IF OrderOf[o] \in settled THEN 0 ELSE QtyOf[o])
    BY <1>16, <2>2 DEF SettleOrder, EarnedBy, PositionsTypeOK
  <2>4. /\ Is(o, "payment", "tx")
        /\ opPc' = [opPc EXCEPT ![o] = "credit"]
        /\ settled' = settled \cup {OrderOf[o]} /\ apiUsed'
        /\ UNCHANGED <<balance, frozen, supply, traded, deprecated, opRead,
                        busyTwice, crowded, indexed, opFaults>>
    BY <1>16 DEF SettleOrder, opHistory, GoOn
  <2>5. PositionsTypeOK'
    BY <2>2, <2>3, <2>4 DEF PositionsTypeOK, EarnedBy, Order
  <2>6. LabelsOK'
    BY <2>2, <2>3, <2>4
    DEF LabelsOK, Trading, InProgress, Is, PositionsTypeOK, EarnedBy
  <2>7. HolderAlone'
    BY <2>2, <2>3, <2>4, KeyPositionsAssumption
    DEF HolderAlone, InProgress, Is, Due, At, PositionsTypeOK, EarnedBy
  <2>8. OpsAlone'
    BY <2>2, <2>3, <2>4
    DEF OpsAlone, LabelsOK, Trading, InProgress, Is, PositionsTypeOK, EarnedBy
  <2>9. SupplyIsSum'
    BY <2>2, <2>3, <2>4
    DEF SupplyIsSum, OpsAlone, LabelsOK, Trading, InProgress, Is, Due, PositionsTypeOK, EarnedBy
  <2> QED BY <2>5, <2>6, <2>7, <2>8, <2>9
<1>17. ASSUME NEW o \in Op, updateOwnershipCredit(o) PROVE PositionsInv'
  <2>2. /\ HolderOf[o] \in Holder /\ QtyOf[o] \in Nat /\ QtyOf[o] > 0
        /\ KindOf[o] \in Kinds /\ Due(o) \in Int
        /\ balance[HolderOf[o]] \in Int /\ earned[HolderOf[o]] \in Int
        /\ opRead[o].balance \in Int /\ opRead[o].supply \in Int
        /\ SumOver(balance, Holder) \in Int
    BY OpFacts
  <2>3. SetBalance(o, balance[HolderOf[o]] + QtyOf[o])
    BY <1>17 DEF updateOwnershipCredit, SetBalance
  <2>4. Wrote(o, balance[HolderOf[o]] + QtyOf[o])
    BY <2>2, <2>3, SetBalanceFacts
  <2>5. /\ Is(o, "payment", "credit")
        /\ opPc' = [opPc EXCEPT ![o] = "done"]
        /\ UNCHANGED <<frozen, supply, traded, settled, deprecated, opRead, earned,
                        busyTwice, crowded, apiUsed, indexed, opFaults>>
    BY <1>17 DEF updateOwnershipCredit, opHistory, GoOn
  <2>6. PositionsTypeOK'
    BY <2>2, <2>3, <2>4, <2>5 DEF PositionsTypeOK, Wrote
  <2>7. LabelsOK'
    BY <2>2, <2>3, <2>4, <2>5
    DEF LabelsOK, Trading, InProgress, Is, PositionsTypeOK, Wrote
  <2>8. HolderAlone'
    BY <2>2, <2>3, <2>4, <2>5
    DEF HolderAlone, InProgress, Is, Due, At, PositionsTypeOK, Wrote
  <2>9. OpsAlone'
    BY <2>2, <2>3, <2>4, <2>5
    DEF OpsAlone, LabelsOK, Trading, InProgress, Is, PositionsTypeOK, Wrote
  <2>10. SupplyIsSum'
    BY <2>2, <2>3, <2>4, <2>5
    DEF SupplyIsSum, OpsAlone, LabelsOK, Trading, InProgress, Is, Due, PositionsTypeOK, Wrote
  <2> QED BY <2>6, <2>7, <2>8, <2>9, <2>10
<1>18. ASSUME NEW o \in Op, OpCrash(o) PROVE PositionsInv'
  <2>2. /\ HolderOf[o] \in Holder /\ QtyOf[o] \in Nat /\ QtyOf[o] > 0
        /\ KindOf[o] \in Kinds /\ Due(o) \in Int
        /\ balance[HolderOf[o]] \in Int /\ earned[HolderOf[o]] \in Int
        /\ opRead[o].balance \in Int /\ opRead[o].supply \in Int
        /\ SumOver(balance, Holder) \in Int
    BY OpFacts
  <2>3. /\ InProgress(o)
        /\ opPc' = [opPc EXCEPT ![o] = "done"]
        /\ opFaults' = opFaults + 1 /\ opFaults < OpFaults
        /\ UNCHANGED <<balance, frozen, supply, traded, settled, deprecated,
                        opRead, earned, busyTwice, crowded, apiUsed, indexed>>
    BY <1>18 DEF OpCrash, opHistory, GoOn
  <2>4. PositionsTypeOK'
    BY <2>2, <2>3, KeyPositionsAssumption DEF PositionsTypeOK
  <2>5. LabelsOK'
    BY <2>2, <2>3 DEF LabelsOK, Trading, InProgress, Is, PositionsTypeOK
  <2>6. HolderAlone'
    BY <2>2, <2>3 DEF HolderAlone, InProgress, Is, Due, At, PositionsTypeOK
  <2>7. OpsAlone'
    BY <2>2, <2>3 DEF OpsAlone, LabelsOK, Trading, InProgress, Is, PositionsTypeOK
  <2>8. SupplyIsSum'
    BY <2>2, <2>3
    DEF SupplyIsSum, OpsAlone, LabelsOK, Trading, InProgress, Is, Due, PositionsTypeOK
  <2> QED BY <2>4, <2>5, <2>6, <2>7, <2>8
<1>19. CASE UNCHANGED positionVars
  BY <1>19 DEF positionVars, PositionsTypeOK, LabelsOK, HolderAlone, OpsAlone,
     SupplyIsSum, Trading, InProgress, Is, Due, At
<1> QED
  BY <1>1, <1>2, <1>3, <1>4, <1>5, <1>6, <1>7, <1>8, <1>9, <1>10, <1>11, <1>12, <1>13, <1>14, <1>15, <1>16, <1>17, <1>18, <1>19
  DEF PositionsNext

\* API sells, buybacks, indexed trades and paid orders all write the positions,
\* most of them from a balance read earlier.  For any number of holders and
\* operations and as long as no statement fails: the balance of a holder whose
\* operations did not overlap is what he bought and paid for less what he sold,
\* whatever the others did meanwhile; and if no two operations overlapped and
\* only the indexer or only the API wrote, circulatingSupply is the sum of the
\* balances.
THEOREM PositionsSafe == Spec => []PositionsAddUp
<1>1. Init => PositionsInv
  BY PositionsInitInv DEF Init
<1>2. PositionsInv /\ [Next]_vars => PositionsInv'
  BY PositionsStepInv, ServiceSteps
<1>3. ASSUME PositionsInv PROVE PositionsAddUp
  <2>1. SumOver(balance, Holder) = MapThenSumSet(LAMBDA h : balance[h], Holder)
    BY DEF SumOver
  <2>2. HolderAlone /\ SupplyIsSum
    BY <1>3 DEF PositionsInv
  <2>3. ASSUME opFaults = 0, NEW h \in Holder \ busyTwice, ~At(h)
        PROVE  balance[h] = earned[h]
    BY <2>2, <2>3 DEF HolderAlone
  <2>4. ASSUME opFaults = 0, ~crowded, ~(apiUsed /\ indexed), settled = {},
               \A o \in Op : ~InProgress(o)
        PROVE  supply = MapThenSumSet(LAMBDA h : balance[h], Holder)
    <3>1. supply = SumOver(balance, Holder)
      BY <2>2, <2>4 DEF SupplyIsSum, Trading
    <3> QED BY <2>1, <3>1
  <2> QED BY <2>3, <2>4 DEF PositionsAddUp
<1> QED BY <1>1, <1>2, <1>3, PTL DEF Spec

-----------------------------------------------------------------------------
(* Key exports *)

\* The chain holds a job once, and the job being worked on has the status of
\* the stage it has reached.
ChainOrdered ==
  /\ \A a, b \in 1..Len(queue) : queue[a] = queue[b] => a = b
  /\ \A a \in 1..Len(queue), j \in Job : current = <<j>> => queue[a] # j
  /\ \A j \in Job : current = <<j>> =>
       jobStatus[j] = IF stage = "start" THEN "PENDING" ELSE "PROCESSING"
  /\ current = <<>> \/ \E j \in Job : current = <<j>>

JobsInv == ExportJobsTypeOK /\ ChainOrdered /\ ExportsKept

\* What a chain of one, one more and one less job lists.
LEMMA ListedFacts ==
  ASSUME NEW q \in Seq(Job)
  PROVE  /\ Listed(<<>>) = {} /\ Listed(q) \subseteq Job
         /\ \A j : Listed(<<j>>) = {j}
         /\ \A j \in Job : Listed(Append(q, j)) = Listed(q) \cup {j}
         /\ q # <<>> => Listed(q) = {Head(q)} \cup Listed(Tail(q))
<1>1. Listed(<<>>) = {} /\ Listed(q) \subseteq Job
  BY DEF Listed
<1>2. \A j : Listed(<<j>>) = {j}
  BY DEF Listed
<1>3. ASSUME NEW j \in Job PROVE Listed(Append(q, j)) = Listed(q) \cup {j}
  <2>1. Len(Append(q, j)) = Len(q) + 1 /\ Append(q, j)[Len(q) + 1] = j
        /\ \A k \in 1..Len(q) : Append(q, j)[k] = q[k]
    OBVIOUS
  <2>2. 1..(Len(q) + 1) = 1..Len(q) \cup {Len(q) + 1}
    OBVIOUS
  <2> QED BY <2>1, <2>2 DEF Listed
<1>4. ASSUME q # <<>> PROVE Listed(q) = {Head(q)} \cup Listed(Tail(q))
  <2>1. /\ Len(Tail(q)) = Len(q) - 1 /\ Head(q) = q[1] /\ Len(q) \in Nat \ {0}
        /\ \A k \in 1..(Len(q) - 1) : Tail(q)[k] = q[k + 1]
    BY <1>4
  <2>2. ASSUME NEW x \in Listed(q) PROVE x \in {Head(q)} \cup Listed(Tail(q))
    <3>1. PICK k \in 1..Len(q) : x = q[k]
      BY <2>2 DEF Listed
    <3>2. CASE k = 1
      BY <2>1, <3>1, <3>2
    <3>3. CASE k # 1
      <4>1. k - 1 \in 1..(Len(q) - 1) /\ Tail(q)[k - 1] = x
        BY <2>1, <3>1, <3>3
      <4> QED BY <2>1, <4>1 DEF Listed
    <3> QED BY <3>2, <3>3
  <2>3. ASSUME NEW x \in {Head(q)} \cup Listed(Tail(q)) PROVE x \in Listed(q)
    <3>1. CASE x = Head(q)
      <4>1. 1 \in 1..Len(q)
        BY <2>1
      <4> QED BY <2>1, <3>1, <4>1 DEF Listed
    <3>2. CASE x \in Listed(Tail(q))
      <4>1. PICK k \in 1..(Len(q) - 1) : x = Tail(q)[k]
        BY <2>1, <3>2 DEF Listed
      <4>2. k + 1 \in 1..Len(q) /\ x = q[k + 1]
        BY <2>1, <4>1
      <4> QED BY <4>2 DEF Listed
    <3> QED BY <2>3, <3>1, <3>2
  <2> QED BY <2>2, <2>3
<1> QED BY <1>1, <1>2, <1>3, <1>4

\* The invariant of the exports holds initially ...
LEMMA JobsInitInv == ExportJobsInit => JobsInv
<1> SUFFICES ASSUME ExportJobsInit PROVE JobsInv
  OBVIOUS
<1>1. ExportJobsTypeOK
  BY ExportJobsAssumption DEF ExportJobsInit, ExportJobsTypeOK
<1>2. ChainOrdered
  BY DEF ExportJobsInit, ChainOrdered
<1>3. ExportsKept
  BY DEF ExportJobsInit, ExportsKept, Listed
<1> QED BY <1>1, <1>2, <1>3 DEF JobsInv

\* ... and every step preserves it.
LEMMA JobsStepInv ==
  ASSUME JobsInv, [ExportJobsNext]_jobVars PROVE JobsInv'
<1>0. ExportJobsTypeOK /\ ChainOrdered /\ ExportsKept
  BY DEF JobsInv
<1>q. /\ Listed(<<>>) = {} /\ Listed(queue) \subseteq Job
      /\ \A j : Listed(<<j>>) = {j}
      /\ \A j \in Job : Listed(Append(queue, j)) = Listed(queue) \cup {j}
      /\ queue # <<>> => Listed(queue) = {Head(queue)} \cup Listed(Tail(queue))
  BY <1>0, ListedFacts DEF ExportJobsTypeOK
<1>l. \A x : x \in Listed(queue) <=> \E a \in 1..Len(queue) : x = queue[a]
  BY DEF Listed
<1>1. ASSUME NEW j \in Job, createKeyExportJob(j) PROVE JobsInv'
  <2>1. j \notin Listed(queue) /\ j \notin Listed(current)
    BY <1>0, <1>1, <1>q DEF createKeyExportJob, ExportsKept, ChainOrdered
  <2>2. ExportJobsTypeOK'
    BY <1>0, <1>1 DEF createKeyExportJob, ExportJobsTypeOK
  <2>3. ChainOrdered'
    <3>1. /\ Len(queue') = Len(queue) + 1 /\ queue'[Len(queue) + 1] = j
          /\ \A a \in 1..Len(queue) : queue'[a] = queue[a] /\ queue[a] # j
          /\ Len(queue) \in Nat /\ current # <<j>>
      BY <1>0, <1>1, <1>l, <1>q, <2>1 DEF createKeyExportJob, ExportJobsTypeOK
    <3>2. \A a, b \in 1..Len(queue') : queue'[a] = queue'[b] => a = b
      BY <1>0, <3>1 DEF ChainOrdered
    <3>3. \A a \in 1..Len(queue'), k \in Job : current' = <<k>> => queue'[a] # k
      BY <1>0, <1>1, <3>1 DEF ChainOrdered, createKeyExportJob
    <3>4. \A k \in Job : current' = <<k>> =>
            jobStatus'[k] = IF stage' = "start" THEN "PENDING" ELSE "PROCESSING"
      BY <1>0, <1>1, <3>1 DEF ChainOrdered, createKeyExportJob, ExportJobsTypeOK
    <3>5. current' = <<>> \/ \E k \in Job : current' = <<k>>
      BY <1>0, <1>1 DEF ChainOrdered, createKeyExportJob
    <3> QED BY <3>2, <3>3, <3>4, <3>5 DEF ChainOrdered
  <2>4. ExportsKept'
    BY <1>0, <1>1, <1>q, <2>1 DEF createKeyExportJob, ExportsKept, ExportJobsTypeOK
  <2> QED BY <2>2, <2>3, <2>4 DEF JobsInv
<1>2. CASE enqueueKeyExport
  <2>1. PICK h \in Job : h = Head(queue)
    BY <1>0, <1>2 DEF enqueueKeyExport, ExportJobsTypeOK
  <2>2. /\ Len(queue) \in Nat \ {0} /\ Len(queue') = Len(queue) - 1 /\ queue[1] = h
        /\ \A a \in 1..Len(queue') : queue'[a] = queue[a + 1] /\ a + 1 \in 1..Len(queue)
        /\ current = <<>> /\ current' = <<h>> /\ stage' = "start"
        /\ UNCHANGED <<jobStatus, expired, download, lost, jobFaults>>
    BY <1>0, <1>2, <2>1 DEF enqueueKeyExport, ExportJobsTypeOK
  <2>3. /\ Listed(queue) = {h} \cup Listed(queue')
        /\ Listed(current) = {} /\ Listed(current') = {h}
    BY <1>2, <1>q, <2>1, <2>2 DEF enqueueKeyExport
  <2>4. ExportJobsTypeOK'
    <3>1. queue' \in Seq(Job)
      BY <1>0, <1>2 DEF enqueueKeyExport, ExportJobsTypeOK
    <3> QED BY <1>0, <2>2, <3>1 DEF ExportJobsTypeOK
  <2>5. \A a \in 1..Len(queue') : queue'[a] # h
    <3>1. 1 \in 1..Len(queue)
      BY <2>2
    <3>2. ASSUME NEW a \in 1..Len(queue'), queue[a + 1] = queue[1] PROVE FALSE
      <4>1. a + 1 = 1 /\ a \in Nat \ {0}
        BY <1>0, <2>2, <3>1, <3>2 DEF ChainOrdered
      <4> QED BY <4>1
    <3> QED BY <2>2, <3>2
  <2>6. h \notin Listed(queue')
    BY <2>5 DEF Listed
  <2>7. \A k : current' = <<k>> => k = h
    BY <2>2
  <2>8. ChainOrdered'
    <3>1. \A a, b \in 1..Len(queue') : queue'[a] = queue'[b] => a = b
      <4> SUFFICES ASSUME NEW a \in 1..Len(queue'), NEW b \in 1..Len(queue'),
                          queue'[a] = queue'[b]
                   PROVE  a = b
        OBVIOUS
      <4>1. a + 1 = b + 1
        BY <1>0, <2>2 DEF ChainOrdered
      <4>2. a \in Nat /\ b \in Nat
        BY <2>2
      <4> QED BY <4>1, <4>2
    <3>2. \A a \in 1..Len(queue'), k \in Job : current' = <<k>> => queue'[a] # k
      BY <2>5, <2>7
    <3>3. \A k \in Job : current' = <<k>> => jobStatus'[k] = "PENDING"
      BY <1>0, <2>2, <2>3, <2>7 DEF ExportsKept
    <3> QED BY <2>1, <2>2, <3>1, <3>2, <3>3 DEF ChainOrdered
  <2>9. ExportsKept'
    BY <1>0, <2>2, <2>3, <2>6 DEF ExportsKept
  <2> QED BY <2>4, <2>8, <2>9 DEF JobsInv
<1>3. ASSUME NEW j \in Job, processKeyExportJob(j) PROVE JobsInv'
  <2>0. /\ current = <<j>> /\ Listed(current) = {j} /\ j \notin Listed(queue)
        /\ UNCHANGED <<queue, expired, download>>
        /\ \A a \in 1..Len(queue) : queue[a] # j
        /\ \A k : current = <<k>> => k = j
    <3>1. current = <<j>>
      BY <1>3 DEF processKeyExportJob
    <3>2. UNCHANGED <<queue, expired, download>>
      BY <1>3 DEF processKeyExportJob, ChainCatch, JobEnds
    <3> QED BY <1>0, <1>l, <1>q, <3>1, <3>2 DEF ChainOrdered
  <2>1. \/ /\ stage = "start" /\ stage' = "build" /\ current' = current
           /\ jobStatus' = [jobStatus EXCEPT ![j] = "PROCESSING"]
           /\ UNCHANGED <<lost, jobFaults>>
        \/ /\ stage = "build" /\ stage' \in {"ready", "failed"} /\ current' = current
           /\ UNCHANGED <<jobStatus, lost, jobFaults>>
        \/ /\ stage = "ready" /\ stage' = "failed" /\ current' = current
           /\ UNCHANGED jobStatus /\ lost' = lost \cup {j}
           /\ jobFaults < JobFaults /\ jobFaults' = jobFaults + 1
        \/ /\ stage # "start" /\ current' = <<>> /\ UNCHANGED <<stage, lost, jobFaults>>
           /\ \E s \in {"READY", "FAILED"} : jobStatus' = [jobStatus EXCEPT ![j] = s]
        \/ /\ current' = <<>> /\ UNCHANGED <<stage, jobStatus>>
           /\ lost' = lost \cup {j}
           /\ jobFaults < JobFaults /\ jobFaults' = jobFaults + 1
    BY <1>3 DEF processKeyExportJob, ChainCatch, JobEnds, StatementFails
  <2>2. jobStatus[j] \in {"PENDING", "PROCESSING"}
    BY <1>0, <2>0 DEF ChainOrdered
  <2>3. ExportJobsTypeOK'
    <3>1. jobStatus' \in [Job -> {"none", "PENDING", "PROCESSING", "READY", "FAILED"}]
      BY <1>0, <2>1 DEF ExportJobsTypeOK
    <3>2. jobFaults' \in 0..JobFaults /\ lost' \subseteq Job
      BY <1>0, <2>1, ExportJobsAssumption DEF ExportJobsTypeOK
    <3>3. current' \in Seq(Job) /\ Len(current') <= 1
      <4>1. current' = current \/ current' = <<>>
        BY <2>1
      <4>2. <<>> \in Seq(Job) /\ Len(<<>>) = 0
        OBVIOUS
      <4>3. CASE current' = current
        BY <1>0, <4>3 DEF ExportJobsTypeOK
      <4>4. CASE current' = <<>>
        BY <4>2, <4>4
      <4> QED BY <4>1, <4>3, <4>4
    <3>4. stage' \in {"start", "build", "ready", "failed"}
      BY <1>0, <2>1 DEF ExportJobsTypeOK
    <3> QED BY <1>0, <2>0, <3>1, <3>2, <3>3, <3>4 DEF ExportJobsTypeOK
  <2>4. /\ \A k \in Job \ {j} : jobStatus'[k] = jobStatus[k]
        /\ current' = current => jobStatus'[j] = "PROCESSING" /\ stage' # "start"
        /\ current' # current => current' = <<>>
    <3>1. \A k \in Job \ {j} : jobStatus'[k] = jobStatus[k]
      BY <1>0, <2>1 DEF ExportJobsTypeOK
    <3>2. current # <<>>
      BY <2>0
    <3>3. stage # "start" => jobStatus[j] = "PROCESSING"
      BY <1>0, <2>0 DEF ChainOrdered
    <3>4. ASSUME current' = current PROVE jobStatus'[j] = "PROCESSING" /\ stage' # "start"
      BY <1>0, <2>1, <3>2, <3>3, <3>4 DEF ExportJobsTypeOK
    <3>5. current' # current => current' = <<>>
      BY <2>1
    <3> QED BY <3>1, <3>4, <3>5
  <2>5. ChainOrdered'
    <3>1. \A k \in Job : current' = <<k>> => current' = current /\ k = j
      <4>1. \A k : <<k>> # <<>>
        OBVIOUS
      <4> QED BY <2>0, <2>4, <4>1
    <3>2. \A a, b \in 1..Len(queue') : queue'[a] = queue'[b] => a = b
      BY <1>0, <2>0 DEF ChainOrdered
    <3> QED BY <2>0, <2>4, <3>1, <3>2 DEF ChainOrdered
  <2>6. ExportsKept'
    <3>1. /\ Listed(queue') = Listed(queue) /\ Listed(current') \subseteq {j}
          /\ lost \subseteq lost'
          /\ current' = current => Listed(current') = {j}
          /\ current' # current => jobStatus'[j] \in {"READY", "FAILED"} \/ j \in lost'
      BY <1>0, <1>q, <2>0, <2>1 DEF ExportJobsTypeOK
    <3>2. \A k \in Listed(queue) : k # j /\ k \in Job
      BY <1>q, <2>0
    <3>3. \A k \in Listed(queue') : jobStatus'[k] = "PENDING" /\ k \notin Listed(current')
      BY <1>0, <2>4, <3>1, <3>2 DEF ExportsKept
    <3>4. \A k \in Job : jobStatus'[k] \in {"PENDING", "PROCESSING"} =>
                           k \in Listed(queue') \cup Listed(current') \cup lost'
      BY <1>0, <2>0, <2>4, <3>1 DEF ExportsKept
    <3>5. \A k \in Job : /\ download'[k] = "ready" => jobStatus'[k] = "READY"
                         /\ download'[k] = "failed" => jobStatus'[k] = "FAILED"
      BY <1>0, <2>0, <2>2, <2>4 DEF ExportsKept
    <3> QED BY <3>3, <3>4, <3>5 DEF ExportsKept
  <2> QED BY <2>3, <2>5, <2>6 DEF JobsInv
<1>4. ASSUME NEW j \in Job, resolveKeyExportDownload(j) PROVE JobsInv'
  <2>0. UNCHANGED <<jobStatus, expired, queue, current, stage, lost, jobFaults>>
    BY <1>4 DEF resolveKeyExportDownload
  <2>1. /\ download' \in [Job -> {"none", "ready", "pending", "failed", "expired"}]
        /\ \A k \in Job \ {j} : download'[k] = download[k]
        /\ download'[j] = "ready" => jobStatus[j] = "READY"
        /\ download'[j] = "failed" => jobStatus[j] = "FAILED"
    BY <1>0, <1>4 DEF resolveKeyExportDownload, ExportJobsTypeOK
  <2>2. ExportJobsTypeOK'
    BY <1>0, <2>0, <2>1 DEF ExportJobsTypeOK
  <2>3. ChainOrdered'
    BY <1>0, <2>0 DEF ChainOrdered
  <2>4. ExportsKept'
    BY <1>0, <2>0, <2>1 DEF ExportsKept
  <2> QED BY <2>2, <2>3, <2>4 DEF JobsInv
<1>5. ASSUME NEW j \in Job, ExportExpires(j) PROVE JobsInv'
  <2>0. /\ UNCHANGED <<jobStatus, queue, current, stage, download, lost, jobFaults>>
        /\ expired' = expired \cup {j}
    BY <1>5 DEF ExportExpires
  <2> QED BY <1>0, <2>0 DEF JobsInv, ExportJobsTypeOK, ChainOrdered, ExportsKept
<1>6. CASE ExportRestart
  <2>0. /\ queue' = <<>> /\ current' = <<>> /\ stage' = "start"
        /\ UNCHANGED <<jobStatus, expired, download>>
        /\ lost' = lost \cup Listed(queue) \cup Listed(current)
        /\ jobFaults < JobFaults /\ jobFaults' = jobFaults + 1
    BY <1>6 DEF ExportRestart
  <2>1. Listed(current) \subseteq Job
    BY <1>0, ListedFacts DEF ExportJobsTypeOK
  <2>2. ExportJobsTypeOK'
    BY <1>0, <1>q, <2>0, <2>1, ExportJobsAssumption DEF ExportJobsTypeOK
  <2>3. ChainOrdered'
    BY <2>0 DEF ChainOrdered
  <2>4. ExportsKept'
    BY <1>0, <1>q, <2>0 DEF ExportsKept
  <2> QED BY <2>2, <2>3, <2>4 DEF JobsInv
<1>7. CASE UNCHANGED jobVars
  BY <1>0, <1>7 DEF jobVars, JobsInv, ExportJobsTypeOK, ChainOrdered, ExportsKept
<1> QED BY <1>1, <1>2, <1>3, <1>4, <1>5, <1>6, <1>7 DEF ExportJobsNext, ExportWork

\* createKeyExportJob hands a job to exportChain, which lives in memory only.
\* However many jobs there are and however they fail, the chain works each one
\* off once and forgets none but those a restart or a failed status write hit,
\* and a finished job's status is final.
THEOREM ExportsSafe == Spec => []ExportsKept
<1>1. Init => JobsInv
  BY JobsInitInv DEF Init
<1>2. JobsInv /\ [Next]_vars => JobsInv'
  BY JobsStepInv, ServiceSteps
<1>3. JobsInv => ExportsKept
  BY DEF JobsInv
<1> QED BY <1>1, <1>2, <1>3, PTL DEF Spec

-----------------------------------------------------------------------------
(* Merkle event log *)

\* Powers of two.  The provers know them only as the number of subsets of a
\* finite set: one more element doubles it.
LEMMA PowerOfTwo ==
  ASSUME NEW l \in Nat
  PROVE  2^l \in Nat /\ 2^l > 0 /\ 2^(l + 1) = 2 * 2^l /\ 2^0 = 1
<1> DEFINE S == 1..l
           T == 1..(l + 1)
           U == {s \in SUBSET T : l + 1 \in s}
           f == [s \in SUBSET S |-> s \cup {l + 1}]
<1>1. /\ IsFiniteSet(S) /\ Cardinality(S) = l
      /\ IsFiniteSet(T) /\ Cardinality(T) = l + 1
  BY FS_Interval
<1>2. /\ IsFiniteSet(SUBSET S) /\ Cardinality(SUBSET S) = 2^l
      /\ IsFiniteSet(SUBSET T) /\ Cardinality(SUBSET T) = 2^(l + 1)
  <2> HIDE DEF S, T
  <2> QED BY <1>1, FS_SUBSET
<1>3. ExistsBijection(SUBSET S, U)
  <2>1. f \in [SUBSET S -> U]
    OBVIOUS
  <2>2. \A s, t \in SUBSET S : f[s] = f[t] => s = t
    <3> SUFFICES ASSUME NEW s \in SUBSET S, NEW t \in SUBSET S,
                        s \cup {l + 1} = t \cup {l + 1}
                 PROVE  s = t
      OBVIOUS
    <3>1. l + 1 \notin S
      OBVIOUS
    <3> HIDE DEF S
    <3> QED BY <3>1
  <2>3. ASSUME NEW u \in U PROVE \E s \in SUBSET S : f[s] = u
    <3>1. u \ {l + 1} \in SUBSET S
      OBVIOUS
    <3>2. f[u \ {l + 1}] = u
      BY <3>1
    <3> QED BY <3>1, <3>2
  <2>4. f \in Bijection(SUBSET S, U)
    <3> HIDE DEF f, S, U
    <3> QED BY <2>1, <2>2, <2>3 DEF Bijection, Injection, Surjection, IsInjective
  <2> QED BY <2>4 DEF ExistsBijection
<1>4. IsFiniteSet(U) /\ Cardinality(U) = 2^l
  <2> HIDE DEF S, U
  <2> QED BY <1>2, <1>3, FS_Bijection
<1>5. SUBSET T = (SUBSET S) \cup U /\ (SUBSET S) \cap U = {}
  OBVIOUS
<1>6. Cardinality(SUBSET T) = 2^l + 2^l
  <2>1. Cardinality({}) = 0
    BY FS_EmptySet
  <2>2. 2^l \in Nat
    <3> HIDE DEF S
    <3> QED BY <1>2, FS_CardinalityType
  <2> HIDE DEF S, T, U
  <2>3. Cardinality((SUBSET S) \cup U)
          = Cardinality(SUBSET S) + Cardinality(U) - Cardinality((SUBSET S) \cap U)
    BY <1>2, <1>4, FS_Union
  <2>4. Cardinality(SUBSET T) = 2^l + 2^l - 0
    BY <1>2, <1>4, <1>5, <2>1, <2>3
  <2> QED BY <2>2, <2>4
<1>7. 2^l \in Nat /\ 2^l > 0
  <2>1. 2^l \in Nat
    <3> HIDE DEF S
    <3> QED BY <1>2, FS_CardinalityType
  <2>2. 2^l # 0
    <3>1. {} \in SUBSET S
      OBVIOUS
    <3> HIDE DEF S
    <3> QED BY <1>2, <3>1, FS_EmptySet
  <2> QED BY <2>1, <2>2
<1> QED BY <1>2, <1>6, <1>7

\* The last position of a level of a tree with n leaves: every level halves it.
LastPos(n, l) == (n - 1) \div 2^l

\* The node above positions 2p and 2p + 1 of a level is their hash; the node
\* above an unpaired position is what stands there.
Stored(l, p) == <<l, p>> \in DOMAIN nodes
Paired(l, p) ==
  Stored(l + 1, p) /\ NodeAt(l + 1, p) = hashPair(NodeAt(l, 2 * p), NodeAt(l, 2 * p + 1))
Promoted(l, p) == Stored(l + 1, p) /\ NodeAt(l + 1, p) = NodeAt(l, 2 * p)

\* The stored rows are the tree of the first n leaves: its leaves, the nodes
\* left of the last path, and the last path itself up to level m.
LeavesStored(n) ==
  \A p \in 0..(n - 1) : Stored(0, p) /\ NodeAt(0, p) = computeEventLeafHash(leafEvents[p + 1])
LeftOfPath(n) ==
  \A l \in Nat, p \in Nat : p < LastPos(n, l + 1) => Paired(l, p)
PathUpTo(n, m) ==
  \A l \in 0..(m - 1) : IF LastPos(n, l) % 2 = 1 THEN Paired(l, LastPos(n, l + 1))
                        ELSE Promoted(l, LastPos(n, l + 1))
GrownTo(n, m) == LeavesStored(n) /\ LeftOfPath(n) /\ PathUpTo(n, m)
TreeOf(n) == n > 0 => GrownTo(n, maxLevel(n))

Working(i) == ingPc[i] \in {"leaf", "extend", "root"}

\* Shapes and ranges, whatever overlaps or fails.
RowShapes ==
  /\ partition = [status |-> partition.status, root |-> partition.root,
                  count |-> partition.count]
  /\ closing = [step |-> closing.step, left |-> closing.left, root |-> closing.root]
  /\ ing = [i \in Ingester |-> ing[i]]
  /\ \A i \in Ingester : DOMAIN ing[i] = {"event", "leaf", "level", "pos", "hash"}
IngestionOK(i) ==
  /\ ing[i].event \in 0..arrived /\ ing[i].level \in Nat
  /\ ing[i].leaf \in 0..Len(leafEvents) /\ ing[i].pos \in 0..ing[i].leaf
  /\ ingPc[i] # "idle" => ing[i].event # 0
  /\ ingPc[i] \in {"open", "insert", "leaf"} => ing[i].level = 0
  /\ Working(i) => ing[i].leaf < Len(leafEvents)
  /\ ingPc[i] = "extend" => ing[i].hash # NoHash
  /\ ingPc[i] = "idle" => ing[i].level = 0 /\ ing[i].pos = 0
NodesHashed == \A k \in DOMAIN nodes : nodes[k] # NoHash

\* An event is stored once.
DistinctLeaves ==
  /\ \A k \in 1..Len(leafEvents) : leafEvents[k] <= arrived
  /\ \A j, k \in 1..Len(leafEvents) : leafEvents[j] = leafEvents[k] => j = k

MerkleTypes ==
  /\ MerkleTypeOK /\ RowShapes /\ NodesHashed /\ DistinctLeaves
  /\ \A i \in Ingester : IngestionOK(i)

\* Undisturbed, one ingestion runs at a time, and none while a close does.
IngestsAlone ==
  /\ \A i, j \in Ingester : ingPc[i] # "idle" /\ ingPc[j] # "idle" => i = j
  /\ closing # NotClosing => \A i \in Ingester : ingPc[i] = "idle"

\* ... the rows are the tree of the leaves, except for the last path while an
\* ingestion is writing it; root and count follow when it is done.
TreeAtRest ==
  (\A i \in Ingester : ~Working(i)) =>
    /\ TreeOf(Len(leafEvents)) /\ partition.count = Len(leafEvents)
    /\ Len(leafEvents) > 0 => partition.root = NodeAt(maxLevel(Len(leafEvents)), 0)
TreeGrowsAt(i) ==
  LET v == ing[i] IN
  /\ ingPc[i] \in {"open", "insert"} => v.leaf = Len(leafEvents)
  /\ Working(i) => v.leaf + 1 = Len(leafEvents) /\ leafEvents[v.leaf + 1] = v.event
  /\ ingPc[i] = "leaf" => TreeOf(v.leaf)
  /\ ingPc[i] = "extend" =>
       /\ v.level <= maxLevel(v.leaf + 1) /\ v.pos = LastPos(v.leaf + 1, v.level)
       /\ Stored(v.level, v.pos) /\ NodeAt(v.level, v.pos) = v.hash
       /\ GrownTo(v.leaf + 1, v.level)
  /\ ingPc[i] = "root" => /\ TreeOf(v.leaf + 1)
                          /\ v.hash = NodeAt(maxLevel(v.leaf + 1), 0)
TreeGrows == TreeAtRest /\ \A i \in Ingester : TreeGrowsAt(i)

\* ... and an open partition is not attested; a close publishes what it has
\* read, which is still the root.
AttestsRoot ==
  /\ partition.status \in {"none", "OPEN"} => attested.roots = {}
  /\ partition.status = "none" => closing = NotClosing /\ Len(leafEvents) = 0
  /\ attested.roots \subseteq {partition.root}
  /\ closing # NotClosing => closing.root = partition.root
  /\ closing.step = "publish" => partition.status \notin {"none", "OPEN"}
  /\ \A i \in Ingester : ingPc[i] = "insert" \/ Working(i) => partition.status = "OPEN"

MerkleInv ==
  /\ MerkleTypes
  /\ ~disturbed => IngestsAlone /\ TreeGrows /\ AttestsRoot

\* Every level has half the positions of the one below, and one position
\* once it reaches over all leaves.
LEMMA Halving ==
  ASSUME NEW n \in Nat \ {0}, NEW l \in Nat
  PROVE  /\ LastPos(n, l) \in Nat /\ LastPos(n, 0) = n - 1
         /\ LastPos(n, l + 1) = LastPos(n, l) \div 2
         /\ LastPos(n, l) = 0 <=> n <= 2^l
         /\ LastPos(n + 1, l) \in {LastPos(n, l), LastPos(n, l) + 1}
         /\ getLevelNodeCount(n, l) = LastPos(n, l) + 1
<1> DEFINE K == 2^l
           p == n - 1
<1>1. K \in Nat /\ K > 0 /\ 2^(l + 1) = 2 * K /\ 2^0 = 1 /\ p \in Nat
  BY PowerOfTwo
<1> HIDE DEF K
<1>2. (p \div K) \in Nat /\ p = K * (p \div K) + (p % K) /\ (p % K) \in 0..(K - 1)
  BY <1>1
<1>3. p \div (2 * K) = (p \div K) \div 2
  BY <1>1
<1>4. p \div K = 0 <=> p < K
  BY <1>1, <1>2
<1>5. (p + 1) \div K \in {p \div K, p \div K + 1}
  BY <1>1, <1>2
<1>6. (p + K) \div K = p \div K + 1
  BY <1>1, <1>2
<1>7. LastPos(n, 0) = n - 1
  BY <1>1 DEF LastPos
<1>8. /\ LastPos(n, l) = p \div K /\ LastPos(n, l + 1) = p \div (2 * K)
      /\ LastPos(n + 1, l) = (p + 1) \div K
      /\ getLevelNodeCount(n, l) = (p + K) \div K
  <2>1. n + 1 - 1 = p + 1 /\ n + K - 1 = p + K
    BY <1>1
  <2>2. LastPos(n, l) = p \div K /\ LastPos(n, l + 1) = p \div (2 * K)
    BY <1>1 DEF LastPos, K
  <2> HIDE DEF p
  <2> QED BY <2>1, <2>2 DEF LastPos, getLevelNodeCount, K
<1> QED BY <1>1, <1>2, <1>3, <1>4, <1>5, <1>6, <1>7, <1>8 DEF K

\* No number is larger than that power of two.
LEMMA PowerExceeds == \A n \in Nat : n <= 2^n
<1> DEFINE T == {n \in Nat : ~(n <= 2^n)}
<1>1. SUFFICES ASSUME T # {} PROVE FALSE
  OBVIOUS
<1>2. PICK m \in T : \A k \in T : m <= k
  <2>1. T \in SUBSET Nat
    OBVIOUS
  <2> HIDE DEF T
  <2> QED BY <1>1, <2>1, LeastNatural
<1>3. m # 0
  BY PowerOfTwo
<1>4. m - 1 \in Nat /\ m - 1 \notin T
  BY <1>2, <1>3
<1>5. m - 1 <= 2^(m - 1)
  BY <1>4
<1>6. 2^m = 2 * 2^(m - 1) /\ 2^(m - 1) \in Nat /\ 2^(m - 1) > 0
  <2>1. (m - 1) + 1 = m
    BY <1>4
  <2> QED BY <1>4, <2>1, PowerOfTwo
<1> QED BY <1>2, <1>4, <1>5, <1>6

\* maxLevel is the first level with a single node.
LEMMA MaxLevelFacts ==
  ASSUME NEW n \in Nat \ {0}
  PROVE  /\ maxLevel(n) \in 0..n /\ LastPos(n, maxLevel(n)) = 0
         /\ \A l \in Nat : l < maxLevel(n) => LastPos(n, l) > 0
<1> DEFINE T == {l \in Nat : n <= 2^l}
<1>1. n \in T
  BY PowerExceeds
<1>2. PICK m \in T : \A k \in T : m <= k
  <2>1. T \in SUBSET Nat /\ T # {}
    BY <1>1
  <2> HIDE DEF T
  <2> QED BY <2>1, LeastNatural
<1>3. \A l \in Nat : 2^l \in Nat
  BY PowerOfTwo
<1>4. m \in 0..n /\ n <= 2^m /\ \A k \in 0..(m - 1) : n > 2^k
  BY <1>1, <1>2, <1>3
<1>5. /\ maxLevel(n) \in 0..n /\ n <= 2^maxLevel(n)
      /\ \A k \in 0..(maxLevel(n) - 1) : n > 2^k
  <2> DEFINE P(l) == n <= 2^l /\ \A k \in 0..(l - 1) : n > 2^k
  <2>1. maxLevel(n) = CHOOSE l \in 0..n : P(l)
    BY DEF maxLevel
  <2>2. P(m) /\ m \in 0..n
    BY <1>4
  <2>3. maxLevel(n) \in 0..n /\ P(maxLevel(n))
    <3> HIDE DEF P
    <3> QED BY <2>1, <2>2
  <2> QED BY <2>3
<1>6. ASSUME NEW l \in Nat, l < maxLevel(n) PROVE LastPos(n, l) > 0
  <2>1. n > 2^l /\ 2^l \in Nat
    BY <1>3, <1>5, <1>6
  <2>2. LastPos(n, l) \in Nat /\ (LastPos(n, l) = 0 <=> n <= 2^l)
    BY Halving
  <2> QED BY <2>1, <2>2
<1>7. LastPos(n, maxLevel(n)) = 0
  BY <1>5, Halving
<1> QED BY <1>5, <1>6, <1>7


\* Levels below one with several nodes have several nodes.
LEMMA PositiveBelow ==
  ASSUME NEW n \in Nat \ {0}, NEW l \in Nat, LastPos(n, l) # 0
  PROVE  l < maxLevel(n)
<1>1. /\ maxLevel(n) \in Nat /\ LastPos(n, maxLevel(n)) = 0
  BY MaxLevelFacts
<1> DEFINE M == maxLevel(n)
           T == {k \in Nat : LastPos(n, M + k) # 0}
<1>2. T = {}
  <2>1. SUFFICES ASSUME T # {} PROVE FALSE
    OBVIOUS
  <2>2. PICK k \in T : \A j \in T : k <= j
    <3>1. T \in SUBSET Nat
      OBVIOUS
    <3> HIDE DEF T
    <3> QED BY <2>1, <3>1, LeastNatural
  <2>3. k # 0 /\ M \in Nat
    BY <1>1
  <2>4. k - 1 \in Nat /\ k - 1 \notin T
    BY <2>2, <2>3
  <2>5. LastPos(n, M + (k - 1)) = 0 /\ M + (k - 1) \in Nat /\ (M + (k - 1)) + 1 = M + k
    BY <2>3, <2>4
  <2>6. LastPos(n, M + k) = 0 \div 2
    BY <2>5, Halving
  <2> QED BY <2>6
<1>3. ASSUME ~(l < M) PROVE FALSE
  <2>1. l - M \in Nat /\ M + (l - M) = l
    BY <1>1, <1>3
  <2> QED BY <1>2, <2>1
<1> QED BY <1>3

-----------------------------------------------------------------------------
\* What the upsert of a node changes.
LEMMA PutNodeFacts ==
  ASSUME NEW l, NEW p, NEW h, PutNode(l, p, h)
  PROVE  /\ DOMAIN nodes' = DOMAIN nodes \cup {<<l, p>>}
         /\ nodes'[<<l, p>>] = h
         /\ \A k \in DOMAIN nodes : k # <<l, p>> => nodes'[k] = nodes[k]
         /\ Stored(l, p)' /\ NodeAt(l, p)' = h
         /\ \A a, b : a # l \/ b # p => /\ Stored(a, b)' <=> Stored(a, b)
                                        /\ NodeAt(a, b)' = NodeAt(a, b)
<1>1. /\ DOMAIN nodes' = DOMAIN nodes \cup {<<l, p>>}
      /\ nodes'[<<l, p>>] = h
      /\ \A k \in DOMAIN nodes : k # <<l, p>> => nodes'[k] = nodes[k]
  BY DEF PutNode
<1>2. ASSUME NEW a, NEW b, a # l \/ b # p
      PROVE  /\ Stored(a, b)' <=> Stored(a, b)
             /\ NodeAt(a, b)' = NodeAt(a, b)
  <2>1. <<a, b>> # <<l, p>>
    BY <1>2
  <2> QED BY <1>1, <2>1 DEF Stored, NodeAt
<1> QED BY <1>1, <1>2 DEF Stored, NodeAt

\* What stands above position q of a level of the tree.
LEMMA NodeAbove ==
  ASSUME NEW n \in Nat \ {0}, NEW m \in Nat, GrownTo(n, m),
         NEW l \in 0..(m - 1), NEW q \in 0..LastPos(n, l)
  PROVE  /\ q % 2 = 1 => NodeAt(l + 1, q \div 2) = hashPair(NodeAt(l, q - 1), NodeAt(l, q))
         /\ q % 2 = 0 /\ q + 1 <= LastPos(n, l) =>
              NodeAt(l + 1, q \div 2) = hashPair(NodeAt(l, q), NodeAt(l, q + 1))
         /\ q % 2 = 0 /\ q = LastPos(n, l) => NodeAt(l + 1, q \div 2) = NodeAt(l, q)
<1> DEFINE a == LastPos(n, l)
           p == q \div 2
<1>1. a \in Nat /\ LastPos(n, l + 1) = a \div 2 /\ p \in Nat /\ p <= a \div 2
  <2>1. l \in Nat
    OBVIOUS
  <2>2. a \in Nat /\ LastPos(n, l + 1) = a \div 2
    BY <2>1, Halving
  <2> QED BY <2>2
<1>2. p < a \div 2 => Paired(l, p)
  BY <1>1 DEF GrownTo, LeftOfPath
<1>3. p = a \div 2 => IF a % 2 = 1 THEN Paired(l, p) ELSE Promoted(l, p)
  BY <1>1 DEF GrownTo, PathUpTo
<1> HIDE DEF a
<1>4. CASE q % 2 = 1
  <2>1. q = 2 * p + 1 /\ q - 1 = 2 * p
    BY <1>4
  <2>2. p = a \div 2 => a % 2 = 1
    BY <1>1, <1>4 DEF a
  <2>3. Paired(l, p)
    BY <1>1, <1>2, <1>3, <2>2
  <2> HIDE DEF p
  <2> QED BY <1>4, <2>1, <2>3 DEF Paired, p
<1>5. CASE q % 2 = 0 /\ q + 1 <= a
  <2>1. q = 2 * p /\ q + 1 = 2 * p + 1
    BY <1>5
  <2>2. p = a \div 2 => a % 2 = 1
    BY <1>1, <1>5
  <2>3. Paired(l, p)
    BY <1>1, <1>2, <1>3, <2>2
  <2>4. q # a /\ q % 2 # 1
    BY <1>1, <1>5
  <2> HIDE DEF p
  <2> QED BY <1>5, <2>1, <2>3, <2>4 DEF Paired, p, a
<1>6. CASE q % 2 = 0 /\ q = a
  <2>1. q = 2 * p /\ a % 2 # 1 /\ p = a \div 2 /\ ~(q + 1 <= a)
    BY <1>1, <1>6
  <2>2. Promoted(l, p)
    BY <1>3, <2>1
  <2> HIDE DEF p
  <2> QED BY <1>6, <2>1, <2>2 DEF Promoted, p, a
<1>7. q % 2 \in {0, 1}
  OBVIOUS
<1> QED BY <1>4, <1>5, <1>6, <1>7 DEF a

\* A node left of the last one is stored.
LEMMA LeftStored ==
  ASSUME NEW n \in Nat \ {0}, LeavesStored(n), LeftOfPath(n), NEW l \in Nat,
         NEW p \in Nat, p < LastPos(n, l)
  PROVE  Stored(l, p)
<1>1. CASE l = 0
  <2>1. p \in 0..(n - 1)
    BY <1>1, Halving
  <2> QED BY <1>1, <2>1 DEF LeavesStored
<1>2. CASE l # 0
  <2>1. l - 1 \in Nat /\ (l - 1) + 1 = l
    BY <1>2
  <2>2. Paired(l - 1, p)
    BY <2>1 DEF LeftOfPath
  <2> QED BY <2>1, <2>2 DEF Paired
<1> QED BY <1>1, <1>2

\* The leaf of one more event: what was the last path of the old tree is left
\* of the new one wherever it is complete.
LEMMA GrowLeaf ==
  ASSUME NEW m \in Nat, TreeOf(m), NEW h, PutNode(0, m, h), UNCHANGED leafEvents,
         h = computeEventLeafHash(leafEvents[m + 1])
  PROVE  GrownTo(m + 1, 0)'
<1> DEFINE n == m + 1
<1>0. /\ \A l, p : l # 0 \/ p # m => /\ Stored(l, p)' <=> Stored(l, p)
                                     /\ NodeAt(l, p)' = NodeAt(l, p)
      /\ Stored(0, m)' /\ NodeAt(0, m)' = h
  BY PutNodeFacts
<1>1. LeavesStored(n)'
  <2> SUFFICES ASSUME NEW p \in 0..m
               PROVE  Stored(0, p)' /\ NodeAt(0, p)' = computeEventLeafHash(leafEvents[p + 1])
    BY DEF LeavesStored
  <2>1. CASE p = m
    BY <1>0, <2>1
  <2>2. CASE p # m
    <3>1. p \in 0..(m - 1) /\ m > 0
      BY <2>2
    <3> QED BY <1>0, <2>2, <3>1 DEF TreeOf, GrownTo, LeavesStored
  <2> QED BY <2>1, <2>2
<1>2. LeftOfPath(n)'
  <2> SUFFICES ASSUME NEW l \in Nat, NEW p \in Nat, p < LastPos(n, l + 1)
               PROVE  Paired(l, p)'
    BY DEF LeftOfPath
  <2>1. /\ LastPos(n, l + 1) = LastPos(n, l) \div 2 /\ LastPos(n, l) \in Nat
        /\ LastPos(n, 0) = m
    BY Halving
  <2>2. m > 0
    <3> SUFFICES ASSUME m = 0 PROVE FALSE
      OBVIOUS
    <3>1. 1 <= 2^(l + 1)
      BY PowerOfTwo
    <3>2. LastPos(1, l + 1) = 0
      BY <3>1, Halving
    <3> QED BY <3>2
  <2>3. /\ LastPos(m, l) \in Nat /\ LastPos(m, l + 1) = LastPos(m, l) \div 2
        /\ LastPos(n, l) \in {LastPos(m, l), LastPos(m, l) + 1}
    BY <2>2, Halving
  <2>4. GrownTo(m, maxLevel(m))
    BY <2>2 DEF TreeOf
  <2>5. Paired(l, p)
    <3>1. CASE p < LastPos(m, l + 1)
      BY <2>4, <3>1 DEF GrownTo, LeftOfPath
    <3>2. CASE ~(p < LastPos(m, l + 1))
      <4> DEFINE a == LastPos(m, l)
                 b == LastPos(n, l)
      <4>1. p < b \div 2 /\ ~(p < a \div 2) /\ a \in Nat /\ b \in {a, a + 1}
        BY <2>1, <2>3, <3>2
      <4> HIDE DEF a, b
      <4>2. a = 2 * p + 1 /\ p = a \div 2 /\ a % 2 = 1 /\ a # 0
        BY <4>1
      <4>3. maxLevel(m) \in Nat /\ LastPos(m, maxLevel(m)) = 0
        BY <2>2, MaxLevelFacts
      <4>4. l < maxLevel(m)
        BY <2>2, <4>2, <4>3, PositiveBelow DEF a
      <4>5. l \in 0..(maxLevel(m) - 1)
        BY <4>3, <4>4
      <4> QED BY <2>3, <2>4, <4>2, <4>5 DEF GrownTo, PathUpTo, a
    <3> QED BY <3>1, <3>2
  <2>6. 2 * p + 1 < m \/ l # 0
    BY <2>1
  <2>7. /\ l + 1 # 0 /\ (l # 0 \/ 2 * p # m) /\ (l # 0 \/ 2 * p + 1 # m)
    BY <2>6
  <2> QED BY <1>0, <2>5, <2>7 DEF Paired
<1>3. PathUpTo(n, 0)'
  BY DEF PathUpTo
<1> QED BY <1>1, <1>2, <1>3 DEF GrownTo

\* One level of the last path: the node above the last one is written.
LEMMA GrowPath ==
  ASSUME NEW n \in Nat \ {0}, NEW l \in Nat, GrownTo(n, l),
         Stored(l, LastPos(n, l)), NEW h, UNCHANGED leafEvents,
         h = IF LastPos(n, l) % 2 = 1
             THEN hashPair(NodeAt(l, LastPos(n, l) - 1), NodeAt(l, LastPos(n, l)))
             ELSE NodeAt(l, LastPos(n, l)),
         PutNode(l + 1, LastPos(n, l + 1), h)
  PROVE  /\ GrownTo(n, l + 1)' /\ Stored(l + 1, LastPos(n, l + 1))'
         /\ NodeAt(l + 1, LastPos(n, l + 1))' = h
<1> DEFINE a == LastPos(n, l)
<1> PICK q : q = LastPos(n, l + 1)
  OBVIOUS
<1>0. /\ \A k, p : k # l + 1 \/ p # q => /\ Stored(k, p)' <=> Stored(k, p)
                                         /\ NodeAt(k, p)' = NodeAt(k, p)
      /\ Stored(l + 1, q)' /\ NodeAt(l + 1, q)' = h
  <2> PICK k1 : k1 = l + 1
    OBVIOUS
  <2>1. PutNode(k1, q, h)
    BY DEF PutNode
  <2>2. /\ \A k, p : k # k1 \/ p # q => /\ Stored(k, p)' <=> Stored(k, p)
                                        /\ NodeAt(k, p)' = NodeAt(k, p)
        /\ Stored(k1, q)' /\ NodeAt(k1, q)' = h
    <3>1. Stored(k1, q)'
      BY <2>1, PutNodeFacts
    <3>2. NodeAt(k1, q)' = h
      BY <2>1 DEF PutNode, NodeAt
    <3>3. ASSUME NEW k, NEW p, k # k1 \/ p # q PROVE Stored(k, p)' <=> Stored(k, p)
      BY <2>1, <3>3, PutNodeFacts
    <3>4. ASSUME NEW k, NEW p, k # k1 \/ p # q PROVE NodeAt(k, p)' = NodeAt(k, p)
      BY <2>1, <3>4, PutNodeFacts
    <3> QED BY <3>1, <3>2, <3>3, <3>4
  <2> QED BY <2>2
<1>1. a \in Nat /\ q = a \div 2 /\ q \in Nat
  BY Halving
<1>2. LeavesStored(n)'
  <2>1. \A p : (Stored(0, p)' <=> Stored(0, p)) /\ NodeAt(0, p)' = NodeAt(0, p)
    BY <1>0
  <2> QED BY <2>1 DEF GrownTo, LeavesStored
<1>3. LeftOfPath(n)'
  <2> SUFFICES ASSUME NEW k \in Nat, NEW p \in Nat, p < LastPos(n, k + 1)
               PROVE  Paired(k, p)'
    BY DEF LeftOfPath
  <2>1. Paired(k, p)
    BY DEF GrownTo, LeftOfPath
  <2>2. k + 1 # l + 1 \/ p # q
    BY <1>1
  <2>3. k = l + 1 => 2 * p + 1 < q
    <3> SUFFICES ASSUME k = l + 1 PROVE 2 * p + 1 < q
      OBVIOUS
    <3>1. LastPos(n, k + 1) = q \div 2
      BY Halving
    <3> QED BY <1>1, <3>1
  <2>4. (k # l + 1 \/ 2 * p # q) /\ (k # l + 1 \/ 2 * p + 1 # q)
    BY <1>1, <2>3
  <2> QED BY <1>0, <2>1, <2>2, <2>4 DEF Paired
<1>4. PathUpTo(n, l + 1)'
  <2> SUFFICES ASSUME NEW k \in 0..l
               PROVE  IF LastPos(n, k) % 2 = 1 THEN Paired(k, LastPos(n, k + 1))'
                      ELSE Promoted(k, LastPos(n, k + 1))'
    BY DEF PathUpTo
  <2>1. CASE k = l
    <3>1. \A p : NodeAt(l, p)' = NodeAt(l, p)
      BY <1>0
    <3>2. a % 2 = 1 => a - 1 = 2 * q /\ a = 2 * q + 1
      BY <1>1
    <3>3. a % 2 # 1 => a = 2 * q
      BY <1>1
    <3>4. a % 2 = 1 => Paired(l, q)'
      BY <1>0, <3>1, <3>2 DEF Paired
    <3>5. a % 2 # 1 => Promoted(l, q)'
      BY <1>0, <3>1, <3>3 DEF Promoted
    <3> QED BY <2>1, <3>4, <3>5
  <2>2. CASE k # l
    <3>1. k \in 0..(l - 1) /\ k # l + 1 /\ k + 1 # l + 1
      BY <2>2
    <3>2. IF LastPos(n, k) % 2 = 1 THEN Paired(k, LastPos(n, k + 1))
          ELSE Promoted(k, LastPos(n, k + 1))
      BY <3>1 DEF GrownTo, PathUpTo
    <3>3. \A p : (Stored(k + 1, p)' <=> Stored(k + 1, p))
                /\ NodeAt(k + 1, p)' = NodeAt(k + 1, p) /\ NodeAt(k, p)' = NodeAt(k, p)
      BY <1>0, <3>1
    <3> QED BY <3>2, <3>3 DEF Paired, Promoted
  <2> QED BY <2>1, <2>2
<1> QED BY <1>0, <1>2, <1>3, <1>4 DEF GrownTo

-----------------------------------------------------------------------------
(* The recursive functions over a tree that is stored as it should be *)

\* One level of the rehash, from the one below it.
Rehashed(below) ==
  [p \in 1..((Len(below) + 1) \div 2) |->
     IF 2 * p <= Len(below) THEN hashPair(below[2 * p - 1], below[2 * p])
     ELSE below[2 * p - 1]]
RehashTable(n) ==
  CHOOSE level : level = [l \in 0..maxLevel(n) |->
    IF l = 0 THEN [p \in 1..n |-> NodeAt(0, p - 1)] ELSE Rehashed(level[l - 1])]

\* Rehashing the stored leaves level by level gives the stored root.
LEMMA RehashIsRoot ==
  ASSUME NEW n \in Nat \ {0}, n = Len(leafEvents), GrownTo(n, maxLevel(n))
  PROVE  recomputeRootFromState = NodeAt(maxLevel(n), 0)
<1> DEFINE M == maxLevel(n)
           Row(l) == [p \in 1..(LastPos(n, l) + 1) |-> NodeAt(l, p - 1)]
           Step(level, l) == IF l = 0 THEN [p \in 1..n |-> NodeAt(0, p - 1)]
                             ELSE Rehashed(level[l - 1])
           f == [l \in 0..M |-> Row(l)]
<1>1. recomputeRootFromState = RehashTable(n)[M][1]
  BY DEF recomputeRootFromState, RehashTable, Rehashed
<1>2. M \in Nat /\ LastPos(n, M) = 0
  BY MaxLevelFacts
<1>3. Row(0) = [p \in 1..n |-> NodeAt(0, p - 1)]
  BY Halving
<1>4. ASSUME NEW l \in 0..M, l # 0 PROVE Row(l) = Rehashed(Row(l - 1))
  <2> DEFINE a == LastPos(n, l - 1)
  <2>1. l - 1 \in Nat /\ l - 1 \in 0..(M - 1) /\ (l - 1) + 1 = l
    BY <1>2, <1>4
  <2>2. a \in Nat /\ LastPos(n, l) = a \div 2
    BY <2>1, Halving
  <2>3. Len(Row(l - 1)) = a + 1
    BY <2>2
  <2>4. (a + 2) \div 2 = a \div 2 + 1
    BY <2>2
  <2>5. ASSUME NEW p \in 1..(a \div 2 + 1)
        PROVE  NodeAt(l, p - 1) = IF 2 * p <= a + 1
                 THEN hashPair(NodeAt(l - 1, 2 * p - 2), NodeAt(l - 1, 2 * p - 1))
                 ELSE NodeAt(l - 1, 2 * p - 2)
    <3> DEFINE q == 2 * p - 2
    <3>1. /\ q \in 0..a /\ q % 2 = 0 /\ q \div 2 = p - 1 /\ q + 1 = 2 * p - 1
          /\ 2 * p <= a + 1 => q + 1 <= a
          /\ ~(2 * p <= a + 1) => q = a
      BY <2>2
    <3>2. /\ q + 1 <= a => NodeAt(l, q \div 2) = hashPair(NodeAt(l - 1, q), NodeAt(l - 1, q + 1))
          /\ q = a => NodeAt(l, q \div 2) = NodeAt(l - 1, q)
      <4> HIDE DEF q
      <4> QED BY <1>2, <2>1, <3>1, NodeAbove
    <3> HIDE DEF a
    <3> QED BY <3>1, <3>2
  <2>6. \A p \in 1..(a \div 2 + 1) :
          /\ 2 * p - 1 \in 1..(a + 1) /\ 2 * p - 1 - 1 = 2 * p - 2
          /\ 2 * p <= a + 1 => 2 * p \in 1..(a + 1)
    BY <2>2
  <2>7. \A k \in 1..(a + 1) : Row(l - 1)[k] = NodeAt(l - 1, k - 1)
    OBVIOUS
  <2>8. Rehashed(Row(l - 1)) = [p \in 1..(a \div 2 + 1) |-> NodeAt(l, p - 1)]
    <3> DEFINE r == Row(l - 1)
    <3>1. (Len(r) + 1) \div 2 = a \div 2 + 1
      BY <2>2, <2>3, <2>4
    <3>2. ASSUME NEW p \in 1..(a \div 2 + 1)
          PROVE  (IF 2 * p <= Len(r) THEN hashPair(r[2 * p - 1], r[2 * p])
                  ELSE r[2 * p - 1]) = NodeAt(l, p - 1)
      <4>1. /\ 2 * p - 1 \in 1..(a + 1) /\ 2 * p - 1 - 1 = 2 * p - 2
            /\ 2 * p <= a + 1 => 2 * p \in 1..(a + 1)
        BY <2>6
      <4>2. r[2 * p - 1] = NodeAt(l - 1, 2 * p - 2)
        BY <2>7, <4>1
      <4>3. 2 * p <= a + 1 => r[2 * p] = NodeAt(l - 1, 2 * p - 1)
        BY <2>7, <4>1
      <4> HIDE DEF a, r
      <4> QED BY <2>3, <2>5, <4>2, <4>3 DEF r
    <3>3. Rehashed(r) = [p \in 1..((Len(r) + 1) \div 2) |->
                           IF 2 * p <= Len(r) THEN hashPair(r[2 * p - 1], r[2 * p])
                           ELSE r[2 * p - 1]]
      BY DEF Rehashed
    <3> HIDE DEF a, r
    <3> QED BY <3>1, <3>2, <3>3 DEF r
  <2> QED BY <2>2, <2>8
<1>5. f = [l \in 0..M |-> Step(f, l)]
  <2>1. ASSUME NEW l \in 0..M PROVE f[l] = Step(f, l)
    <3>1. CASE l = 0
      BY <1>3, <3>1
    <3>2. CASE l # 0
      <4>1. l - 1 \in 0..M
        BY <1>2, <3>2
      <4>2. f[l] = Row(l) /\ f[l - 1] = Row(l - 1)
        BY <4>1
      <4> HIDE DEF f, Row
      <4> QED BY <1>4, <3>2, <4>2
    <3> QED BY <3>1, <3>2
  <2>2. f = [l \in 0..M |-> f[l]]
    OBVIOUS
  <2> HIDE DEF f, Step
  <2> QED BY <2>1, <2>2
<1>6. RehashTable(n) = [l \in 0..M |-> Step(RehashTable(n), l)]
  <2>1. RehashTable(n) = CHOOSE g : g = [l \in 0..M |-> Step(g, l)]
    BY DEF RehashTable
  <2> HIDE DEF f, Step, M
  <2> QED BY <1>5, <2>1
<1> DEFINE g == RehashTable(n)
           T == {l \in 0..M : g[l] # Row(l)}
<1>7. T = {}
  <2>1. SUFFICES ASSUME T # {} PROVE FALSE
    OBVIOUS
  <2>2. PICK l \in T : \A k \in T : l <= k
    <3>1. T \in SUBSET Nat
      BY <1>2
    <3> HIDE DEF T
    <3> QED BY <2>1, <3>1, LeastNatural
  <2>3. l \in 0..M /\ g[l] # Row(l)
    OBVIOUS
  <2>4. g[l] = Step(g, l)
    <3> HIDE DEF Step, M
    <3> QED BY <1>6, <2>3
  <2>5. l # 0
    BY <1>3, <2>3, <2>4
  <2>6. l - 1 \in 0..M /\ l - 1 \notin T
    BY <1>2, <2>2, <2>3, <2>5
  <2>7. g[l - 1] = Row(l - 1)
    BY <2>6
  <2> HIDE DEF Row, g
  <2> QED BY <1>4, <2>3, <2>4, <2>5, <2>7
<1>8. g[M] = Row(M)
  <2>1. M \in 0..M
    BY <1>2
  <2>2. M \notin T
    BY <1>7
  <2> HIDE DEF g, Row, M
  <2> QED BY <2>1, <2>2
<1>9. Row(M)[1] = NodeAt(M, 0)
  BY <1>2
<1> QED BY <1>1, <1>8, <1>9

\* One step of a verifier's climb.
ClimbStep(s, h) ==
  CASE s.side = "left"  -> hashPair(s.hash, h)
    [] s.side = "right" -> hashPair(h, s.hash)
    [] OTHER            -> h
ClimbTable(n, p) ==
  CHOOSE climb : climb = [l \in 0..maxLevel(n) |->
    IF l = 0 THEN computeEventLeafHash(leafEvents[p + 1])
    ELSE ClimbStep(getEventInclusionProof(n, l - 1, p \div 2^(l - 1)), climb[l - 1])]

\* The climb along the served siblings of any leaf meets the stored nodes
\* above it, and ends at the stored root.
LEMMA ClimbIsRoot ==
  ASSUME NEW n \in Nat \ {0}, GrownTo(n, maxLevel(n)), NEW p \in 0..(n - 1)
  PROVE  verifyInclusionProof(n, p) = NodeAt(maxLevel(n), 0)
<1> DEFINE M == maxLevel(n)
           Pos(l) == p \div 2^l
           Sibling(l) == getEventInclusionProof(n, l, Pos(l))
           Step(climb, l) == IF l = 0 THEN computeEventLeafHash(leafEvents[p + 1])
                             ELSE ClimbStep(Sibling(l - 1), climb[l - 1])
           Above(l) == NodeAt(l, Pos(l))
           f == [l \in 0..M |-> Above(l)]
<1>1. verifyInclusionProof(n, p) = ClimbTable(n, p)[M]
  BY DEF verifyInclusionProof, ClimbTable, ClimbStep
<1>2. M \in Nat /\ LastPos(n, M) = 0
  BY MaxLevelFacts
<1>3. ASSUME NEW l \in Nat
      PROVE  /\ Pos(l) \in 0..LastPos(n, l) /\ Pos(l + 1) = Pos(l) \div 2
             /\ Pos(0) = p
  <2>1. /\ LastPos(p + 1, l) \in Nat /\ LastPos(p + 1, 0) = p
        /\ LastPos(p + 1, l + 1) = LastPos(p + 1, l) \div 2
    <3> PICK m \in Nat \ {0} : m = p + 1
      OBVIOUS
    <3>1. /\ LastPos(m, l) \in Nat /\ LastPos(m, 0) = m - 1
          /\ LastPos(m, l + 1) = LastPos(m, l) \div 2
      BY Halving
    <3> QED BY <3>1
  <2>2. Pos(l) = LastPos(p + 1, l) /\ Pos(l + 1) = LastPos(p + 1, l + 1)
        /\ Pos(0) = LastPos(p + 1, 0)
    <3>1. (p + 1) - 1 = p
      OBVIOUS
    <3> QED BY <3>1, Zenon DEF LastPos
  <2>3. Pos(l) <= LastPos(n, l)
    <3> PICK K : K = 2^l
      OBVIOUS
    <3>1. K \in Nat /\ K > 0
      BY PowerOfTwo
    <3>2. p \div K <= (n - 1) \div K
      BY <3>1
    <3> QED BY <3>2 DEF LastPos
  <2>4. LastPos(n, l) \in Nat
    BY Halving
  <2> HIDE DEF Pos
  <2> QED BY <2>1, <2>2, <2>3, <2>4
<1>4. Above(0) = computeEventLeafHash(leafEvents[p + 1])
  <2>1. Pos(0) = p
    BY <1>3
  <2> HIDE DEF Pos
  <2> QED BY <2>1 DEF GrownTo, LeavesStored
<1>5. ASSUME NEW l \in 0..M, l # 0 PROVE Above(l) = ClimbStep(Sibling(l - 1), Above(l - 1))
  <2> PICK k \in Nat : k = l - 1
    BY <1>5
  <2> PICK q : q = Pos(k)
    OBVIOUS
  <2>1. k \in 0..(M - 1) /\ k + 1 = l
    BY <1>2
  <2>2. q \in 0..LastPos(n, k) /\ Pos(l) = q \div 2
    <3>1. q \in 0..LastPos(n, k) /\ Pos(k + 1) = q \div 2
      <4> HIDE DEF Pos
      <4> QED BY <1>3
    <3> QED BY <2>1, <3>1
  <2>3. LastPos(n, k) \in Nat /\ getLevelNodeCount(n, k) = LastPos(n, k) + 1
    BY Halving
  <2>4. /\ q % 2 = 1 => NodeAt(l, q \div 2) = hashPair(NodeAt(k, q - 1), NodeAt(k, q))
        /\ q % 2 = 0 /\ q + 1 <= LastPos(n, k) =>
             NodeAt(l, q \div 2) = hashPair(NodeAt(k, q), NodeAt(k, q + 1))
        /\ q % 2 = 0 /\ q = LastPos(n, k) => NodeAt(l, q \div 2) = NodeAt(k, q)
    BY <1>2, <2>1, <2>2, NodeAbove
  <2>5. NodeAt(l, q \div 2) = ClimbStep(getEventInclusionProof(n, k, q), NodeAt(k, q))
    <3>1. CASE q % 2 = 1
      <4>1. getEventInclusionProof(n, k, q) = [side |-> "left", hash |-> NodeAt(k, q - 1)]
        BY <3>1 DEF getEventInclusionProof
      <4> QED BY <2>4, <3>1, <4>1 DEF ClimbStep
    <3>2. CASE q % 2 = 0 /\ q + 1 <= LastPos(n, k)
      <4>1. getEventInclusionProof(n, k, q) = [side |-> "right", hash |-> NodeAt(k, q + 1)]
        <5>1. q % 2 # 1 /\ q + 1 < LastPos(n, k) + 1
          BY <2>2, <2>3, <3>2
        <5> QED BY <2>3, <5>1 DEF getEventInclusionProof
      <4> QED BY <2>4, <3>2, <4>1 DEF ClimbStep
    <3>3. CASE q % 2 = 0 /\ q = LastPos(n, k)
      <4>1. getEventInclusionProof(n, k, q) = [side |-> "none", hash |-> NoHash]
        <5>1. q % 2 # 1 /\ ~(q + 1 < LastPos(n, k) + 1)
          BY <2>2, <2>3, <3>3
        <5> QED BY <2>3, <5>1 DEF getEventInclusionProof
      <4> QED BY <2>4, <3>3, <4>1 DEF ClimbStep
    <3>4. q % 2 \in {0, 1} /\ (q + 1 <= LastPos(n, k) \/ q = LastPos(n, k))
      BY <2>2, <2>3
    <3> QED BY <3>1, <3>2, <3>3, <3>4
  <2> HIDE DEF Pos
  <2> QED BY <2>2, <2>5
<1>6. f = [l \in 0..M |-> Step(f, l)]
  <2>1. ASSUME NEW l \in 0..M PROVE f[l] = Step(f, l)
    <3> HIDE DEF Above
    <3>1. CASE l = 0
      BY <1>4, <3>1
    <3>2. CASE l # 0
      <4>1. l - 1 \in 0..M
        BY <1>2, <3>2
      <4>2. f[l] = Above(l) /\ f[l - 1] = Above(l - 1)
        BY <4>1
      <4> HIDE DEF f, Sibling
      <4> QED BY <1>5, <3>2, <4>2
    <3> QED BY <3>1, <3>2
  <2>2. f = [l \in 0..M |-> f[l]]
    OBVIOUS
  <2> HIDE DEF f, Step
  <2> QED BY <2>1, <2>2
<1> DEFINE g == ClimbTable(n, p)
<1>7. g = [l \in 0..M |-> Step(g, l)]
  <2>1. ClimbTable(n, p) = CHOOSE c : c = [l \in 0..M |-> Step(c, l)]
    BY DEF ClimbTable
  <2> HIDE DEF f, Step, M
  <2> QED BY <1>6, <2>1
<1> DEFINE T == {l \in 0..M : g[l] # Above(l)}
<1>8. T = {}
  <2>1. SUFFICES ASSUME T # {} PROVE FALSE
    OBVIOUS
  <2>2. PICK l \in T : \A k \in T : l <= k
    <3>1. T \in SUBSET Nat
      BY <1>2
    <3> HIDE DEF T
    <3> QED BY <2>1, <3>1, LeastNatural
  <2>3. l \in 0..M /\ g[l] # Above(l)
    OBVIOUS
  <2>4. g[l] = Step(g, l)
    <3> HIDE DEF Step, M, g
    <3> QED BY <1>7, <2>3
  <2>5. l # 0
    <3> HIDE DEF Above, g
    <3> QED BY <1>4, <2>3, <2>4
  <2>6. l - 1 \in 0..M /\ l - 1 \notin T
    BY <1>2, <2>2, <2>3, <2>5
  <2>7. g[l - 1] = Above(l - 1)
    BY <2>6
  <2> HIDE DEF Above, g, Sibling
  <2> QED BY <1>5, <2>3, <2>4, <2>5, <2>7
<1>9. g[M] = Above(M)
  <2>1. M \in 0..M
    BY <1>2
  <2>2. M \notin T
    BY <1>8
  <2> HIDE DEF g, Above, M
  <2> QED BY <2>1, <2>2
<1>10. Pos(M) = 0
  <2>1. Pos(M) \in 0..0
    <3> HIDE DEF Pos
    <3> QED BY <1>2, <1>3
  <2> QED BY <2>1
<1> HIDE DEF Pos, g
<1> QED BY <1>1, <1>9, <1>10 DEF g

\* They hold initially ...
LEMMA MerkleInitTypes == MerkleInit => MerkleTypes
<1> SUFFICES ASSUME MerkleInit PROVE MerkleTypes
  OBVIOUS
<1>1. MerkleTypeOK
  <2>1. DOMAIN nodes = {}
    BY DEF MerkleInit
  <2>2. leafEvents \in Seq(1..MaxEvents) /\ Len(leafEvents) = 0
    BY DEF MerkleInit
  <2>3. partition.status = "none" /\ partition.count = 0
    BY DEF MerkleInit
  <2>4. closing.step = "no" /\ closing.left = 0
    BY DEF MerkleInit, NotClosing
  <2>5. arrived \in 0..MaxEvents /\ merkleFaults \in 0..MerkleFaults /\ 0 <= arrived
    BY MerkleLogAssumption DEF MerkleInit
  <2>6. DOMAIN nodes \subseteq (0..MaxEvents) \X (0..MaxEvents)
    BY <2>1
  <2>7. ingPc \in [Ingester -> {"idle", "open", "insert", "leaf", "extend", "root"}]
    BY DEF MerkleInit
  <2>8. closing.left \in 0..(MaxRetries + 1)
    BY <2>4, MerkleLogAssumption
  <2>9. arrived = 0 /\ disturbed = FALSE
    BY DEF MerkleInit
  <2>10. disturbed \in BOOLEAN
    BY <2>9
  <2>11. partition.status \in {"none", "OPEN", "CLOSED", "PUBLISHED", "PUBLICATION_FAILED"}
    BY <2>3
  <2>12. closing.step \in {"no", "mark", "publish"}
    BY <2>4
  <2>13. partition.count \in 0..Len(leafEvents) /\ Len(leafEvents) <= arrived
    BY <2>2, <2>3, <2>5
  <2> QED BY <2>2, <2>5, <2>6, <2>7, <2>8, <2>10, <2>11, <2>12, <2>13 DEF MerkleTypeOK
<1>2. RowShapes
  BY DEF MerkleInit, RowShapes, NotClosing, NoIngestion
<1>4. ASSUME NEW i \in Ingester PROVE IngestionOK(i)
  BY DEF MerkleInit, IngestionOK, NoIngestion, Working
<1>5. NodesHashed
  BY DEF MerkleInit, NodesHashed
<1>3. DistinctLeaves
  BY DEF MerkleInit, DistinctLeaves
<1> QED BY <1>1, <1>2, <1>3, <1>4, <1>5 DEF MerkleTypes

\* Distinct events of 1..arrived are at most that many.
LEMMA RoomForEvent ==
  ASSUME MerkleTypes, NEW e \in 1..arrived,
         \A k \in 1..Len(leafEvents) : leafEvents[k] # e
  PROVE  Len(leafEvents) + 1 <= arrived
<1> DEFINE n == Len(leafEvents)
           f == [k \in 1..(n + 1) |-> IF k = n + 1 THEN e ELSE leafEvents[k]]
<1>0. n \in Nat /\ arrived \in Nat /\ \A k \in 1..n : leafEvents[k] \in 1..arrived
  <2>1. n \in Nat /\ \A k \in 1..n : leafEvents[k] \in 1..MaxEvents
    <3>1. leafEvents \in Seq(1..MaxEvents)
      BY DEF MerkleTypes, MerkleTypeOK
    <3> QED BY <3>1, MerkleLogAssumption
  <2>2. arrived \in Nat /\ MaxEvents \in Nat
    BY MerkleLogAssumption DEF MerkleTypes, MerkleTypeOK
  <2>3. \A k \in 1..n : leafEvents[k] <= arrived
    BY DEF MerkleTypes, DistinctLeaves
  <2> QED BY <2>1, <2>2, <2>3
<1>1. f \in [1..(n + 1) -> 1..arrived]
  BY <1>0
<1>2. \A j, k \in 1..(n + 1) : f[j] = f[k] => j = k
  BY <1>0 DEF MerkleTypes, DistinctLeaves
<1>3. f \in Injection(1..(n + 1), 1..arrived)
  <2> HIDE DEF f, n
  <2> QED BY <1>1, <1>2 DEF Injection, IsInjective
<1>4. /\ IsFiniteSet(1..(n + 1)) /\ Cardinality(1..(n + 1)) = n + 1
      /\ IsFiniteSet(1..arrived) /\ Cardinality(1..arrived) = arrived
  BY <1>0, FS_Interval
<1>5. Cardinality(1..(n + 1)) <= Cardinality(1..arrived)
  <2> HIDE DEF f, n
  <2> QED BY <1>3, <1>4, FS_Injection
<1> QED BY <1>4, <1>5


\* What an ingestion's own step changes of it, and that the others stay.
LEMMA IngestionUpdate ==
  ASSUME MerkleTypes, NEW i \in Ingester, NEW r,
         DOMAIN r = {"event", "leaf", "level", "pos", "hash"},
         ing' = [ing EXCEPT ![i] = r]
  PROVE  /\ ing'[i] = r /\ \A j \in Ingester \ {i} : ing'[j] = ing[j]
         /\ ing' = [j \in Ingester |-> ing'[j]]
         /\ \A j \in Ingester : DOMAIN ing'[j] = {"event", "leaf", "level", "pos", "hash"}
BY DEF MerkleTypes, RowShapes

\* An ingestion that does not move stays in range while rows are added.
LEMMA OthersKept ==
  ASSUME MerkleTypes, NEW j \in Ingester, ing'[j] = ing[j], ingPc'[j] = ingPc[j],
         arrived' \in Nat, arrived <= arrived',
         Len(leafEvents') \in Nat, Len(leafEvents) <= Len(leafEvents')
  PROVE  IngestionOK(j)'
<1>1. arrived \in Nat /\ Len(leafEvents) \in Nat
  <2>1. leafEvents \in Seq(1..MaxEvents) /\ arrived \in 0..MaxEvents
    BY DEF MerkleTypes, MerkleTypeOK
  <2> QED BY <2>1, MerkleLogAssumption
<1>2. IngestionOK(j)
  BY DEF MerkleTypes
<1> QED BY <1>1, <1>2 DEF IngestionOK, Working

\* The numbers behind the types.
LEMMA MerkleNumbers ==
  ASSUME MerkleTypes
  PROVE  /\ MaxEvents \in Nat /\ arrived \in Nat /\ arrived <= MaxEvents
         /\ leafEvents \in Seq(1..MaxEvents) /\ Len(leafEvents) \in Nat
         /\ Len(leafEvents) <= arrived
         /\ \A k \in 1..Len(leafEvents) : leafEvents[k] \in 1..arrived
         /\ partition.count \in Nat /\ partition.count <= Len(leafEvents)
         /\ merkleFaults \in Nat /\ MerkleFaults \in Nat
         /\ ingPc \in [Ingester -> {"idle", "open", "insert", "leaf", "extend", "root"}]
<1>1. /\ leafEvents \in Seq(1..MaxEvents) /\ arrived \in 0..MaxEvents
      /\ Len(leafEvents) <= arrived /\ partition.count \in 0..Len(leafEvents)
      /\ merkleFaults \in 0..MerkleFaults
      /\ ingPc \in [Ingester -> {"idle", "open", "insert", "leaf", "extend", "root"}]
  BY DEF MerkleTypes, MerkleTypeOK
<1>2. Len(leafEvents) \in Nat /\ \A k \in 1..Len(leafEvents) : leafEvents[k] \in 1..MaxEvents
  BY <1>1, MerkleLogAssumption
<1>3. \A k \in 1..Len(leafEvents) : leafEvents[k] <= arrived
  BY DEF MerkleTypes, DistinctLeaves
<1> QED BY <1>1, <1>2, <1>3, MerkleLogAssumption

\* A new event has its ingestion.
LEMMA IngestTypes ==
  ASSUME MerkleTypes, NEW i \in Ingester, ingestEvent(i) PROVE MerkleTypes'
<1> USE MerkleNumbers
<1>1. PICK e \in 1..MaxEvents :
        /\ e \in {arrived, arrived + 1} /\ arrived' = e
        /\ ing' = [ing EXCEPT ![i].event = e, ![i].leaf = Len(leafEvents)]
  BY DEF ingestEvent
<1>2. /\ ingPc[i] = "idle" /\ ingPc' = [ingPc EXCEPT ![i] = "open"]
      /\ disturbed' \in BOOLEAN
      /\ UNCHANGED <<leafEvents, nodes, partition, attested, closing, merkleFaults>>
  BY DEF ingestEvent, IngestTo
<1>3. PICK r : r = [ing[i] EXCEPT !.event = e, !.leaf = Len(leafEvents)]
  OBVIOUS
<1>4. /\ DOMAIN r = {"event", "leaf", "level", "pos", "hash"}
      /\ r.event = e /\ r.leaf = Len(leafEvents) /\ r.level = ing[i].level
      /\ r.pos = ing[i].pos
  BY <1>3 DEF MerkleTypes, RowShapes
<1>5. ing' = [ing EXCEPT ![i] = r]
  BY <1>1, <1>3
<1>6. /\ ing'[i] = r /\ \A j \in Ingester \ {i} : ing'[j] = ing[j]
      /\ ing' = [j \in Ingester |-> ing'[j]]
      /\ \A j \in Ingester : DOMAIN ing'[j] = {"event", "leaf", "level", "pos", "hash"}
  BY <1>4, <1>5, IngestionUpdate
<1>7. RowShapes'
  BY <1>2, <1>6 DEF MerkleTypes, RowShapes
<1>8. NodesHashed' /\ DistinctLeaves'
  BY <1>1, <1>2 DEF MerkleTypes, NodesHashed, DistinctLeaves
<1>9. ASSUME NEW j \in Ingester PROVE IngestionOK(j)'
  <2>1. CASE j # i
    <3>1. ing'[j] = ing[j] /\ ingPc'[j] = ingPc[j]
      BY <1>2, <1>6, <2>1
    <3>2. /\ arrived' \in Nat /\ arrived <= arrived'
          /\ Len(leafEvents') \in Nat /\ Len(leafEvents) <= Len(leafEvents')
      BY <1>1, <1>2
    <3> QED BY <3>1, <3>2, OthersKept
  <2>2. CASE j = i
    <3>1. ingPc'[i] = "open" /\ ing'[i] = r
      BY <1>2, <1>6
    <3>2. ing[i].level = 0 /\ ing[i].pos = 0
      BY <1>2 DEF MerkleTypes, IngestionOK
    <3>3. /\ ing'[i].event = e /\ ing'[i].leaf = Len(leafEvents')
          /\ ing'[i].level = 0 /\ ing'[i].pos = 0
      BY <1>2, <1>4, <3>1, <3>2
    <3>4. e \in 0..arrived' /\ e # 0 /\ Len(leafEvents') \in Nat
      BY <1>1, <1>2
    <3> HIDE MerkleNumbers
    <3> QED BY <2>2, <3>1, <3>3, <3>4 DEF IngestionOK, Working
  <2> QED BY <2>1, <2>2
<1>10. MerkleTypeOK'
  <2>1. arrived' \in 0..MaxEvents /\ Len(leafEvents') <= arrived'
    BY <1>1, <1>2
  <2>2. ingPc' \in [Ingester -> {"idle", "open", "insert", "leaf", "extend", "root"}]
    BY <1>2
  <2> QED BY <1>2, <2>1, <2>2 DEF MerkleTypes, MerkleTypeOK
<1> QED BY <1>7, <1>8, <1>9, <1>10 DEF MerkleTypes

\* The call ends; what else changes is typed.
LEMMA EndTypes ==
  ASSUME MerkleTypes, NEW i \in Ingester, IngestEnds(i),
         UNCHANGED <<arrived, leafEvents, nodes>>,
         MerkleTypeOK' \/ UNCHANGED <<partition, closing, disturbed, merkleFaults>>,
         partition' = [status |-> partition'.status, root |-> partition'.root,
                       count |-> partition'.count],
         closing' = closing
  PROVE  MerkleTypes'
<1> USE MerkleNumbers
<1>1. ing' = [ing EXCEPT ![i] = NoIngestion] /\ ingPc' = [ingPc EXCEPT ![i] = "idle"]
  BY DEF IngestEnds, IngestTo
<1>2. DOMAIN NoIngestion = {"event", "leaf", "level", "pos", "hash"}
  BY DEF NoIngestion
<1>3. PICK r : r = NoIngestion
  OBVIOUS
<1>6. /\ ing'[i] = r /\ \A j \in Ingester \ {i} : ing'[j] = ing[j]
      /\ ing' = [j \in Ingester |-> ing'[j]]
      /\ \A j \in Ingester : DOMAIN ing'[j] = {"event", "leaf", "level", "pos", "hash"}
  BY <1>1, <1>2, <1>3, IngestionUpdate
<1>7. RowShapes'
  BY <1>6 DEF MerkleTypes, RowShapes
<1>8. NodesHashed' /\ DistinctLeaves'
  BY DEF MerkleTypes, NodesHashed, DistinctLeaves
<1>9. ASSUME NEW j \in Ingester PROVE IngestionOK(j)'
  <2>1. CASE j # i
    <3>1. ing'[j] = ing[j] /\ ingPc'[j] = ingPc[j]
      BY <1>1, <1>6, <2>1
    <3> QED BY <3>1, OthersKept
  <2>2. CASE j = i
    <3>1. ingPc'[i] = "idle" /\ ing'[i] = NoIngestion
      BY <1>1, <1>3, <1>6
    <3> QED BY <2>2, <3>1 DEF IngestionOK, Working, NoIngestion
  <2> QED BY <2>1, <2>2
<1>10. MerkleTypeOK'
  <2>2. ingPc' \in [Ingester -> {"idle", "open", "insert", "leaf", "extend", "root"}]
    BY <1>1
  <2> QED BY <2>2 DEF MerkleTypes, MerkleTypeOK
<1> QED BY <1>7, <1>8, <1>9, <1>10 DEF MerkleTypes

\* The partition is found, created or refused.
LEMMA OpenTypes ==
  ASSUME MerkleTypes, NEW i \in Ingester, IngestOpen(i) PROVE MerkleTypes'
<1> USE MerkleNumbers
<1>1. UNCHANGED <<arrived, leafEvents, nodes, attested, closing, disturbed, merkleFaults>>
  BY DEF IngestOpen
<1>2. \/ /\ partition' = [status |-> "OPEN", count |-> 0,
                         root |-> computeEventLeafHash(ing[i].event)]
         /\ IngestTo(i, "insert") /\ UNCHANGED ing
      \/ IngestTo(i, "insert") /\ UNCHANGED <<partition, ing>>
      \/ IngestEnds(i) /\ UNCHANGED partition
  BY DEF IngestOpen
<1>3. CASE IngestEnds(i) /\ UNCHANGED partition
  BY <1>1, <1>3, EndTypes DEF MerkleTypes, RowShapes
<1>4. CASE /\ IngestTo(i, "insert") /\ UNCHANGED ing
           /\ \/ UNCHANGED partition
              \/ partition' = [status |-> "OPEN", count |-> 0,
                              root |-> computeEventLeafHash(ing[i].event)]
  <2>1. ingPc' = [ingPc EXCEPT ![i] = "insert"] /\ ingPc[i] = "open"
    BY <1>4 DEF IngestTo, IngestOpen
  <2>2. /\ partition' = [status |-> partition'.status, root |-> partition'.root,
                         count |-> partition'.count]
        /\ partition'.status \in {"none", "OPEN", "CLOSED", "PUBLISHED",
                                  "PUBLICATION_FAILED"}
        /\ partition'.count \in 0..Len(leafEvents)
    BY <1>4 DEF MerkleTypes, MerkleTypeOK, RowShapes
  <2>3. RowShapes' /\ NodesHashed' /\ DistinctLeaves'
    BY <1>1, <1>4, <2>2 DEF MerkleTypes, RowShapes, NodesHashed, DistinctLeaves
  <2>4. ASSUME NEW j \in Ingester PROVE IngestionOK(j)'
    BY <1>1, <1>4, <2>1 DEF MerkleTypes, IngestionOK, Working
  <2>5. ingPc' \in [Ingester -> {"idle", "open", "insert", "leaf", "extend", "root"}]
    BY <2>1
  <2>6. MerkleTypeOK'
    BY <1>1, <2>2, <2>5 DEF MerkleTypes, MerkleTypeOK
  <2> QED BY <2>3, <2>4, <2>6 DEF MerkleTypes
<1> QED BY <1>2, <1>3, <1>4

\* The event is inserted or refused.
LEMMA InsertTypes ==
  ASSUME MerkleTypes, NEW i \in Ingester, IngestInsert(i) PROVE MerkleTypes'
<1> USE MerkleNumbers
<1>1. UNCHANGED <<arrived, nodes, partition, attested, closing, disturbed, merkleFaults>>
  BY DEF IngestInsert
<1>2. CASE IngestEnds(i) /\ UNCHANGED leafEvents
  BY <1>1, <1>2, EndTypes DEF MerkleTypes, RowShapes
<1>3. CASE /\ ing[i].leaf = Len(leafEvents)
           /\ \A k \in 1..Len(leafEvents) : leafEvents[k] # ing[i].event
           /\ leafEvents' = Append(leafEvents, ing[i].event)
           /\ IngestTo(i, "leaf") /\ UNCHANGED ing
  <2>1. ingPc' = [ingPc EXCEPT ![i] = "leaf"] /\ ingPc[i] = "insert"
    BY <1>3 DEF IngestTo, IngestInsert
  <2>2. ing[i].event \in 1..arrived
    BY <2>1 DEF MerkleTypes, IngestionOK
  <2>3. Len(leafEvents) + 1 <= arrived
    BY <1>3, <2>2, RoomForEvent
  <2>4. /\ leafEvents' \in Seq(1..MaxEvents) /\ Len(leafEvents') = Len(leafEvents) + 1
        /\ \A k \in 1..Len(leafEvents) : leafEvents'[k] = leafEvents[k]
        /\ leafEvents'[Len(leafEvents) + 1] = ing[i].event
    <3>1. ing[i].event \in 1..MaxEvents
      BY <2>2
    <3> QED BY <1>3, <3>1
  <2>5. DistinctLeaves'
    <3>0. \A k \in 1..Len(leafEvents') : k \in 1..Len(leafEvents) \/ k = Len(leafEvents) + 1
      BY <2>4
    <3>1. \A k \in 1..Len(leafEvents') : leafEvents'[k] <= arrived
      <4>1. \A k \in 1..Len(leafEvents) : leafEvents[k] <= arrived
        BY DEF MerkleTypes, DistinctLeaves
      <4>2. ing[i].event <= arrived
        BY <2>2
      <4> HIDE MerkleNumbers
      <4> QED BY <2>4, <3>0, <4>1, <4>2
    <3>2. \A j, k \in 1..Len(leafEvents') : leafEvents'[j] = leafEvents'[k] => j = k
      <4>1. \A j, k \in 1..Len(leafEvents) : leafEvents[j] = leafEvents[k] => j = k
        BY DEF MerkleTypes, DistinctLeaves
      <4> QED BY <1>3, <2>4, <3>0, <4>1
    <3> QED BY <1>1, <3>1, <3>2 DEF DistinctLeaves
  <2>6. RowShapes' /\ NodesHashed'
    BY <1>1, <1>3 DEF MerkleTypes, RowShapes, NodesHashed
  <2>7. ASSUME NEW j \in Ingester PROVE IngestionOK(j)'
    <3>1. CASE j # i
      <4>1. ing'[j] = ing[j] /\ ingPc'[j] = ingPc[j]
        BY <1>3, <2>1, <3>1
      <4>2. /\ arrived' \in Nat /\ arrived <= arrived'
            /\ Len(leafEvents') \in Nat /\ Len(leafEvents) <= Len(leafEvents')
        BY <1>1, <2>4
      <4> QED BY <4>1, <4>2, OthersKept
    <3>2. CASE j = i
      <4>1. ingPc'[i] = "leaf" /\ ing'[i] = ing[i]
        BY <1>3, <2>1
      <4>2. IngestionOK(i)
        BY DEF MerkleTypes
      <4> QED BY <1>1, <1>3, <2>1, <2>4, <3>2, <4>1, <4>2 DEF IngestionOK, Working
    <3> QED BY <3>1, <3>2
  <2>8. ingPc' \in [Ingester -> {"idle", "open", "insert", "leaf", "extend", "root"}]
    BY <2>1
  <2>9. partition'.count \in 0..Len(leafEvents') /\ Len(leafEvents') <= arrived'
    BY <1>1, <2>3, <2>4
  <2>10. MerkleTypeOK'
    BY <1>1, <2>4, <2>8, <2>9 DEF MerkleTypes, MerkleTypeOK
  <2> QED BY <2>5, <2>6, <2>7, <2>10 DEF MerkleTypes
<1> QED BY <1>2, <1>3 DEF IngestInsert

\* A node is written, and the ingestion moves up.
LEMMA WriteTypes ==
  ASSUME MerkleTypes, NEW i \in Ingester, ingPc[i] \in {"leaf", "extend"},
         NEW l \in 0..MaxEvents, NEW p \in 0..ing[i].leaf, NEW h, h # NoHash,
         PutNode(l, p, h),
         ing' = [ing EXCEPT ![i] = [ing[i] EXCEPT !.level = l, !.pos = p, !.hash = h]],
         ingPc' = [ingPc EXCEPT ![i] = "extend"],
         UNCHANGED <<arrived, leafEvents, partition, attested, closing, disturbed,
                     merkleFaults>>
  PROVE  MerkleTypes'
<1> USE MerkleNumbers
<1>1. IngestionOK(i)
  BY DEF MerkleTypes
<1>2. PICK r : r = [ing[i] EXCEPT !.level = l, !.pos = p, !.hash = h]
  OBVIOUS
<1>3. /\ DOMAIN r = {"event", "leaf", "level", "pos", "hash"}
      /\ r.event = ing[i].event /\ r.leaf = ing[i].leaf /\ r.level = l
      /\ r.pos = p /\ r.hash = h
  BY <1>2 DEF MerkleTypes, RowShapes
<1>4. /\ ing'[i] = r /\ \A j \in Ingester \ {i} : ing'[j] = ing[j]
      /\ ing' = [j \in Ingester |-> ing'[j]]
      /\ \A j \in Ingester : DOMAIN ing'[j] = {"event", "leaf", "level", "pos", "hash"}
  BY <1>2, <1>3, IngestionUpdate
<1>5. RowShapes' /\ DistinctLeaves'
  BY <1>4 DEF MerkleTypes, RowShapes, DistinctLeaves
<1>6. /\ DOMAIN nodes' = DOMAIN nodes \cup {<<l, p>>} /\ nodes'[<<l, p>>] = h
      /\ \A k \in DOMAIN nodes : k # <<l, p>> => nodes'[k] = nodes[k]
  BY DEF PutNode
<1>7. NodesHashed'
  BY <1>6 DEF MerkleTypes, NodesHashed, NoHash
<1>8. ASSUME NEW j \in Ingester PROVE IngestionOK(j)'
  <2>1. CASE j # i
    <3>1. ing'[j] = ing[j] /\ ingPc'[j] = ingPc[j]
      BY <1>4, <2>1
    <3> QED BY <3>1, OthersKept
  <2>2. CASE j = i
    <3>1. ingPc'[i] = "extend"
      OBVIOUS
    <3>2. /\ ing[i].leaf \in 0..Len(leafEvents) /\ ing[i].leaf < Len(leafEvents)
          /\ ing[i].event \in 0..arrived /\ ing[i].event # 0
      BY <1>1 DEF IngestionOK, Working
    <3>3. /\ ing'[i].event = ing[i].event /\ ing'[i].leaf = ing[i].leaf
          /\ ing'[i].level = l /\ ing'[i].pos = p /\ ing'[i].hash = h
      BY <1>3, <1>4
    <3> QED BY <2>2, <3>1, <3>2, <3>3 DEF IngestionOK, Working, NoHash
  <2> QED BY <2>1, <2>2
<1>9. DOMAIN nodes' \subseteq (0..MaxEvents) \X (0..MaxEvents)
  <2>1. p \in 0..MaxEvents
    BY <1>1 DEF IngestionOK
  <2>2. DOMAIN nodes \subseteq (0..MaxEvents) \X (0..MaxEvents)
    BY DEF MerkleTypes, MerkleTypeOK
  <2> HIDE MerkleNumbers
  <2> QED BY <1>6, <2>1, <2>2
<1>10. ingPc' \in [Ingester -> {"idle", "open", "insert", "leaf", "extend", "root"}]
  OBVIOUS
<1>11. MerkleTypeOK'
  BY <1>9, <1>10 DEF MerkleTypes, MerkleTypeOK
<1> QED BY <1>5, <1>7, <1>8, <1>11 DEF MerkleTypes

\* ... and every step keeps them.
LEMMA MerkleStepTypes ==
  ASSUME MerkleTypes, [MerkleNext]_merkleVars PROVE MerkleTypes'
<1> USE MerkleNumbers
<1>1. ASSUME NEW i \in Ingester, ExtendLeaf(i) PROVE MerkleTypes'
  <2>1. IngestionOK(i) /\ ingPc[i] = "leaf"
    BY <1>1 DEF MerkleTypes, ExtendLeaf
  <2>2. PICK h : h = computeEventLeafHash(ing[i].event)
    OBVIOUS
  <2>3. h # NoHash
    BY <2>2 DEF computeEventLeafHash, NoHash
  <2>4. PICK p : p = ing[i].leaf
    OBVIOUS
  <2>5. p \in 0..ing[i].leaf /\ 0 \in 0..MaxEvents
    BY <2>1, <2>4 DEF IngestionOK
  <2>6. PutNode(0, p, h)
    BY <1>1, <2>2, <2>4 DEF ExtendLeaf, PutNode
  <2>7. ing' = [ing EXCEPT ![i] = [ing[i] EXCEPT !.level = 0, !.pos = p, !.hash = h]]
    <3>1. ing' = [ing EXCEPT ![i].pos = p, ![i].hash = h]
      BY <1>1, <2>2, <2>4 DEF ExtendLeaf
    <3>2. [ing[i] EXCEPT !.pos = p, !.hash = h]
            = [ing[i] EXCEPT !.level = 0, !.pos = p, !.hash = h]
      BY <2>1 DEF IngestionOK, MerkleTypes, RowShapes
    <3>3. ing' = [ing EXCEPT ![i] = [ing[i] EXCEPT !.pos = p, !.hash = h]]
      BY <3>1
    <3> QED BY <3>2, <3>3
  <2>8. /\ ingPc' = [ingPc EXCEPT ![i] = "extend"]
        /\ UNCHANGED <<arrived, leafEvents, partition, attested, closing, disturbed,
                       merkleFaults>>
    BY <1>1 DEF ExtendLeaf, IngestTo
  <2> QED BY <2>1, <2>3, <2>5, <2>6, <2>7, <2>8, WriteTypes
<1>2. ASSUME NEW i \in Ingester, extendTreeIncremental(i) PROVE MerkleTypes'
  <2> DEFINE v == ing[i]
             left == IF NodeAt(v.level, v.pos - 1) = NoHash THEN v.hash
                     ELSE NodeAt(v.level, v.pos - 1)
  <2>0. /\ IngestionOK(i) /\ ingPc[i] = "extend"
        /\ UNCHANGED <<arrived, leafEvents, partition, attested, closing, disturbed,
                       merkleFaults>>
    BY <1>2 DEF MerkleTypes, extendTreeIncremental
  <2>1. CASE v.level < maxLevel(v.leaf + 1)
    <3>1. PICK h : h = IF v.pos % 2 = 1 THEN hashPair(left, v.hash) ELSE v.hash
      OBVIOUS
    <3>2. h # NoHash
      BY <2>0, <3>1 DEF hashPair, NoHash, IngestionOK
    <3>3. PICK p : p = v.pos \div 2
      OBVIOUS
    <3>4. PICK l : l = v.level + 1
      OBVIOUS
    <3>5. p \in 0..v.leaf
      BY <2>0, <3>3 DEF IngestionOK
    <3>6. l \in 0..MaxEvents
      <4>1. /\ v.leaf \in Nat /\ v.leaf < Len(leafEvents) /\ v.level \in Nat
        BY <2>0 DEF IngestionOK, Working
      <4>2. PICK n \in Nat \ {0} : n = v.leaf + 1
        BY <4>1
      <4>3. maxLevel(n) \in 0..n
        BY MaxLevelFacts
      <4>4. v.level < maxLevel(n)
        BY <2>1, <4>2
      <4>5. n <= MaxEvents /\ MaxEvents \in Nat
        <5>1. /\ MaxEvents \in Nat /\ arrived \in Nat /\ arrived <= MaxEvents
              /\ Len(leafEvents) \in Nat /\ Len(leafEvents) <= arrived
          OBVIOUS
        <5> QED BY <4>1, <4>2, <5>1
      <4> HIDE MerkleNumbers
      <4>6. maxLevel(n) \in Nat /\ maxLevel(n) <= n
        BY <4>3
      <4> QED BY <3>4, <4>1, <4>2, <4>4, <4>5, <4>6
    <3>7. /\ PutNode(l, p, h) /\ UNCHANGED ingPc
          /\ ing' = [ing EXCEPT ![i] = [ing[i] EXCEPT !.level = l, !.pos = p, !.hash = h]]
      BY <1>2, <2>1, <3>1, <3>3, <3>4 DEF extendTreeIncremental, PutNode
    <3>8. ingPc' = [ingPc EXCEPT ![i] = "extend"]
      BY <2>0, <3>7
    <3> QED BY <2>0, <3>2, <3>5, <3>6, <3>7, <3>8, WriteTypes
  <2>2. CASE ~(v.level < maxLevel(v.leaf + 1))
    <3>1. ingPc' = [ingPc EXCEPT ![i] = "root"] /\ UNCHANGED <<nodes, ing>>
      BY <1>2, <2>2 DEF extendTreeIncremental, IngestTo
    <3>2. RowShapes' /\ NodesHashed' /\ DistinctLeaves'
      BY <2>0, <3>1 DEF MerkleTypes, RowShapes, NodesHashed, DistinctLeaves
    <3>3. ASSUME NEW j \in Ingester PROVE IngestionOK(j)'
      BY <2>0, <3>1 DEF MerkleTypes, IngestionOK, Working
    <3>4. ingPc' \in [Ingester -> {"idle", "open", "insert", "leaf", "extend", "root"}]
      BY <3>1
    <3>5. MerkleTypeOK'
      BY <2>0, <3>1, <3>4 DEF MerkleTypes, MerkleTypeOK
    <3> QED BY <3>2, <3>3, <3>5 DEF MerkleTypes
  <2> QED BY <2>1, <2>2
<1>3. ASSUME NEW i \in Ingester, IngestRoot(i) PROVE MerkleTypes'
  <2>1. /\ IngestionOK(i) /\ ingPc[i] = "root" /\ IngestEnds(i)
        /\ partition' = [partition EXCEPT !.root = ing[i].hash, !.count = ing[i].leaf + 1]
        /\ UNCHANGED <<arrived, leafEvents, nodes, attested, closing, disturbed,
                       merkleFaults>>
    BY <1>3 DEF MerkleTypes, IngestRoot
  <2>2. /\ partition'.count \in 0..Len(leafEvents)
        /\ partition'.status = partition.status
        /\ partition' = [status |-> partition'.status, root |-> partition'.root,
                         count |-> partition'.count]
    <3>1. ing[i].leaf + 1 \in 0..Len(leafEvents)
      BY <2>1 DEF IngestionOK, Working
    <3>2. partition = [status |-> partition.status, root |-> partition.root,
                       count |-> partition.count]
      BY DEF MerkleTypes, RowShapes
    <3>3. partition' = [status |-> partition.status, root |-> ing[i].hash,
                        count |-> ing[i].leaf + 1]
      BY <2>1, <3>2
    <3> QED BY <3>1, <3>3
  <2>3. ingPc' \in [Ingester -> {"idle", "open", "insert", "leaf", "extend", "root"}]
    BY <2>1 DEF IngestEnds, IngestTo
  <2>4. MerkleTypeOK'
    BY <2>1, <2>2, <2>3 DEF MerkleTypes, MerkleTypeOK
  <2> QED BY <2>1, <2>2, <2>4, EndTypes
<1>4. ASSUME NEW i \in Ingester, IngestFails(i) PROVE MerkleTypes'
  <2>1. /\ IngestEnds(i) /\ merkleFaults' = merkleFaults + 1
        /\ merkleFaults < MerkleFaults /\ disturbed' = TRUE
        /\ UNCHANGED <<arrived, leafEvents, nodes, partition, attested, closing>>
    BY <1>4 DEF IngestFails
  <2>2. partition = [status |-> partition.status, root |-> partition.root,
                     count |-> partition.count]
    BY DEF MerkleTypes, RowShapes
  <2>3. ingPc' \in [Ingester -> {"idle", "open", "insert", "leaf", "extend", "root"}]
    BY <2>1 DEF IngestEnds, IngestTo
  <2>4. merkleFaults' \in 0..MerkleFaults /\ disturbed' \in BOOLEAN
    BY <2>1
  <2>5. MerkleTypeOK'
    BY <2>1, <2>3, <2>4 DEF MerkleTypes, MerkleTypeOK
  <2> QED BY <2>1, <2>2, <2>5, EndTypes
<1>5. CASE closePartition \/ CloseMark \/ publishRootWithRetry \/ CloseFails
  <2>1. UNCHANGED <<arrived, leafEvents, nodes, ingPc, ing>>
    BY <1>5 DEF closePartition, CloseMark, publishRootWithRetry, CloseFails
  <2>2. \A j \in Ingester : IngestionOK(j)'
    BY <2>1 DEF MerkleTypes, IngestionOK, Working
  <2>3. NodesHashed' /\ DistinctLeaves'
    BY <2>1 DEF MerkleTypes, NodesHashed, DistinctLeaves
  <2>a. /\ partition = [status |-> partition.status, root |-> partition.root,
                        count |-> partition.count]
        /\ closing = [step |-> closing.step, left |-> closing.left, root |-> closing.root]
    BY DEF MerkleTypes, RowShapes
  <2>b. \/ UNCHANGED partition
        \/ \E x \in {"CLOSED", "PUBLISHED", "PUBLICATION_FAILED"} :
             partition' = [partition EXCEPT !.status = x]
    BY <1>5 DEF closePartition, CloseMark, publishRootWithRetry, CloseFails
  <2>c. /\ partition' = [status |-> partition'.status, root |-> partition'.root,
                         count |-> partition'.count]
        /\ partition'.count = partition.count
        /\ \/ partition'.status = partition.status
           \/ partition'.status \in {"CLOSED", "PUBLISHED", "PUBLICATION_FAILED"}
    <3>1. CASE UNCHANGED partition
      BY <2>a, <3>1
    <3>2. ASSUME NEW x \in {"CLOSED", "PUBLISHED", "PUBLICATION_FAILED"},
                 partition' = [partition EXCEPT !.status = x]
          PROVE  partition' = [status |-> x, root |-> partition.root,
                               count |-> partition.count]
      BY <2>a, <3>2
    <3> QED BY <2>b, <3>1, <3>2
  <2>d. \/ closing' = NotClosing
        \/ closing' = [step |-> "mark", left |-> MaxRetries + 1, root |-> partition.root]
        \/ closing' = [closing EXCEPT !.step = "publish"]
        \/ closing' = [closing EXCEPT !.left = closing.left - 1] /\ closing.left > 1
    BY <1>5 DEF closePartition, CloseMark, publishRootWithRetry, CloseFails
  <2>e. closing.left \in 0..(MaxRetries + 1) /\ closing.step \in {"no", "mark", "publish"}
    BY DEF MerkleTypes, MerkleTypeOK
  <2>f. \E x \in {"no", "mark", "publish"}, k \in 0..(MaxRetries + 1) :
          \E h : closing' = [step |-> x, left |-> k, root |-> h]
    <3>1. CASE closing' = NotClosing
      <4>1. 0 \in 0..(MaxRetries + 1)
        BY MerkleLogAssumption
      <4>2. closing' = [step |-> "no", left |-> 0, root |-> NoHash]
        BY <3>1 DEF NotClosing
      <4> QED BY <4>1, <4>2
    <3>2. CASE closing' = [step |-> "mark", left |-> MaxRetries + 1, root |-> partition.root]
      <4>1. MaxRetries + 1 \in 0..(MaxRetries + 1)
        BY MerkleLogAssumption
      <4> QED BY <3>2, <4>1
    <3>3. CASE closing' = [closing EXCEPT !.step = "publish"]
      <4>1. closing' = [step |-> "publish", left |-> closing.left, root |-> closing.root]
        BY <2>a, <3>3
      <4> QED BY <2>e, <4>1
    <3>4. CASE closing' = [closing EXCEPT !.left = closing.left - 1] /\ closing.left > 1
      <4>1. closing' = [step |-> closing.step, left |-> closing.left - 1,
                        root |-> closing.root]
        BY <2>a, <3>4
      <4>2. closing.left - 1 \in 0..(MaxRetries + 1)
        BY <2>e, <3>4, MerkleLogAssumption
      <4> QED BY <2>e, <4>1, <4>2
    <3> QED BY <2>d, <3>1, <3>2, <3>3, <3>4
  <2>g. /\ closing' = [step |-> closing'.step, left |-> closing'.left,
                       root |-> closing'.root]
        /\ closing'.step \in {"no", "mark", "publish"}
        /\ closing'.left \in 0..(MaxRetries + 1)
    BY <2>f
  <2>h. merkleFaults' \in 0..MerkleFaults
    <3>1. \/ UNCHANGED merkleFaults
          \/ merkleFaults < MerkleFaults /\ merkleFaults' = merkleFaults + 1
      BY <1>5 DEF closePartition, CloseMark, publishRootWithRetry, CloseFails
    <3> QED BY <3>1, MerkleLogAssumption DEF MerkleTypes, MerkleTypeOK
  <2>i. disturbed' \in BOOLEAN
    BY <1>5 DEF closePartition, CloseMark, publishRootWithRetry, CloseFails,
                MerkleTypes, MerkleTypeOK
  <2>4. RowShapes' /\ MerkleTypeOK'
    <3>1. RowShapes'
      BY <2>1, <2>c, <2>g DEF MerkleTypes, RowShapes
    <3>2. MerkleTypeOK'
      BY <2>1, <2>c, <2>g, <2>h, <2>i DEF MerkleTypes, MerkleTypeOK
    <3> QED BY <3>1, <3>2
  <2> QED BY <2>2, <2>3, <2>4 DEF MerkleTypes
<1>6. CASE UNCHANGED merkleVars
  <2>1. \A j \in Ingester : IngestionOK(j)'
    BY <1>6 DEF MerkleTypes, IngestionOK, Working, merkleVars
  <2> QED BY <1>6, <2>1
          DEF merkleVars, MerkleTypes, MerkleTypeOK, RowShapes, NodesHashed, DistinctLeaves
<1> QED BY <1>1, <1>2, <1>3, <1>4, <1>5, <1>6, IngestTypes, OpenTypes, InsertTypes
        DEF MerkleNext

\* Where nothing is written the tree stays what it is.
LEMMA TreeSame ==
  ASSUME UNCHANGED <<nodes, leafEvents>>
  PROVE  /\ \A n, m : GrownTo(n, m)' <=> GrownTo(n, m)
         /\ \A n : TreeOf(n)' <=> TreeOf(n)
         /\ \A l, p : (Stored(l, p)' <=> Stored(l, p)) /\ NodeAt(l, p)' = NodeAt(l, p)
<1>1. \A l, p : (Stored(l, p)' <=> Stored(l, p)) /\ NodeAt(l, p)' = NodeAt(l, p)
  BY DEF Stored, NodeAt
<1>2. ASSUME NEW n, NEW m PROVE GrownTo(n, m)' <=> GrownTo(n, m)
  <2>1. LeavesStored(n)' <=> LeavesStored(n)
    BY <1>1 DEF LeavesStored
  <2>2. \A l, p : (Paired(l, p)' <=> Paired(l, p)) /\ (Promoted(l, p)' <=> Promoted(l, p))
    BY <1>1 DEF Paired, Promoted
  <2>3. LeftOfPath(n)' <=> LeftOfPath(n)
    BY <2>2 DEF LeftOfPath
  <2>4. PathUpTo(n, m)' <=> PathUpTo(n, m)
    BY <2>2 DEF PathUpTo
  <2> QED BY <2>1, <2>3, <2>4 DEF GrownTo
<1>3. ASSUME NEW n PROVE TreeOf(n)' <=> TreeOf(n)
  BY <1>2 DEF TreeOf
<1> QED BY <1>1, <1>2, <1>3

\* One more event does not touch the tree of the others.
LEMMA TreeAppend ==
  ASSUME MerkleTypes, NEW n \in Nat, n = Len(leafEvents), NEW e,
         leafEvents' = Append(leafEvents, e), UNCHANGED nodes, TreeOf(n)
  PROVE  TreeOf(n)'
<1>1. \A l, p : (Stored(l, p)' <=> Stored(l, p)) /\ NodeAt(l, p)' = NodeAt(l, p)
  BY DEF Stored, NodeAt
<1>2. \A k \in 1..n : leafEvents'[k] = leafEvents[k]
  BY MerkleNumbers
<1>3. ASSUME n > 0 PROVE GrownTo(n, maxLevel(n))'
  <2>0. GrownTo(n, maxLevel(n))
    BY <1>3 DEF TreeOf
  <2>1. LeavesStored(n)'
    <3> SUFFICES ASSUME NEW p \in 0..(n - 1)
                 PROVE  Stored(0, p)' /\ NodeAt(0, p)' = computeEventLeafHash(leafEvents'[p + 1])
      BY DEF LeavesStored, computeEventLeafHash
    <3>1. p + 1 \in 1..n
      OBVIOUS
    <3> QED BY <1>1, <1>2, <2>0, <3>1 DEF GrownTo, LeavesStored
  <2>2. \A l, p : (Paired(l, p)' <=> Paired(l, p)) /\ (Promoted(l, p)' <=> Promoted(l, p))
    BY <1>1 DEF Paired, Promoted
  <2>3. LeftOfPath(n)'
    BY <2>0, <2>2 DEF GrownTo, LeftOfPath
  <2>4. PathUpTo(n, maxLevel(n))'
    BY <2>0, <2>2 DEF GrownTo, PathUpTo
  <2> QED BY <2>1, <2>3, <2>4 DEF GrownTo
<1> QED BY <1>3 DEF TreeOf

\* The tree, the root and the ingestions where no row of the partition is
\* written and no ingestion starts or stops writing.
LEMMA TreeKept ==
  ASSUME MerkleTypes, TreeGrows, UNCHANGED <<nodes, leafEvents>>,
         partition'.root = partition.root, partition'.count = partition.count,
         \A i \in Ingester : Working(i)' <=> Working(i),
         \A i \in Ingester : \/ ing'[i] = ing[i] /\ ingPc'[i] = ingPc[i]
                             \/ ingPc'[i] = "idle"
                             \/ ingPc'[i] \in {"open", "insert"} /\ ing'[i].leaf = Len(leafEvents)
  PROVE  TreeGrows'
<1> PICK n : n = Len(leafEvents)
  OBVIOUS
<1>1. /\ Len(leafEvents)' = n /\ (TreeOf(n)' <=> TreeOf(n))
      /\ NodeAt(maxLevel(n), 0)' = NodeAt(maxLevel(n), 0)
  BY TreeSame
<1>2. TreeAtRest'
  BY <1>1 DEF TreeGrows, TreeAtRest
<1>3. ASSUME NEW i \in Ingester PROVE TreeGrowsAt(i)'
  <2>1. CASE ing'[i] = ing[i] /\ ingPc'[i] = ingPc[i]
    <3> PICK v : v = ing[i]
      OBVIOUS
    <3>1. TreeGrowsAt(i)
      BY DEF TreeGrows
    <3>2. /\ TreeOf(v.leaf)' <=> TreeOf(v.leaf)
          /\ TreeOf(v.leaf + 1)' <=> TreeOf(v.leaf + 1)
          /\ GrownTo(v.leaf + 1, v.level)' <=> GrownTo(v.leaf + 1, v.level)
          /\ Stored(v.level, v.pos)' <=> Stored(v.level, v.pos)
          /\ NodeAt(v.level, v.pos)' = NodeAt(v.level, v.pos)
          /\ NodeAt(maxLevel(v.leaf + 1), 0)' = NodeAt(maxLevel(v.leaf + 1), 0)
      BY TreeSame
    <3> QED BY <2>1, <3>1, <3>2 DEF TreeGrowsAt, Working
  <2>2. CASE ingPc'[i] = "idle"
    BY <2>2 DEF TreeGrowsAt, Working
  <2>3. CASE ingPc'[i] \in {"open", "insert"} /\ ing'[i].leaf = Len(leafEvents)
    BY <2>3 DEF TreeGrowsAt, Working
  <2> QED BY <2>1, <2>2, <2>3
<1> QED BY <1>2, <1>3 DEF TreeGrows

\* While one ingestion runs undisturbed, no other does and nothing is closed.
LEMMA AloneFacts ==
  ASSUME IngestsAlone, NEW i \in Ingester, ingPc[i] # "idle"
  PROVE  /\ \A j \in Ingester \ {i} : ingPc[j] = "idle" /\ ~Working(j)
         /\ closing = NotClosing
BY DEF IngestsAlone, Working

\* The leaf and the path, written by the only ingestion.
LEMMA LeafGrows ==
  ASSUME MerkleTypes, IngestsAlone, TreeGrows, NEW i \in Ingester, ExtendLeaf(i)
  PROVE  TreeGrows'
<1>1. PICK v : v = ing[i]
  OBVIOUS
<1>2. PICK h : h = computeEventLeafHash(v.event)
  OBVIOUS
<1>3. /\ ingPc[i] = "leaf" /\ v.leaf \in Nat /\ v.level = 0
      /\ v.leaf + 1 = Len(leafEvents) /\ leafEvents[v.leaf + 1] = v.event
      /\ TreeOf(v.leaf)
  BY <1>1 DEF ExtendLeaf, MerkleTypes, IngestionOK, TreeGrows, TreeGrowsAt, Working
<1>4. PICK m \in Nat : m = v.leaf
  BY <1>3
<1>5. PutNode(0, m, h) /\ UNCHANGED leafEvents
  BY <1>1, <1>2, <1>4 DEF ExtendLeaf, PutNode
<1>6. GrownTo(m + 1, 0)'
  <2>1. TreeOf(m) /\ h = computeEventLeafHash(leafEvents[m + 1])
    BY <1>2, <1>3, <1>4
  <2> QED BY <1>5, <2>1, GrowLeaf
<1>7. Stored(0, m)' /\ NodeAt(0, m)' = h
  BY <1>5 DEF PutNode, Stored, NodeAt
<1>8. /\ ing'[i].leaf = m /\ ing'[i].event = v.event /\ ing'[i].level = 0
      /\ ing'[i].pos = m /\ ing'[i].hash = h /\ ingPc'[i] = "extend"
  BY <1>1, <1>2, <1>3, <1>4 DEF ExtendLeaf, IngestTo, MerkleTypes, MerkleTypeOK, RowShapes
<1>9. TreeGrowsAt(i)'
  <2>1. LastPos(m + 1, 0) = m /\ maxLevel(m + 1) >= 0
    <3> PICK n \in Nat \ {0} : n = m + 1
      OBVIOUS
    <3>1. LastPos(n, 0) = n - 1 /\ maxLevel(n) \in 0..n
      BY Halving, MaxLevelFacts
    <3> QED BY <3>1
  <2> QED BY <1>3, <1>4, <1>5, <1>6, <1>7, <1>8, <2>1 DEF TreeGrowsAt, Working
<1>10. ASSUME NEW j \in Ingester, j # i PROVE TreeGrowsAt(j)'
  <2>1. ingPc[j] = "idle"
    BY <1>3, <1>10, AloneFacts
  <2>2. ingPc'[j] = "idle"
    BY <1>10, <2>1 DEF ExtendLeaf, IngestTo, MerkleTypes, MerkleTypeOK
  <2> QED BY <2>2 DEF TreeGrowsAt, Working
<1>11. TreeAtRest'
  BY <1>8 DEF TreeAtRest, Working
<1> QED BY <1>9, <1>10, <1>11 DEF TreeGrows

\* extendTreeIncremental writes the next node of the last path, or finds that
\* it has reached the root: the tree of one leaf more is complete.
LEMMA PathGrows ==
  ASSUME MerkleTypes, IngestsAlone, TreeGrows, NEW i \in Ingester,
         extendTreeIncremental(i)
  PROVE  TreeGrows'
<1>1. PICK v : v = ing[i]
  OBVIOUS
<1>2. /\ ingPc[i] = "extend" /\ v.leaf \in Nat /\ v.level \in Nat
      /\ v.leaf + 1 = Len(leafEvents) /\ leafEvents[v.leaf + 1] = v.event
      /\ v.level <= maxLevel(v.leaf + 1) /\ v.pos = LastPos(v.leaf + 1, v.level)
      /\ Stored(v.level, v.pos) /\ NodeAt(v.level, v.pos) = v.hash
      /\ GrownTo(v.leaf + 1, v.level) /\ UNCHANGED leafEvents
  BY <1>1 DEF extendTreeIncremental, MerkleTypes, IngestionOK, TreeGrows, TreeGrowsAt, Working
<1>3. PICK n \in Nat \ {0} : n = v.leaf + 1
  BY <1>2
<1>4. PICK l \in Nat : l = v.level
  BY <1>2
<1>5. PICK a \in Nat : a = LastPos(n, l)
  BY Halving
<1>6. ASSUME NEW j \in Ingester, j # i PROVE TreeGrowsAt(j)'
  <2>1. ingPc[j] = "idle"
    BY <1>2, <1>6, AloneFacts
  <2>2. ingPc'[j] = "idle"
    BY <1>6, <2>1 DEF extendTreeIncremental, IngestTo, MerkleTypes, MerkleTypeOK
  <2> QED BY <2>2 DEF TreeGrowsAt, Working
<1>7. maxLevel(n) \in Nat /\ LastPos(n, maxLevel(n)) = 0
  BY MaxLevelFacts
<1>8. CASE l < maxLevel(n)
  <2>1. a % 2 = 1 => NodeAt(l, a - 1) # NoHash
    <3> SUFFICES ASSUME a % 2 = 1 PROVE NodeAt(l, a - 1) # NoHash
      OBVIOUS
    <3>1. a - 1 \in Nat /\ a - 1 < LastPos(n, l)
      BY <1>5
    <3>2. LeavesStored(n) /\ LeftOfPath(n)
      BY <1>2, <1>3 DEF GrownTo
    <3>3. Stored(l, a - 1)
      BY <3>1, <3>2, LeftStored
    <3> QED BY <3>3 DEF Stored, NodeAt, MerkleTypes, NodesHashed, NoHash
  <2>2. PICK h : h = IF a % 2 = 1 THEN hashPair(NodeAt(l, a - 1), NodeAt(l, a))
                     ELSE NodeAt(l, a)
    OBVIOUS
  <2>3. PICK q : q = LastPos(n, l + 1)
    OBVIOUS
  <2>4. q = a \div 2
    BY <1>5, <2>3, Halving
  <2>5. /\ PutNode(l + 1, q, h) /\ UNCHANGED ingPc
        /\ ing' = [ing EXCEPT ![i].level = l + 1, ![i].pos = q, ![i].hash = h]
    <3>1. v.pos = a /\ v.hash = NodeAt(l, a) /\ v.level < maxLevel(v.leaf + 1)
      BY <1>2, <1>3, <1>4, <1>5, <1>8
    <3>2. (IF v.pos % 2 = 1
           THEN hashPair(IF NodeAt(v.level, v.pos - 1) = NoHash THEN v.hash
                         ELSE NodeAt(v.level, v.pos - 1), v.hash)
           ELSE v.hash) = h
      BY <1>4, <2>1, <2>2, <3>1
    <3> QED BY <1>1, <1>4, <2>4, <3>1, <3>2 DEF extendTreeIncremental, PutNode
  <2>6. GrownTo(n, l) /\ Stored(l, a)
    BY <1>2, <1>3, <1>4, <1>5
  <2>7. /\ GrownTo(n, l + 1)' /\ Stored(l + 1, q)' /\ NodeAt(l + 1, q)' = h
    BY <1>2, <1>5, <2>2, <2>3, <2>5, <2>6, GrowPath
  <2>8. /\ ing'[i].leaf = v.leaf /\ ing'[i].event = v.event /\ ing'[i].level = l + 1
        /\ ing'[i].pos = q /\ ing'[i].hash = h /\ ingPc'[i] = "extend"
    BY <1>1, <1>2, <2>5 DEF MerkleTypes, RowShapes
  <2>9. l + 1 <= maxLevel(n)
    BY <1>7, <1>8
  <2>10. TreeGrowsAt(i)'
    BY <1>2, <1>3, <2>3, <2>7, <2>8, <2>9 DEF TreeGrowsAt, Working
  <2>11. TreeAtRest'
    BY <2>8 DEF TreeAtRest, Working
  <2> QED BY <1>6, <2>10, <2>11 DEF TreeGrows
<1>9. CASE ~(l < maxLevel(n))
  <2>1. l = maxLevel(n) /\ a = 0
    BY <1>2, <1>3, <1>4, <1>5, <1>7, <1>9
  <2>2. UNCHANGED <<nodes, ing>> /\ ingPc' = [ingPc EXCEPT ![i] = "root"]
    BY <1>1, <1>3, <1>4, <1>9 DEF extendTreeIncremental, IngestTo
  <2>3. ingPc'[i] = "root" /\ ing'[i] = v
    BY <1>1, <2>2 DEF MerkleTypes, MerkleTypeOK
  <2>4. TreeOf(n)' /\ NodeAt(l, 0)' = v.hash
    <3>1. TreeOf(n) /\ NodeAt(l, 0) = v.hash
      BY <1>2, <1>3, <1>4, <1>5, <2>1 DEF TreeOf
    <3> QED BY <1>2, <2>2, <3>1, TreeSame
  <2>5. TreeGrowsAt(i)'
    BY <1>2, <1>3, <2>1, <2>3, <2>4 DEF TreeGrowsAt, Working
  <2>6. TreeAtRest'
    BY <2>3 DEF TreeAtRest, Working
  <2> QED BY <1>6, <2>5, <2>6 DEF TreeGrows
<1> QED BY <1>8, <1>9

\* The invariant of the log holds initially ...
LEMMA MerkleInitInv == MerkleInit => MerkleInv
<1> SUFFICES ASSUME MerkleInit PROVE MerkleInv
  OBVIOUS
<1>1. MerkleTypes
  BY MerkleInitTypes
<1>2. IngestsAlone /\ AttestsRoot
  BY DEF MerkleInit, IngestsAlone, AttestsRoot, NotClosing, Working
<1>3. TreeGrows
  <2>1. Len(leafEvents) = 0 /\ partition.count = 0
    BY DEF MerkleInit
  <2> QED BY <2>1 DEF MerkleInit, TreeGrows, TreeAtRest, TreeGrowsAt, TreeOf, Working
<1> QED BY <1>1, <1>2, <1>3 DEF MerkleInv

\* ... and every step preserves it.
LEMMA MerkleStepInv ==
  ASSUME MerkleInv, [MerkleNext]_merkleVars PROVE MerkleInv'
<1>0. MerkleTypes /\ MerkleTypes'
  BY MerkleStepTypes DEF MerkleInv
<1> SUFFICES ASSUME ~disturbed' PROVE (IngestsAlone /\ TreeGrows /\ AttestsRoot)'
  BY <1>0 DEF MerkleInv
<1> DEFINE Goal == (IngestsAlone /\ TreeGrows /\ AttestsRoot)'
<1>1. ASSUME ~disturbed PROVE IngestsAlone /\ TreeGrows /\ AttestsRoot
  BY <1>1 DEF MerkleInv
<1>pc. ingPc \in [Ingester -> {"idle", "open", "insert", "leaf", "extend", "root"}]
  BY <1>0, MerkleNumbers
<1>2. ASSUME NEW i \in Ingester, ingestEvent(i) PROVE Goal
  <2>1. /\ ~disturbed /\ closing = NotClosing /\ \A j \in Ingester : ingPc[j] = "idle"
        /\ ingPc' = [ingPc EXCEPT ![i] = "open"]
        /\ UNCHANGED <<leafEvents, nodes, partition, attested, closing>>
    BY <1>2 DEF ingestEvent, IngestTo
  <2>2. IngestsAlone' /\ AttestsRoot'
    BY <1>1, <1>pc, <2>1 DEF IngestsAlone, AttestsRoot, Working, NotClosing
  <2>3. ing'[i].leaf = Len(leafEvents)
    BY <1>0, <1>2 DEF ingestEvent, MerkleTypes, RowShapes
  <2>4. \A j \in Ingester : /\ Working(j)' <=> Working(j)
                            /\ j # i => ingPc'[j] = "idle"
    BY <1>pc, <2>1 DEF Working
  <2>5. ingPc'[i] = "open"
    BY <1>pc, <2>1
  <2>6. TreeGrows'
    BY <1>0, <1>1, <2>1, <2>3, <2>4, <2>5, TreeKept
  <2> QED BY <2>2, <2>6
<1>3. ASSUME NEW i \in Ingester, IngestOpen(i) PROVE Goal
  <2>0. /\ ~disturbed /\ ingPc[i] = "open"
        /\ UNCHANGED <<leafEvents, nodes, attested, closing>>
    BY <1>3 DEF IngestOpen
  <2>1. IngestsAlone /\ TreeGrows /\ AttestsRoot
    BY <1>1, <2>0
  <2>2. closing = NotClosing /\ \A j \in Ingester \ {i} : ingPc[j] = "idle" /\ ~Working(j)
    BY <2>0, <2>1, AloneFacts
  <2>3. /\ ing[i].leaf = Len(leafEvents) /\ \A j \in Ingester : ~Working(j)
        /\ partition.count = Len(leafEvents)
    BY <2>0, <2>1, <2>2 DEF TreeGrows, TreeGrowsAt, TreeAtRest, Working
  <2>4. \/ /\ partition.status = "none" /\ ingPc' = [ingPc EXCEPT ![i] = "insert"]
           /\ partition' = [status |-> "OPEN", count |-> 0,
                            root |-> computeEventLeafHash(ing[i].event)]
           /\ UNCHANGED ing
        \/ /\ partition.status = "OPEN" /\ ingPc' = [ingPc EXCEPT ![i] = "insert"]
           /\ UNCHANGED <<partition, ing>>
        \/ ingPc' = [ingPc EXCEPT ![i] = "idle"] /\ UNCHANGED partition
    BY <1>3 DEF IngestOpen, IngestTo, IngestEnds
  <2>5. /\ ingPc'[i] \in {"insert", "idle"} /\ \A j \in Ingester \ {i} : ingPc'[j] = "idle"
        /\ ingPc'[i] = "insert" => ing' = ing
        /\ \A j \in Ingester : ~Working(j)'
    BY <1>pc, <2>2, <2>4 DEF Working
  <2>6. IngestsAlone'
    BY <2>0, <2>2, <2>5 DEF IngestsAlone
  <2>7. AttestsRoot'
    BY <1>pc, <2>0, <2>1, <2>2, <2>4, <2>5 DEF AttestsRoot, NotClosing
  <2>8. TreeGrows'
    <3>1. CASE partition.status = "none"
      <4>1. Len(leafEvents) = 0
        BY <2>1, <3>1 DEF AttestsRoot
      <4>2. partition'.count = 0
        BY <2>3, <2>4, <3>1, <4>1
      <4>3. TreeAtRest'
        BY <2>0, <4>1, <4>2 DEF TreeAtRest, TreeOf
      <4>4. ASSUME NEW j \in Ingester PROVE TreeGrowsAt(j)'
        BY <2>0, <2>3, <2>5 DEF TreeGrowsAt, Working
      <4> QED BY <4>3, <4>4 DEF TreeGrows
    <3>2. CASE partition.status # "none"
      <4>1. UNCHANGED partition
        BY <2>4, <3>2
      <4>2. \A j \in Ingester : Working(j)' <=> Working(j)
        BY <2>3, <2>5
      <4>3. \A j \in Ingester : \/ ingPc'[j] = "idle"
                                \/ ingPc'[j] \in {"open", "insert"} /\ ing'[j].leaf = Len(leafEvents)
        BY <2>3, <2>5
      <4> QED BY <1>0, <2>0, <2>1, <4>1, <4>2, <4>3, TreeKept
    <3> QED BY <3>1, <3>2
  <2> QED BY <2>6, <2>7, <2>8
<1>4. ASSUME NEW i \in Ingester, IngestInsert(i) PROVE Goal
  <2>0. /\ ~disturbed /\ ingPc[i] = "insert"
        /\ UNCHANGED <<nodes, partition, attested, closing>>
    BY <1>4 DEF IngestInsert
  <2>1. IngestsAlone /\ TreeGrows /\ AttestsRoot
    BY <1>1, <2>0
  <2>2. closing = NotClosing /\ \A j \in Ingester \ {i} : ingPc[j] = "idle" /\ ~Working(j)
    BY <2>0, <2>1, AloneFacts
  <2>3. /\ ing[i].leaf = Len(leafEvents) /\ \A j \in Ingester : ~Working(j)
        /\ TreeOf(Len(leafEvents)) /\ partition.status = "OPEN"
    BY <2>0, <2>1, <2>2 DEF TreeGrows, TreeGrowsAt, TreeAtRest, AttestsRoot, Working
  <2>4. CASE /\ leafEvents' = Append(leafEvents, ing[i].event)
             /\ ingPc' = [ingPc EXCEPT ![i] = "leaf"] /\ UNCHANGED ing
    <3>1. PICK n \in Nat : n = Len(leafEvents)
      BY <1>0, MerkleNumbers
    <3>2. PICK e : e = ing[i].event
      OBVIOUS
    <3>3. TreeOf(n)'
      BY <1>0, <2>0, <2>3, <2>4, <3>1, <3>2, TreeAppend
    <3>4. Len(leafEvents') = n + 1 /\ leafEvents'[n + 1] = e
      BY <1>0, <2>4, <3>1, <3>2, MerkleNumbers
    <3>5. ingPc'[i] = "leaf" /\ \A j \in Ingester \ {i} : ingPc'[j] = "idle"
      BY <1>pc, <2>2, <2>4
    <3>6. ing'[i] = ing[i] /\ ing'[i].leaf = n
      BY <2>3, <2>4, <3>1
    <3>7. TreeGrowsAt(i)'
      BY <3>2, <3>3, <3>4, <3>5, <3>6 DEF TreeGrowsAt, Working
    <3>8. \A j \in Ingester \ {i} : TreeGrowsAt(j)'
      BY <3>5 DEF TreeGrowsAt, Working
    <3>9. TreeAtRest'
      BY <3>5 DEF TreeAtRest, Working
    <3>10. IngestsAlone'
      BY <2>0, <2>2, <3>5 DEF IngestsAlone
    <3>11. AttestsRoot'
      BY <2>0, <2>1, <2>2, <2>3, <3>5 DEF AttestsRoot, Working
    <3> QED BY <3>7, <3>8, <3>9, <3>10, <3>11 DEF TreeGrows
  <2>5. CASE ingPc' = [ingPc EXCEPT ![i] = "idle"] /\ UNCHANGED leafEvents
    <3>1. \A j \in Ingester : ingPc'[j] = "idle"
      BY <1>pc, <2>2, <2>5
    <3>2. IngestsAlone' /\ AttestsRoot'
      BY <2>0, <2>1, <2>5, <3>1 DEF IngestsAlone, AttestsRoot, Working
    <3>3. \A j \in Ingester : Working(j)' <=> Working(j)
      BY <2>3, <3>1 DEF Working
    <3>4. TreeGrows'
      BY <1>0, <2>0, <2>1, <2>5, <3>1, <3>3, TreeKept
    <3> QED BY <3>2, <3>4
  <2> QED BY <1>4, <2>4, <2>5 DEF IngestInsert, IngestTo, IngestEnds
<1>5. ASSUME NEW i \in Ingester, ExtendLeaf(i) \/ extendTreeIncremental(i) PROVE Goal
  <2>0. /\ ~disturbed /\ ingPc[i] \in {"leaf", "extend"}
        /\ UNCHANGED <<leafEvents, partition, attested, closing>>
        /\ ingPc' = [ingPc EXCEPT ![i] = "extend"] \/ UNCHANGED ingPc
            \/ ingPc' = [ingPc EXCEPT ![i] = "root"]
    BY <1>5 DEF ExtendLeaf, extendTreeIncremental, IngestTo
  <2>1. IngestsAlone /\ TreeGrows /\ AttestsRoot
    BY <1>1, <2>0
  <2>2. closing = NotClosing /\ \A j \in Ingester \ {i} : ingPc[j] = "idle" /\ ~Working(j)
    BY <2>0, <2>1, AloneFacts
  <2>3. \A j \in Ingester \ {i} : ingPc'[j] = "idle"
    BY <1>pc, <2>0, <2>2
  <2>4. IngestsAlone'
    BY <2>0, <2>2, <2>3 DEF IngestsAlone
  <2>5. AttestsRoot'
    BY <2>0, <2>1, <2>2, <2>3 DEF AttestsRoot, Working
  <2>6. TreeGrows'
    BY <1>0, <1>5, <2>1, LeafGrows, PathGrows
  <2> QED BY <2>4, <2>5, <2>6
<1>6. ASSUME NEW i \in Ingester, IngestRoot(i) PROVE Goal
  <2>0. /\ ~disturbed /\ ingPc[i] = "root" /\ ingPc' = [ingPc EXCEPT ![i] = "idle"]
        /\ partition' = [partition EXCEPT !.root = ing[i].hash, !.count = ing[i].leaf + 1]
        /\ UNCHANGED <<leafEvents, nodes, attested, closing>>
    BY <1>6 DEF IngestRoot, IngestTo, IngestEnds
  <2>1. IngestsAlone /\ TreeGrows /\ AttestsRoot
    BY <1>1, <2>0
  <2>2. closing = NotClosing /\ \A j \in Ingester \ {i} : ingPc[j] = "idle"
    BY <2>0, <2>1, AloneFacts
  <2>3. \A j \in Ingester : ingPc'[j] = "idle"
    BY <1>pc, <2>0, <2>2
  <2>4. PICK n : n = Len(leafEvents)
    OBVIOUS
  <2>5. /\ ing[i].leaf + 1 = n /\ TreeOf(n) /\ ing[i].hash = NodeAt(maxLevel(n), 0)
        /\ partition.status = "OPEN"
    BY <2>0, <2>1, <2>4 DEF TreeGrows, TreeGrowsAt, AttestsRoot, Working
  <2>6. /\ partition'.root = ing[i].hash /\ partition'.count = n
        /\ partition'.status = "OPEN"
    BY <1>0, <2>0, <2>5 DEF MerkleTypes, RowShapes
  <2>7. TreeOf(n)' /\ NodeAt(maxLevel(n), 0)' = NodeAt(maxLevel(n), 0)
    BY <2>0, <2>5, TreeSame
  <2>8. TreeGrows'
    BY <2>0, <2>3, <2>4, <2>5, <2>6, <2>7 DEF TreeGrows, TreeAtRest, TreeGrowsAt, Working
  <2>9. IngestsAlone'
    BY <2>3 DEF IngestsAlone
  <2>10. AttestsRoot'
    BY <2>0, <2>1, <2>2, <2>3, <2>5, <2>6 DEF AttestsRoot, Working, NotClosing
  <2> QED BY <2>8, <2>9, <2>10
<1>7. ASSUME NEW i \in Ingester, IngestFails(i) PROVE Goal
  BY <1>7 DEF IngestFails
<1>8. CASE closePartition \/ CloseMark \/ publishRootWithRetry \/ CloseFails
  <2>a. UNCHANGED <<leafEvents, nodes, ingPc, ing>>
    BY <1>8 DEF closePartition, CloseMark, publishRootWithRetry, CloseFails
  <2>b. \/ disturbed' = (disturbed \/ \E i \in Ingester : ingPc[i] # "idle")
        \/ disturbed' = disturbed
    BY <1>8, Zenon DEF closePartition, CloseMark, publishRootWithRetry, CloseFails
  <2>0. ~disturbed /\ UNCHANGED <<leafEvents, nodes, ingPc, ing>>
    <3>1. ~disturbed
      BY <2>b, Zenon
    <3> QED BY <2>a, <3>1
  <2>1. IngestsAlone /\ TreeGrows /\ AttestsRoot
    BY <1>1, <2>0
  <2>2. /\ partition'.root = partition.root /\ partition'.count = partition.count
    BY <1>0, <1>8 DEF closePartition, CloseMark, publishRootWithRetry, CloseFails,
                      MerkleTypes, RowShapes
  <2>3. TreeGrows'
    <3>1. \A j \in Ingester : Working(j)' <=> Working(j)
      BY <2>0 DEF Working
    <3> QED BY <1>0, <2>0, <2>1, <2>2, <3>1, TreeKept
  <2>4. IngestsAlone' /\ AttestsRoot'
    <3> USE DEF IngestsAlone, AttestsRoot, Working, NotClosing
    <3>1. CASE closePartition
      BY <1>0, <2>0, <2>1, <3>1 DEF closePartition
    <3>2. CASE CloseMark
      <4>1. closing # NotClosing /\ \A j \in Ingester : ingPc[j] = "idle"
        BY <2>1, <3>2 DEF CloseMark
      <4>2. partition'.status = "CLOSED" /\ closing'.root = closing.root
        BY <1>0, <3>2 DEF CloseMark, MerkleTypes, RowShapes
      <4> QED BY <2>0, <2>1, <2>2, <3>2, <4>1, <4>2 DEF CloseMark
    <3>3. CASE publishRootWithRetry
      <4>1. /\ closing # NotClosing /\ \A j \in Ingester : ingPc[j] = "idle"
            /\ closing.root = partition.root /\ closing.step = "publish"
        BY <2>1, <3>3 DEF publishRootWithRetry
      <4>2. /\ partition'.status \notin {"none", "OPEN"}
            /\ attested'.roots \subseteq {partition.root}
            /\ closing' = NotClosing \/ closing'.root = closing.root
        BY <1>0, <2>1, <3>3, <4>1 DEF publishRootWithRetry, Attest, MerkleTypes, RowShapes
      <4> QED BY <2>0, <2>1, <2>2, <4>1, <4>2
    <3>4. CASE CloseFails
      BY <1>0, <2>0, <2>1, <3>4 DEF CloseFails
    <3> QED BY <1>8, <3>1, <3>2, <3>3, <3>4
  <2> QED BY <2>3, <2>4
<1>9. CASE UNCHANGED merkleVars
  <2>0. ~disturbed /\ UNCHANGED <<leafEvents, nodes, ingPc, ing, partition, attested, closing>>
    BY <1>9 DEF merkleVars
  <2>1. IngestsAlone /\ TreeGrows /\ AttestsRoot
    BY <1>1, <2>0
  <2>2. IngestsAlone' /\ AttestsRoot' /\ \A j \in Ingester : Working(j)' <=> Working(j)
    BY <2>0, <2>1 DEF IngestsAlone, AttestsRoot, Working
  <2>3. TreeGrows'
    BY <1>0, <2>0, <2>1, <2>2, TreeKept
  <2> QED BY <2>2, <2>3
<1>10. CASE MerkleNext
  <2>1. CASE \E i \in Ingester :
               \/ ingestEvent(i) \/ IngestOpen(i) \/ IngestInsert(i) \/ ExtendLeaf(i)
               \/ extendTreeIncremental(i) \/ IngestRoot(i) \/ IngestFails(i)
    <3>1. PICK i \in Ingester :
               \/ ingestEvent(i) \/ IngestOpen(i) \/ IngestInsert(i) \/ ExtendLeaf(i)
               \/ extendTreeIncremental(i) \/ IngestRoot(i) \/ IngestFails(i)
      BY <2>1
    <3> QED BY <3>1, <1>2, <1>3, <1>4, <1>5, <1>6, <1>7, Zenon
  <2> QED BY <1>8, <1>10, <2>1, Zenon DEF MerkleNext
<1>11. MerkleNext \/ UNCHANGED merkleVars
  OBVIOUS
<1> QED BY <1>9, <1>10, <1>11, Zenon

\* A partition still to be published has been attested by failed attempts only.
Once(status) ==
  attested.times <= merkleFaults + (IF status = "PUBLISHED" THEN 1 ELSE 0)

AttestsOnce ==
  /\ attested.times \in Nat /\ Once(partition.status)
  /\ closing # NotClosing => partition.status # "PUBLISHED"

\* Initially nothing is attested ...
LEMMA OnceInit == MerkleInit => AttestsOnce
  BY DEF MerkleInit, AttestsOnce, Once

\* ... and only publishRootWithRetry attests, in the name of one close.
LEMMA OnceStep ==
  ASSUME MerkleInv, AttestsOnce, [MerkleNext]_merkleVars PROVE AttestsOnce'
<1>0. merkleFaults \in Nat /\ RowShapes
  BY MerkleLogAssumption DEF MerkleInv, MerkleTypes, MerkleTypeOK
<1> USE DEF AttestsOnce, Once
<1>1. ASSUME UNCHANGED <<attested, closing>>, partition'.status = partition.status,
             merkleFaults' \in {merkleFaults, merkleFaults + 1}
      PROVE  AttestsOnce'
  BY <1>0, <1>1
<1>2. ASSUME NEW i \in Ingester, IngestOpen(i) PROVE AttestsOnce'
  <2>1. UNCHANGED <<attested, closing, merkleFaults>>
    BY <1>2 DEF IngestOpen
  <2>2. UNCHANGED partition \/ (partition.status = "none" /\ partition'.status = "OPEN")
    BY <1>2 DEF IngestOpen
  <2> QED BY <1>0, <2>1, <2>2
<1>3. ASSUME NEW i \in Ingester, IngestRoot(i) PROVE AttestsOnce'
  <2>1. UNCHANGED <<attested, closing, merkleFaults>> /\ partition'.status = partition.status
    BY <1>0, <1>3 DEF IngestRoot, RowShapes
  <2> QED BY <1>1, <2>1
<1>4. ASSUME NEW i \in Ingester,
             \/ ingestEvent(i) \/ IngestInsert(i) \/ ExtendLeaf(i)
             \/ extendTreeIncremental(i) \/ IngestFails(i)
      PROVE  AttestsOnce'
  <2>1. UNCHANGED <<attested, closing, partition>>
        /\ merkleFaults' \in {merkleFaults, merkleFaults + 1}
    BY <1>4 DEF ingestEvent, IngestInsert, ExtendLeaf, extendTreeIncremental, IngestFails
  <2> QED BY <1>1, <2>1
<1>5. CASE closePartition
  BY <1>0, <1>5 DEF closePartition
<1>6. CASE CloseMark
  <2>1. UNCHANGED <<attested, merkleFaults>> /\ partition'.status = "CLOSED"
    BY <1>0, <1>6 DEF CloseMark, RowShapes
  <2>2. closing # NotClosing
    BY <1>6 DEF CloseMark, NotClosing
  <2> QED BY <1>0, <2>1, <2>2
<1>7. CASE publishRootWithRetry
  <2>1. closing # NotClosing
    BY <1>7 DEF publishRootWithRetry, NotClosing
  <2>2. attested.times <= merkleFaults
    BY <1>0, <2>1
  <2>3. CASE /\ attested' = Attest(closing.root) /\ closing' = NotClosing
             /\ partition' = [partition EXCEPT !.status = "PUBLISHED"]
             /\ UNCHANGED merkleFaults
    <3>1. attested'.times = attested.times + 1 /\ partition'.status = "PUBLISHED"
      BY <1>0, <2>3 DEF Attest, RowShapes
    <3> QED BY <1>0, <2>2, <2>3, <3>1
  <2>4. CASE /\ merkleFaults' = merkleFaults + 1
             /\ attested' \in {attested, Attest(closing.root)}
             /\ \/ UNCHANGED partition
                \/ partition' = [partition EXCEPT !.status = "PUBLICATION_FAILED"]
    <3>1. attested'.times \in {attested.times, attested.times + 1}
      BY <2>4 DEF Attest
    <3>2. partition'.status # "PUBLISHED"
      BY <1>0, <2>1, <2>4 DEF RowShapes
    <3> QED BY <1>0, <2>2, <2>4, <3>1, <3>2
  <2> QED BY <1>7, <2>3, <2>4 DEF publishRootWithRetry
<1>8. CASE CloseFails
  BY <1>0, <1>8 DEF CloseFails
<1>9. CASE UNCHANGED merkleVars
  BY <1>0, <1>1, <1>9 DEF merkleVars
<1> QED BY <1>2, <1>3, <1>4, <1>5, <1>6, <1>7, <1>8, <1>9 DEF MerkleNext

\* ingestEvent hashes only the nodes above the new leaf, one statement each.
\* For every number of leaves, while no ingestion overlaps another one or a
\* close and none fails half-way, the root it keeps is the one rehashed from
\* all stored leaves, the proofs getEventInclusionProof serves lead every
\* verifier to it, and closePartition, retried or repeated, attests no other;
\* whatever overlaps or fails, it attests again only after a failure.
THEOREM MerkleSafe == Spec => []ProofsVerify
<1>1. Init => MerkleInv /\ AttestsOnce
  BY MerkleInitInv, OnceInit DEF Init
<1>2. MerkleInv /\ AttestsOnce /\ [Next]_vars => MerkleInv' /\ AttestsOnce'
  BY MerkleStepInv, OnceStep, ServiceSteps
<1>3. MerkleInv /\ AttestsOnce => ProofsVerify
  <2> SUFFICES ASSUME MerkleInv, AttestsOnce, ~disturbed, \A i \in Ingester : ingPc[i] = "idle"
               PROVE  LET n == Len(leafEvents) IN
                      /\ n > 0 => partition.root = recomputeRootFromState
                      /\ partition.count = n
                      /\ \A p \in 0..(n - 1) : verifyInclusionProof(n, p) = partition.root
                      /\ attested.roots \subseteq {partition.root}
    BY DEF ProofsVerify, AttestsOnce, Once
  <2>1. MerkleTypes /\ TreeGrows /\ AttestsRoot
    BY DEF MerkleInv
  <2>2. PICK n \in Nat : n = Len(leafEvents)
    BY <2>1, MerkleNumbers
  <2>3. /\ TreeOf(n) /\ partition.count = n /\ attested.roots \subseteq {partition.root}
        /\ n > 0 => partition.root = NodeAt(maxLevel(n), 0)
    BY <2>1, <2>2 DEF TreeGrows, TreeAtRest, AttestsRoot, Working
  <2>4. CASE n = 0
    <3>1. \A p \in 0..(n - 1) : FALSE
      BY <2>4
    <3> QED BY <2>2, <2>3, <2>4, <3>1
  <2>5. CASE n # 0
    <3>1. n \in Nat \ {0} /\ GrownTo(n, maxLevel(n))
      BY <2>3, <2>5 DEF TreeOf
    <3>2. recomputeRootFromState = NodeAt(maxLevel(n), 0)
      BY <2>2, <3>1, RehashIsRoot
    <3>3. \A p \in 0..(n - 1) : verifyInclusionProof(n, p) = NodeAt(maxLevel(n), 0)
      BY <3>1, ClimbIsRoot
    <3> QED BY <2>2, <2>3, <3>1, <3>2, <3>3
  <2> QED BY <2>4, <2>5
<1> QED BY <1>1, <1>2, <1>3, PTL DEF Spec

-----------------------------------------------------------------------------
(* All services *)

\* The rows, requests and chains of every service keep their types, counts and
\* bounds: in particular the Event table is a sequence of at most the events
\* that arrived, the partition's count never runs ahead of it, however
\* ingestions overlap or fail, and no node is stored outside the tree's range.
THEOREM TypeCorrect == Spec => []TypeOK
<1> DEFINE Inv == /\ focus \in Service
                  /\ PositionsInv /\ MultisigInv /\ InvestInv /\ JobsInv /\ MerkleInv
<1>1. Init => Inv
  BY PositionsInitInv, MultisigInitInv, InvestInitInv, JobsInitInv, MerkleInitInv DEF Init
<1>2. Inv /\ [Next]_vars => Inv'
  <2> SUFFICES ASSUME Inv, [Next]_vars PROVE Inv'
    OBVIOUS
  <2>1. focus' = focus
    BY DEF Next, vars, Positions, AdminMultisig, Invest, Exports, Merkle
  <2>2. PositionsInv' /\ MultisigInv' /\ InvestInv' /\ JobsInv' /\ MerkleInv'
    BY ServiceSteps, PositionsStepInv, MultisigStepInv, InvestStepInv, JobsStepInv,
       MerkleStepInv
  <2> QED BY <2>1, <2>2
<1>3. Inv => TypeOK
  BY DEF TypeOK, PositionsInv, MultisigInv, InvestInv, JobsInv, MerkleInv, MerkleTypes
<1> HIDE DEF Inv
<1> QED BY <1>1, <1>2, <1>3, PTL DEF Spec
=============================================================================
