-------------------------- MODULE GovernanceProofs --------------------------
(* Safety of Governance for every set of voters, attempts and closers, every *)
(* number of options, every quorum and every number of failures.             *)
EXTENDS Governance, SetSums

-----------------------------------------------------------------------------
(* The weight on record, as a function of the vote rows *)

VoteRow == [by : Attempt \cup {Nobody}, option : Nat, weight : Nat]
WeightIn(v)  == [w \in Wallet |-> v[w].weight]
CountedIn(v) == {w \in Wallet : v[w].option \in Option}
OnRecord(v)  == SumOver(WeightIn(v), CountedIn(v))

\* The options are finitely many, numbered from 1, and the total stake of
\* finitely many wallets is a number.
LEMMA ConstantFacts ==
  /\ IsFiniteSet(Option) /\ Option \subseteq Nat /\ 0 \notin Option
  /\ TotalStake \in Nat
<1>1. IsFiniteSet(Option) /\ Option \subseteq Nat /\ 0 \notin Option
  BY GovernanceAssumption, FS_Interval DEF Option
<1>2. TotalStake = SumOver(Stake, Wallet)
  BY DEF TotalStake, SumOver
<1>3. IsFiniteSet(Wallet) /\ \A w \in Wallet : Stake[w] \in Nat
  BY GovernanceAssumption
<1>4. SumOver(Stake, Wallet) \in Int /\ 0 <= SumOver(Stake, Wallet)
  BY <1>3, SumType, SumSubset
<1> QED BY <1>1, <1>2, <1>4

\* A wallet's first vote adds its weight to what is on record if it is for an
\* option of the proposal, and nothing otherwise.
LEMMA RecordVote ==
  ASSUME NEW v \in [Wallet -> VoteRow], NEW w \in Wallet, v[w].option = 0,
         NEW r \in VoteRow
  PROVE  LET u == [v EXCEPT ![w] = r] IN
         /\ OnRecord(v) \in Int
         /\ OnRecord(u) = IF r.option \in Option THEN OnRecord(v) + r.weight
                          ELSE OnRecord(v)
<1> DEFINE u == [v EXCEPT ![w] = r]
<1>1. /\ w \notin CountedIn(v) /\ CountedIn(v) \subseteq Wallet
      /\ CountedIn(u) = IF r.option \in Option THEN CountedIn(v) \cup {w}
                        ELSE CountedIn(v)
  BY ConstantFacts DEF CountedIn, VoteRow
<1>2. IsFiniteSet(CountedIn(v))
  BY <1>1, GovernanceAssumption, FS_Subset
<1>3. /\ \A x \in Wallet : WeightIn(v)[x] \in Int /\ WeightIn(u)[x] \in Int
      /\ \A x \in CountedIn(v) : WeightIn(u)[x] = WeightIn(v)[x]
      /\ WeightIn(u)[w] = r.weight
  BY <1>1 DEF WeightIn, VoteRow
<1> HIDE DEF u
<1>4. SumOver(WeightIn(u), CountedIn(v)) = SumOver(WeightIn(v), CountedIn(v))
  BY <1>2, <1>3, SumCongruence
<1>5. SumOver(WeightIn(v), CountedIn(v)) \in Int
  BY <1>1, <1>2, <1>3, SumType
<1>6. SumOver(WeightIn(u), CountedIn(v) \cup {w})
        = SumOver(WeightIn(u), CountedIn(v)) + WeightIn(u)[w]
  BY <1>1, <1>2, <1>3, SumAdd
<1>7. /\ OnRecord(v) \in Int
      /\ OnRecord(u) = IF r.option \in Option THEN OnRecord(v) + r.weight
                       ELSE OnRecord(v)
  BY <1>1, <1>3, <1>4, <1>5, <1>6 DEF OnRecord
<1> QED BY <1>7 DEF u

\* A weight added to one option is added to the sum of the options.
LEMMA AddWeight ==
  ASSUME NEW r \in [Option -> Nat], NEW o \in Option, NEW w \in Nat
  PROVE  /\ SumOver(r, Option) \in Int
         /\ SumOver([r EXCEPT ![o] = @ + w], Option) = SumOver(r, Option) + w
<1> DEFINE n == r[o] + w
<1>1. r \in [Option -> Int] /\ n \in Int /\ r[o] \in Int
  OBVIOUS
<1>2. SumOver(r, Option) \in Int
  BY <1>1, ConstantFacts, SumType
<1>3. SumOver([r EXCEPT ![o] = n], Option) = SumOver(r, Option) + (n - r[o])
  <2> HIDE DEF n
  <2>1. IsFiniteSet(Option)
    BY ConstantFacts
  <2> QED BY <1>1, <2>1, SumExcept, Zenon
<1>4. SumOver(r, Option) + (n - r[o]) = SumOver(r, Option) + w
  BY <1>1, <1>2
<1> QED BY <1>2, <1>3, <1>4, Zenon

\* The quorum is a number.
LEMMA QuorumType == \A e \in Nat : quorumRequiredWeight(e) \in Int
<1>1. \A e \in Nat : e * QuorumBps \in Nat
  BY GovernanceAssumption
<1> QED BY <1>1 DEF quorumRequiredWeight

-----------------------------------------------------------------------------
(* The inductive invariant *)

\* No tally, stored or read, claims more than was cast, and its options add up.
Sound(t, r) ==
  /\ t <= cast.total /\ \A o \in Option : r[o] <= cast.results[o]
  /\ t = SumOver(r, Option)

TalliesSound ==
  /\ Sound(total, results)
  /\ \A a \in Attempt : loc[a].counted =>
       OptionOf[a] \in Option /\ Sound(loc[a].total, loc[a].results)
  /\ cast.total <= OnRecord(votes)

\* An attempt whose vote was committed finds it on record, a tally is read only
\* to be written, and a row is either empty or somebody's vote.
VotesKept ==
  /\ \A a \in Attempt : /\ pc[a] = "notify" => votes[VoterOf[a]].by = a
                        /\ loc[a].counted => pc[a] = "commit"
  /\ \A w \in Wallet : votes[w].by = Nobody => votes[w] = NoVote

Quorate == eligible > 0 /\ cast.total >= quorumRequiredWeight(eligible)

\* An outcome written, or about to be written, had its quorum when it was
\* evaluated; nobody closes a proposal that does not exist.
OutcomesQuorate ==
  /\ status = "passed" => Quorate
  /\ \A c \in Closers : cpc[c] = "passed" => Quorate
  /\ status = "none" => \A c \in Closers : cpc[c] = "idle"

ExecutedIsMarked == status = "executed" => executedAt

IInv ==
  /\ TypeOK /\ TalliesSound /\ VotesKept /\ AnswerIsRecord /\ OutcomesQuorate
  /\ ExecutedIsMarked

\* A tally of nothing is sound.
LEMMA ZeroSound == ASSUME TypeOK PROVE Sound(0, Zero)
<1>1. \A o \in Option : Zero[o] = 0
  BY DEF Zero
<1>2. SumOver(Zero, Option) = 0
  <2>0. IsFiniteSet(Option) /\ 0 \in Int
    BY ConstantFacts
  <2>1. SumOver(Zero, Option) = 0 * Cardinality(Option)
    BY <1>1, <2>0, SumConstant, Zenon
  <2>2. Cardinality(Option) \in Nat
    BY ConstantFacts, FS_CardinalityType
  <2> QED BY <2>1, <2>2
<1>3. 0 <= cast.total /\ \A o \in Option : Zero[o] <= cast.results[o]
  BY DEF TypeOK, Zero
<1> QED BY <1>2, <1>3 DEF Sound

\* The invariant holds initially ...
LEMMA InitInv == Init => IInv
<1> SUFFICES ASSUME Init PROVE IInv
  OBVIOUS
<1>1. TypeOK
  <2>1. loc \in [Attempt -> [weight : Nat, total : Nat, results : [Option -> Nat],
                             counted : BOOLEAN]]
    BY DEF Init, Unread, Zero
  <2>2. votes \in [Wallet -> [by : Attempt \cup {Nobody}, option : Nat, weight : Nat]]
    BY DEF Init, NoVote
  <2>3. /\ cast \in [total : Nat, results : [Option -> Nat]]
        /\ results \in [Option -> Nat] /\ logged \in SUBSET Extensions
    BY DEF Init, Zero
  <2>4. now \in 0..MaxTime /\ aborts \in 0..MaxAborts
    BY GovernanceAssumption DEF Init
  <2> QED BY <2>1, <2>2, <2>3, <2>4 DEF Init, TypeOK
<1>2. TalliesSound
  <2>1. Sound(total, results)
    BY <1>1, ZeroSound DEF Init
  <2>2. CountedIn(votes) = {}
    BY ConstantFacts DEF Init, NoVote, CountedIn
  <2>3. OnRecord(votes) = 0
    BY <2>2, SumEmpty DEF OnRecord
  <2> QED BY <2>1, <2>3 DEF Init, TalliesSound, Unread
<1>3. VotesKept /\ AnswerIsRecord
  BY DEF Init, VotesKept, AnswerIsRecord, Unread
<1>4. OutcomesQuorate /\ ExecutedIsMarked
  BY DEF Init, OutcomesQuorate, ExecutedIsMarked
<1> QED BY <1>1, <1>2, <1>3, <1>4 DEF IInv

\* A step that leaves the tallies and the vote rows alone keeps every tally
\* sound that was read before.
LEMMA TalliesFrame ==
  ASSUME TalliesSound, UNCHANGED <<tally, votes, cast>>,
         \A a \in Attempt : loc'[a].counted => loc'[a] = loc[a]
  PROVE  TalliesSound'
BY DEF TalliesSound, Sound, tally

\* What the end of an attempt changes.
Replied(a, ans) ==
  /\ answer' \in [Attempt -> {"none", "ok", "notFound", "ended", "invalid",
                              "noPower", "duplicate", "error"}]
  /\ pc' \in [Attempt -> {"idle", "tx", "commit", "notify", "done"}]
  /\ loc' \in [Attempt -> [weight : Nat, total : Nat, results : [Option -> Nat],
                            counted : BOOLEAN]]
  /\ answer'[a] = ans /\ ~loc'[a].counted /\ pc'[a] # "notify"
  /\ \A b \in Attempt \ {a} : answer'[b] = answer[b] /\ loc'[b] = loc[b] /\ pc'[b] = pc[b]

\* A voter is answered, and its attempt ends.
LEMMA ReplyFacts ==
  ASSUME TypeOK, NEW a \in Attempt, NEW ans, Reply(a, ans),
         ans \in {"ok", "notFound", "ended", "invalid", "noPower", "duplicate", "error"}
  PROVE  Replied(a, ans)
<1>1. Unread \in [weight : Nat, total : Nat, results : [Option -> Nat], counted : BOOLEAN]
      /\ ~Unread.counted
  BY DEF Unread, Zero
<1>2. loc' = [loc EXCEPT ![a] = Unread]
  BY DEF Reply
<1>3. /\ loc' \in [Attempt -> [weight : Nat, total : Nat, results : [Option -> Nat],
                                counted : BOOLEAN]]
      /\ ~loc'[a].counted /\ \A b \in Attempt \ {a} : loc'[b] = loc[b]
  <2> HIDE DEF Unread
  <2> QED BY <1>1, <1>2 DEF TypeOK
<1> QED BY <1>3 DEF TypeOK, Reply, Replied

\* The end of an attempt that records nothing, or whose vote is on record.
LEMMA ReplyInv ==
  ASSUME IInv, NEW a \in Attempt, NEW ans, Replied(a, ans),
         ans = "ok" => votes[VoterOf[a]].by = a,
         aborts' \in 0..MaxAborts,
         UNCHANGED <<now, row, tally, votes, cast, logged, cpc>>
  PROVE  IInv'
<1>1. TypeOK'
  BY DEF IInv, TypeOK, row, tally, Replied
<1>2. TalliesSound'
  BY TalliesFrame DEF IInv, Replied
<1>3. VotesKept' /\ AnswerIsRecord'
  BY DEF IInv, VotesKept, AnswerIsRecord, Replied
<1>4. OutcomesQuorate' /\ ExecutedIsMarked'
  BY DEF IInv, OutcomesQuorate, ExecutedIsMarked, row, Quorate
<1> QED BY <1>1, <1>2, <1>3, <1>4 DEF IInv

\* A vote that passes its first checks.
LEMMA EnterInv ==
  ASSUME IInv, NEW a \in Attempt, NEW w \in Nat, Enter(a, w),
         UNCHANGED <<now, row, tally, votes, cast, logged, cpc, aborts>>,
         ~loc[a].counted
  PROVE  IInv'
<1>1. /\ loc' \in [Attempt -> [weight : Nat, total : Nat, results : [Option -> Nat],
                                counted : BOOLEAN]]
      /\ ~loc'[a].counted /\ \A b \in Attempt \ {a} : loc'[b] = loc[b]
  BY DEF Enter, IInv, TypeOK
<1>2. TypeOK'
  BY <1>1 DEF IInv, TypeOK, row, tally, Enter
<1>3. TalliesSound'
  BY <1>1, TalliesFrame DEF IInv
<1>4. VotesKept' /\ AnswerIsRecord'
  BY DEF IInv, TypeOK, VotesKept, AnswerIsRecord, Enter
<1>5. OutcomesQuorate' /\ ExecutedIsMarked'
  BY DEF IInv, OutcomesQuorate, ExecutedIsMarked, row, Quorate
<1> QED BY <1>2, <1>3, <1>4, <1>5 DEF IInv

-----------------------------------------------------------------------------
(* The steps *)

\* Creating the proposal: the tally starts at zero, and nobody is closing it.
LEMMA CreateInv ==
  ASSUME IInv, NEW d \in Nat, NEW e \in Nat, NEW s \in BOOLEAN, CreateRow(d, e, s)
  PROVE  IInv'
<1>1. TypeOK'
  BY DEF IInv, TypeOK, CreateRow, Zero
<1>2. TalliesSound'
  <2>1. Sound(0, Zero)
    BY ZeroSound DEF IInv
  <2>2. Sound(total, results)'
    BY <2>1 DEF CreateRow, Sound
  <2> QED BY <2>2 DEF IInv, TalliesSound, Sound, CreateRow
<1>3. VotesKept' /\ AnswerIsRecord'
  BY DEF IInv, VotesKept, AnswerIsRecord, CreateRow
<1>4. OutcomesQuorate' /\ ExecutedIsMarked'
  BY DEF IInv, OutcomesQuorate, ExecutedIsMarked, CreateRow, Quorate
<1> QED BY <1>1, <1>2, <1>3, <1>4 DEF IInv

\* The transaction's read: the tally it takes along is the stored one.
LEMMA ReadInv ==
  ASSUME IInv, NEW a \in Attempt, VoteRead(a) PROVE IInv'
<1>1. CASE Reply(a, "ended")
  <2>1. Replied(a, "ended")
    BY <1>1, ReplyFacts DEF IInv
  <2> QED BY <2>1, ReplyInv DEF VoteRead, IInv, TypeOK
<1>2. CASE Open(a) /\ ~Reply(a, "ended")
  <2> DEFINE r == [weight |-> loc[a].weight, total |-> total,
                   results |-> results, counted |-> Counted(a)]
  <2>0. /\ pc[a] = "tx" /\ pc' = [pc EXCEPT ![a] = "commit"] /\ UNCHANGED answer
        /\ loc' = [loc EXCEPT ![a] = r]
        /\ UNCHANGED <<now, row, tally, votes, cast, logged, cpc, aborts>>
    BY <1>2 DEF VoteRead
  <2>1. r \in [weight : Nat, total : Nat, results : [Option -> Nat], counted : BOOLEAN]
        /\ r.total = total /\ r.results = results /\ (r.counted => OptionOf[a] \in Option)
    BY DEF IInv, TypeOK, Counted
  <2> HIDE DEF r
  <2>2. /\ loc' \in [Attempt -> [weight : Nat, total : Nat, results : [Option -> Nat],
                                  counted : BOOLEAN]]
        /\ loc'[a] = r /\ \A b \in Attempt \ {a} : loc'[b] = loc[b]
    BY <2>0, <2>1 DEF IInv, TypeOK
  <2>3. TypeOK'
    BY <2>0, <2>2 DEF IInv, TypeOK, row, tally
  <2>4. TalliesSound'
    BY <2>0, <2>1, <2>2 DEF IInv, TalliesSound, Sound, tally
  <2>5. VotesKept' /\ AnswerIsRecord'
    BY <2>0, <2>2 DEF IInv, TypeOK, VotesKept, AnswerIsRecord
  <2>6. OutcomesQuorate' /\ ExecutedIsMarked'
    BY <2>0 DEF IInv, OutcomesQuorate, ExecutedIsMarked, row, Quorate
  <2> QED BY <2>3, <2>4, <2>5, <2>6 DEF IInv
<1> QED BY <1>1, <1>2 DEF VoteRead

\* The commit: the stored tally may go back to an older one, but what it then
\* holds was cast, and what is cast goes on record with it.
LEMMA CommitInv ==
  ASSUME IInv, NEW a \in Attempt, VoteCommit(a) PROVE IInv'
<1> DEFINE w == loc[a].weight
           o == OptionOf[a]
           r == [by |-> a, option |-> o, weight |-> w]
           x == VoterOf[a]
<1>1. /\ x \in Wallet /\ o \in Nat /\ w \in Nat /\ r \in VoteRow
      /\ r.by = a /\ r.option = o /\ r.weight = w /\ a # Nobody
      /\ loc[a].total \in Nat /\ loc[a].results \in [Option -> Nat]
      /\ votes \in [Wallet -> VoteRow]
  BY GovernanceAssumption DEF IInv, TypeOK, VoteRow
<1>2. pc[a] = "commit" /\ votes[x] = NoVote /\ votes' = [votes EXCEPT ![x] = r]
  BY DEF VoteCommit, Voted
<1>3. /\ votes' \in [Wallet -> VoteRow] /\ votes'[x] = r
      /\ \A y \in Wallet \ {x} : votes'[y] = votes[y]
  <2> HIDE DEF x, r
  <2> QED BY <1>1, <1>2
<1>4. /\ pc' \in [Attempt -> {"idle", "tx", "commit", "notify", "done"}]
      /\ \A b \in Attempt \ {a} : pc'[b] = pc[b]
  BY DEF VoteCommit, IInv, TypeOK
<1>5. /\ loc' \in [Attempt -> [weight : Nat, total : Nat, results : [Option -> Nat],
                                counted : BOOLEAN]]
      /\ ~loc'[a].counted /\ \A b \in Attempt \ {a} : loc'[b] = loc[b]
  <2>1. Unread \in [weight : Nat, total : Nat, results : [Option -> Nat], counted : BOOLEAN]
        /\ ~Unread.counted
    BY DEF Unread, Zero
  <2>2. loc' = [loc EXCEPT ![a] = Unread]
    BY DEF VoteCommit
  <2> HIDE DEF Unread
  <2> QED BY <2>1, <2>2 DEF IInv, TypeOK
<1>6. OnRecord(votes) \in Int
      /\ OnRecord(votes') = IF o \in Option THEN OnRecord(votes) + w ELSE OnRecord(votes)
  <2>1. votes[x].option = 0
    BY <1>2 DEF NoVote
  <2> DEFINE u == [votes EXCEPT ![x] = r]
  <2>2. OnRecord(u) = (IF r.option \in Option THEN OnRecord(votes) + r.weight ELSE OnRecord(votes))
        /\ OnRecord(votes) \in Int
    <3> HIDE DEF r, x
    <3> QED BY <1>1, <2>1, RecordVote
  <2>3. votes' = u
    BY <1>2
  <2> HIDE DEF u
  <2>4. OnRecord(votes') = OnRecord(u)
    BY <2>3
  <2> QED BY <1>1, <2>2, <2>4
<1>7. UNCHANGED <<now, row, logged, answer, cpc, aborts>>
  BY DEF VoteCommit
<1>8. VotesKept' /\ AnswerIsRecord'
  <2>1. \A b \in Attempt : votes[VoterOf[b]].by = b => votes'[VoterOf[b]].by = b
    <3>1. \A b \in Attempt : VoterOf[b] \in Wallet /\ b # Nobody
      BY GovernanceAssumption
    <3> HIDE DEF r, x
    <3> QED BY <1>1, <1>2, <1>3, <3>1 DEF NoVote
  <2>2. pc'[a] = "notify" => votes'[VoterOf[a]].by = a
    BY <1>1, <1>3
  <2>3. \A y \in Wallet : votes'[y].by = Nobody => votes'[y] = NoVote
    BY <1>1, <1>3 DEF IInv, VotesKept
  <2>4. \A b \in Attempt : pc'[b] = "notify" => votes'[VoterOf[b]].by = b
    <3>1. \A b \in Attempt : pc[b] = "notify" => votes[VoterOf[b]].by = b
      BY DEF IInv, VotesKept
    <3> SUFFICES ASSUME NEW b \in Attempt, pc'[b] = "notify"
                 PROVE  votes'[VoterOf[b]].by = b
      OBVIOUS
    <3>2. CASE b = a
      BY <2>2, <3>2
    <3>3. CASE b # a
      <4>1. pc'[b] = pc[b]
        BY <1>4, <3>3
      <4> QED BY <2>1, <3>1, <4>1, Zenon
    <3> QED BY <3>2, <3>3
  <2>5. \A b \in Attempt : loc'[b].counted => pc'[b] = "commit"
    <3>1. \A b \in Attempt : loc[b].counted => pc[b] = "commit"
      BY DEF IInv, VotesKept
    <3> SUFFICES ASSUME NEW b \in Attempt, loc'[b].counted
                 PROVE  pc'[b] = "commit"
      OBVIOUS
    <3>2. b # a
      BY <1>5
    <3>3. loc'[b] = loc[b] /\ pc'[b] = pc[b]
      BY <1>4, <1>5, <3>2, Zenon
    <3> QED BY <3>1, <3>3, Zenon
  <2>6. AnswerIsRecord'
    <3> HIDE DEF r, x
    <3> QED BY <1>7, <2>1 DEF IInv, AnswerIsRecord
  <2> QED BY <2>3, <2>4, <2>5, <2>6 DEF VotesKept
<1>9. CASE ~loc[a].counted
  <2>1. UNCHANGED <<tally, cast>>
    BY <1>9 DEF VoteCommit
  <2>2. TypeOK'
    BY <1>3, <1>4, <1>5, <1>7, <2>1 DEF IInv, TypeOK, row, tally, VoteRow
  <2>3. cast'.total <= OnRecord(votes')
    BY <1>1, <1>6, <2>1 DEF IInv, TalliesSound, TypeOK
  <2>4. TalliesSound'
    BY <1>5, <2>1, <2>3 DEF IInv, TalliesSound, Sound, tally
  <2>5. OutcomesQuorate' /\ ExecutedIsMarked'
    BY <1>7, <2>1 DEF IInv, OutcomesQuorate, ExecutedIsMarked, row, Quorate
  <2> QED BY <1>8, <2>2, <2>4, <2>5 DEF IInv
<1>10. CASE loc[a].counted
  <2>1. o \in Option
    BY <1>10 DEF IInv, TalliesSound
  <2>2. /\ total' = loc[a].total + w
        /\ results' = [loc[a].results EXCEPT ![o] = @ + w]
        /\ cast' = [cast EXCEPT !.total = @ + w, !.results[o] = @ + w]
    BY <1>10 DEF VoteCommit, applyVoteWeight, Cast
  <2>3. /\ cast' \in [total : Nat, results : [Option -> Nat]]
        /\ cast'.total = cast.total + w
        /\ cast'.results[o] = cast.results[o] + w
        /\ \A q \in Option \ {o} : cast'.results[q] = cast.results[q]
        /\ cast.total \in Nat /\ \A q \in Option : cast.results[q] \in Nat
    <3> HIDE DEF w, o
    <3>1. cast.total \in Nat /\ cast.results \in [Option -> Nat]
          /\ cast \in [total : Nat, results : [Option -> Nat]]
      BY DEF IInv, TypeOK
    <3>2. cast' = [total |-> cast.total + w, results |-> [cast.results EXCEPT ![o] = @ + w]]
      BY <2>2, <3>1
    <3> QED BY <1>1, <2>1, <3>1, <3>2
  <2>4. /\ total' \in Nat /\ results' \in [Option -> Nat]
        /\ results'[o] = loc[a].results[o] + w
        /\ \A q \in Option \ {o} : results'[q] = loc[a].results[q]
    <3> HIDE DEF w, o
    <3> QED BY <1>1, <2>1, <2>2
  <2>5. SumOver(results', Option) = SumOver(loc[a].results, Option) + w
        /\ SumOver(loc[a].results, Option) \in Int
    <3> DEFINE s == [loc[a].results EXCEPT ![o] = @ + w]
    <3>1. SumOver(s, Option) = SumOver(loc[a].results, Option) + w
          /\ SumOver(loc[a].results, Option) \in Int
      <4> HIDE DEF w, o
      <4> QED BY <1>1, <2>1, AddWeight
    <3>2. results' = s
      BY <2>2
    <3> HIDE DEF s
    <3> QED BY <3>1, <3>2
  <2> HIDE DEF w, o, r, x
  <2>6. Sound(loc[a].total, loc[a].results)
    BY <1>10 DEF IInv, TalliesSound
  <2>7. Sound(total, results)'
    BY <1>1, <2>1, <2>2, <2>3, <2>4, <2>5, <2>6 DEF Sound
  <2>8. \A b \in Attempt : loc'[b].counted =>
          OptionOf[b] \in Option /\ Sound(loc[b].total, loc[b].results)' /\ loc'[b] = loc[b]
    <3> SUFFICES ASSUME NEW b \in Attempt, loc'[b].counted
                 PROVE  OptionOf[b] \in Option /\ Sound(loc[b].total, loc[b].results)'
                        /\ loc'[b] = loc[b]
      OBVIOUS
    <3>1. loc'[b] = loc[b] /\ loc[b].counted
      BY <1>5
    <3>2. OptionOf[b] \in Option /\ Sound(loc[b].total, loc[b].results)
      BY <3>1 DEF IInv, TalliesSound
    <3>3. loc[b].total \in Nat /\ loc[b].results \in [Option -> Nat]
      BY DEF IInv, TypeOK
    <3>4. /\ loc[b].total <= cast'.total
          /\ \A q \in Option : loc[b].results[q] <= cast'.results[q]
      BY <1>1, <2>1, <2>3, <3>2, <3>3 DEF Sound
    <3> QED BY <3>1, <3>2, <3>4 DEF Sound
  <2>9. cast'.total <= OnRecord(votes')
    BY <1>1, <1>6, <2>1, <2>3 DEF IInv, TalliesSound
  <2>10. TalliesSound'
    BY <2>7, <2>8, <2>9 DEF TalliesSound
  <2>11. TypeOK'
    BY <1>3, <1>4, <1>5, <1>7, <2>3, <2>4 DEF IInv, TypeOK, row, VoteRow
  <2>12. Quorate => Quorate'
    BY <1>1, <1>7, <2>3, QuorumType DEF Quorate, row, IInv, TypeOK
  <2>13. OutcomesQuorate' /\ ExecutedIsMarked'
    BY <1>7, <2>12 DEF IInv, OutcomesQuorate, ExecutedIsMarked, row
  <2> QED BY <1>8, <2>10, <2>11, <2>13 DEF IInv
<1> QED BY <1>9, <1>10

\* The other steps of an attempt.
LEMMA VoteInv ==
  ASSUME IInv, NEW a \in Attempt, VoteStep(a) \/ VoteFail(a) \/ VoteRetry(a)
  PROVE  IInv'
<1>0. TypeOK /\ VoterOf[a] \in Wallet /\ aborts \in 0..MaxAborts
  BY GovernanceAssumption DEF IInv, TypeOK
<1>1. pc[a] # "commit" => ~loc[a].counted
  BY DEF IInv, VotesKept
<1>2. CASE castGovernanceVote(a)
  <2>1. SnapshotWeight(a) \in Nat
    BY <1>0, GovernanceAssumption DEF SnapshotWeight
  <2>2. SnapshotVerdict(a) \in {"ok", "notFound", "ended", "invalid", "noPower",
                                "duplicate", "error"}
    BY DEF SnapshotVerdict
  <2>3. UNCHANGED <<now, row, tally, votes, cast, logged, cpc, aborts>> /\ pc[a] = "idle"
    BY <1>2 DEF castGovernanceVote
  <2>4. CASE SnapshotVerdict(a) = "ok"
    <3>1. Enter(a, SnapshotWeight(a))
      BY <1>2, <2>4 DEF castGovernanceVote
    <3> QED BY <1>1, <2>1, <2>3, <3>1, EnterInv
  <2>5. CASE SnapshotVerdict(a) # "ok"
    <3>1. Reply(a, SnapshotVerdict(a))
      BY <1>2, <2>5 DEF castGovernanceVote
    <3>2. Replied(a, SnapshotVerdict(a))
      BY <1>0, <2>2, <3>1, ReplyFacts
    <3> QED BY <1>0, <2>3, <2>5, <3>2, ReplyInv
  <2> QED BY <2>4, <2>5
<1>3. CASE castKeyProposalVote(a)
  <2>1. PICK w \in HolderWeights : IF HolderVerdict(a, w) = "ok" THEN Enter(a, w)
                                   ELSE Reply(a, HolderVerdict(a, w))
    BY <1>3 DEF castKeyProposalVote
  <2>2. HolderVerdict(a, w) \in {"ok", "notFound", "ended", "invalid", "noPower",
                                 "duplicate", "error"}
        /\ w \in Nat
    BY GovernanceAssumption DEF HolderVerdict
  <2>3. UNCHANGED <<now, row, tally, votes, cast, logged, cpc, aborts>> /\ pc[a] = "idle"
    BY <1>3 DEF castKeyProposalVote
  <2>4. CASE HolderVerdict(a, w) = "ok"
    <3>1. Enter(a, w)
      BY <2>1, <2>4
    <3> QED BY <1>1, <2>2, <2>3, <3>1, EnterInv
  <2>5. CASE HolderVerdict(a, w) # "ok"
    <3>1. Reply(a, HolderVerdict(a, w))
      BY <2>1, <2>5
    <3>2. Replied(a, HolderVerdict(a, w))
      BY <1>0, <2>2, <3>1, ReplyFacts
    <3> QED BY <1>0, <2>3, <2>5, <3>2, ReplyInv
  <2> QED BY <2>4, <2>5
<1>4. CASE applyVoteCast(a)
  <2>1. PICK w \in ChainWeights : Enter(a, w)
    BY <1>4 DEF applyVoteCast
  <2>2. w \in Nat
    BY GovernanceAssumption
  <2>3. UNCHANGED <<now, row, tally, votes, cast, logged, cpc, aborts>> /\ pc[a] = "idle"
    BY <1>4 DEF applyVoteCast
  <2> QED BY <1>1, <2>1, <2>2, <2>3, EnterInv
<1>5. CASE VoteRead(a)
  BY <1>5, ReadInv
<1>6. CASE VoteCommit(a)
  BY <1>6, CommitInv
<1>7. CASE VoteConflict(a)
  <2>1. Replied(a, "duplicate")
    BY <1>0, <1>7, ReplyFacts DEF VoteConflict
  <2> QED BY <1>0, <1>7, <2>1, ReplyInv DEF VoteConflict
<1>8. CASE VoteAnswer(a)
  <2>1. Replied(a, "ok")
    BY <1>0, <1>8, ReplyFacts DEF VoteAnswer
  <2>2. votes[VoterOf[a]].by = a
    BY <1>8 DEF VoteAnswer, IInv, VotesKept
  <2> QED BY <1>0, <1>8, <2>1, <2>2, ReplyInv DEF VoteAnswer
<1>9. CASE VoteFail(a)
  <2>1. Replied(a, "error")
    BY <1>0, <1>9, ReplyFacts DEF VoteFail
  <2>2. aborts' \in 0..MaxAborts
    BY <1>0, <1>9, GovernanceAssumption DEF VoteFail
  <2> QED BY <1>0, <1>9, <2>1, <2>2, ReplyInv DEF VoteFail
<1>10. CASE VoteRetry(a)
  <2>1. /\ pc' \in [Attempt -> {"idle", "tx", "commit", "notify", "done"}]
        /\ pc'[a] = "idle" /\ pc[a] = "done" /\ \A b \in Attempt \ {a} : pc'[b] = pc[b]
        /\ UNCHANGED <<now, row, tally, votes, cast, logged, loc, answer, cpc, aborts>>
    BY <1>0, <1>10 DEF VoteRetry, TypeOK
  <2>2. TypeOK'
    BY <2>1 DEF IInv, TypeOK, row, tally
  <2>3. TalliesSound'
    BY <2>1, TalliesFrame DEF IInv
  <2>4. VotesKept' /\ AnswerIsRecord'
    BY <1>1, <2>1 DEF IInv, VotesKept, AnswerIsRecord
  <2>5. OutcomesQuorate' /\ ExecutedIsMarked'
    BY <2>1 DEF IInv, OutcomesQuorate, ExecutedIsMarked, row, Quorate
  <2> QED BY <2>2, <2>3, <2>4, <2>5 DEF IInv
<1> QED BY <1>2, <1>3, <1>4, <1>5, <1>6, <1>7, <1>8, <1>9, <1>10 DEF VoteStep

\* A step of the deadline, the execution, a sweep or the clock: what was cast
\* stays, and a pass is written only for a tally that has its quorum.
LEMMA RowInv ==
  ASSUME IInv, UNCHANGED <<tally, votes, cast, pc, loc, answer, eligible, snapshotted>>,
         TypeOK', OutcomesQuorate', ExecutedIsMarked'
  PROVE  IInv'
<1>1. TalliesSound'
  BY TalliesFrame DEF IInv
<1>2. VotesKept' /\ AnswerIsRecord'
  BY DEF IInv, VotesKept, AnswerIsRecord
<1> QED BY <1>1, <1>2 DEF IInv

\* evaluateProposalOutcome passes only a tally with a quorum, and the stored
\* tally claims no more than was cast.
LEMMA PassedIsQuorate ==
  ASSUME IInv PROVE /\ evaluateProposalOutcome(total, results, eligible) \in Outcomes
                    /\ evaluateProposalOutcome(total, results, eligible) = "passed" => Quorate
<1>1. evaluateProposalOutcome(total, results, eligible) \in Outcomes
  BY DEF evaluateProposalOutcome, Outcomes
<1>2. ASSUME evaluateProposalOutcome(total, results, eligible) = "passed" PROVE Quorate
  <2>1. eligible # 0 /\ ~(total < quorumRequiredWeight(eligible))
    BY <1>2 DEF evaluateProposalOutcome
  <2>2. /\ eligible \in Nat /\ total \in Nat /\ cast.total \in Nat /\ total <= cast.total
        /\ quorumRequiredWeight(eligible) \in Int
    BY QuorumType DEF IInv, TypeOK, TalliesSound, Sound
  <2> QED BY <2>1, <2>2 DEF Quorate
<1> QED BY <1>1, <1>2

\* ... every step preserves it, ...
LEMMA StepInv == IInv /\ [Next]_vars => IInv'
<1> SUFFICES ASSUME IInv, [Next]_vars PROVE IInv'
  OBVIOUS
<1>0. now \in Nat /\ now + Duration \in Nat /\ TotalStake \in Nat /\ ChainEligible \in Nat
      /\ 0 \in Nat /\ TRUE \in BOOLEAN /\ FALSE \in BOOLEAN
  BY GovernanceAssumption, ConstantFacts DEF IInv, TypeOK
<1>1. CASE createGovernanceProposal \/ createCreatorProposal
  BY <1>0, <1>1, CreateInv DEF createGovernanceProposal, createCreatorProposal
<1>2. CASE applyProposalCreated
  BY <1>0, <1>2, CreateInv DEF applyProposalCreated
<1>3. ASSUME NEW a \in Attempt, VoteStep(a) \/ VoteFail(a) \/ VoteRetry(a) PROVE IInv'
  BY <1>3, VoteInv
<1>4. ASSUME NEW x \in Extensions, processGovernanceEscalationEvents(x) PROVE IInv'
  <2>1. TypeOK'
    BY <1>0, <1>4 DEF processGovernanceEscalationEvents, IInv, TypeOK, row, tally
  <2>2. OutcomesQuorate' /\ ExecutedIsMarked'
    BY <1>4 DEF processGovernanceEscalationEvents, IInv, OutcomesQuorate, ExecutedIsMarked,
       Quorate, row
  <2> QED BY <1>4, <2>1, <2>2, RowInv DEF processGovernanceEscalationEvents, row
<1>5. CASE applyProposalExecuted
  <2>1. TypeOK'
    BY <1>5 DEF applyProposalExecuted, IInv, TypeOK, tally
  <2>2. OutcomesQuorate' /\ ExecutedIsMarked'
    BY <1>5 DEF applyProposalExecuted, IInv, OutcomesQuorate, ExecutedIsMarked, Quorate
  <2> QED BY <1>5, <2>1, <2>2, RowInv DEF applyProposalExecuted
<1>6. ASSUME NEW c \in Closers, CloseRead(c) PROVE IInv'
  <2> DEFINE out == evaluateProposalOutcome(total, results, eligible)
  <2>1. out \in Outcomes /\ (out = "passed" => Quorate) /\ cpc' = [cpc EXCEPT ![c] = out]
        /\ status = "active"
        /\ UNCHANGED <<now, row, tally, votes, cast, logged, pc, loc, answer, aborts>>
    BY <1>6, PassedIsQuorate DEF CloseRead
  <2> HIDE DEF out
  <2>2. TypeOK'
    BY <2>1 DEF IInv, TypeOK, row, tally
  <2>3. OutcomesQuorate' /\ ExecutedIsMarked'
    BY <2>1 DEF IInv, TypeOK, OutcomesQuorate, ExecutedIsMarked, Quorate, row
  <2> QED BY <2>1, <2>2, <2>3, RowInv DEF row
<1>7. ASSUME NEW c \in Closers, CloseWrite(c) PROVE IInv'
  <2>1. TypeOK'
    BY <1>7 DEF CloseWrite, IInv, TypeOK, tally
  <2>2. OutcomesQuorate' /\ ExecutedIsMarked'
    BY <1>7 DEF CloseWrite, IInv, TypeOK, OutcomesQuorate, ExecutedIsMarked, Quorate, Outcomes
  <2> QED BY <1>7, <2>1, <2>2, RowInv DEF CloseWrite
<1>8. ASSUME NEW c \in Closers, CloseFail(c) PROVE IInv'
  <2>1. TypeOK'
    BY <1>8, GovernanceAssumption DEF CloseFail, IInv, TypeOK, row, tally
  <2>2. OutcomesQuorate' /\ ExecutedIsMarked'
    BY <1>8 DEF CloseFail, IInv, TypeOK, OutcomesQuorate, ExecutedIsMarked, Quorate, row
  <2> QED BY <1>8, <2>1, <2>2, RowInv DEF CloseFail, row
<1>9. CASE Tick
  <2>1. TypeOK'
    BY <1>9, GovernanceAssumption DEF Tick, IInv, TypeOK, row, tally
  <2>2. OutcomesQuorate' /\ ExecutedIsMarked'
    BY <1>9 DEF Tick, IInv, OutcomesQuorate, ExecutedIsMarked, Quorate, row
  <2> QED BY <1>9, <2>1, <2>2, RowInv DEF Tick, row
<1>10. CASE UNCHANGED vars
  <2>1. TypeOK'
    BY <1>10 DEF vars, IInv, TypeOK, row, tally
  <2>2. OutcomesQuorate' /\ ExecutedIsMarked'
    BY <1>10 DEF vars, IInv, OutcomesQuorate, ExecutedIsMarked, Quorate, row
  <2> QED BY <1>10, <2>1, <2>2, RowInv DEF vars, row
<1> QED BY <1>1, <1>2, <1>3, <1>4, <1>5, <1>6, <1>7, <1>8, <1>9, <1>10 DEF Next

\* ... so it always holds.
LEMMA Invariance == Spec => []IInv
BY InitInv, StepInv, PTL DEF Spec

-----------------------------------------------------------------------------
(* The theorems *)

\* Type correctness of the proposal row, the vote rows and every attempt's
\* local state, under all interleavings of the three ways to vote, the chain
\* events, the sweeps and the failures.
THEOREM TypeCorrect == Spec => []TypeOK
<1>1. IInv => TypeOK
  BY DEF IInv
<1> QED BY <1>1, Invariance, PTL

\* The tally is read in one statement of the vote transaction and overwritten
\* in a later one.  It may lose votes, but for any number of concurrent votes
\* by any path: what was folded into tallies is the weight of one row per
\* wallet, the stored tally claims no weight nobody cast, in no option, and
\* its options add up to its total.
THEOREM TallyIsSound == Spec => []TallySound
<1>1. ASSUME IInv PROVE TallySound
  <2>1. SumOver(results, Option) = MapThenSumSet(LAMBDA o : results[o], Option)
    BY DEF SumOver
  <2>2. OnRecord(votes) = MapThenSumSet(LAMBDA w : VoteWeights[w], CountedVotes)
    BY DEF SumOver, OnRecord, VoteWeights, CountedVotes, WeightIn, CountedIn
  <2>3. TalliesSound
    BY <1>1 DEF IInv
  <2> QED BY <2>1, <2>2, <2>3 DEF TalliesSound, Sound, TallySound
<1> QED BY <1>1, Invariance, PTL

\* closeDueProposals evaluates a proposal on a tally that votes may overwrite
\* and writes the outcome later, by id.  A proposal shown as passed
\* nevertheless had votes of the required share of the eligible weight.
THEOREM PassedIsBacked == Spec => []PassedHadQuorum
<1>1. ASSUME IInv PROVE PassedHadQuorum
  <2>1. resolveProposalStatus = "passed" => Quorate
    <3>1. status = "passed" => Quorate
      BY <1>1 DEF IInv, OutcomesQuorate
    <3>2. evaluateProposalOutcome(total, results, eligible) = "passed" => Quorate
      BY <1>1, PassedIsQuorate
    <3> QED BY <3>1, <3>2 DEF resolveProposalStatus
  <2> QED BY <2>1 DEF PassedHadQuorum, Quorate
<1> QED BY <1>1, Invariance, PTL

\* However an attempt's transaction conflicts, aborts and is retried, a client
\* told `ok' has its own vote on record.
THEOREM AnswerIsBacked == Spec => []AnswerIsRecord
<1>1. IInv => AnswerIsRecord
  BY DEF IInv
<1> QED BY <1>1, Invariance, PTL

\* A sweep writes the outcome by id, whatever the row's status is by then.  It
\* never makes a terminal proposal active again, and a proposal shown as
\* executed is shown as executed ever after.
THEOREM TerminalIsFinal == Spec => TerminalStays
<1>1. ASSUME IInv, [Next]_vars
      PROVE  /\ status \notin {"none", "active"} => status' \notin {"none", "active"}
             /\ resolveProposalStatus = "executed" => resolveProposalStatus' = "executed"
  <2>0. \A c \in Closers : cpc[c] \in {"idle"} \cup Outcomes
    BY <1>1 DEF IInv, TypeOK
  <2>1. status \notin {"none", "active"} => status' \notin {"none", "active"}
    BY <1>1, <2>0 DEF Next, vars, row, VoteStep, createGovernanceProposal,
       createCreatorProposal, applyProposalCreated, CreateRow, castGovernanceVote,
       castKeyProposalVote, applyVoteCast, VoteRead, VoteCommit, VoteConflict, VoteAnswer,
       VoteFail, VoteRetry, processGovernanceEscalationEvents, applyProposalExecuted,
       CloseRead, CloseWrite, CloseFail, Tick, Outcomes
  <2>2. executedAt \in BOOLEAN /\ (status = "executed" => executedAt)
    BY <1>1 DEF IInv, TypeOK, ExecutedIsMarked
  <2>3. executedAt => executedAt'
    BY <1>1 DEF Next, vars, row, VoteStep, createGovernanceProposal,
       createCreatorProposal, applyProposalCreated, CreateRow, castGovernanceVote,
       castKeyProposalVote, applyVoteCast, VoteRead, VoteCommit, VoteConflict, VoteAnswer,
       VoteFail, VoteRetry, processGovernanceEscalationEvents, applyProposalExecuted,
       CloseRead, CloseWrite, CloseFail, Tick
  <2>4. resolveProposalStatus = "executed" => executedAt
    <3>1. evaluateProposalOutcome(total, results, eligible) # "executed"
      BY DEF evaluateProposalOutcome
    <3> QED BY <2>2, <3>1 DEF resolveProposalStatus
  <2>5. executedAt' => resolveProposalStatus' = "executed"
    BY DEF resolveProposalStatus
  <2> QED BY <2>1, <2>3, <2>4, <2>5
<1> QED BY <1>1, Invariance, PTL DEF Spec, TerminalStays
=============================================================================
