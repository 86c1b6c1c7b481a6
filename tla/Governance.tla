----------------------------- MODULE Governance -----------------------------
(***************************************************************************)
(* One governance proposal, the three ways to vote on it, and its close:   *)
(*   modules/governance/governance-proposals.service.ts  create, snapshot  *)
(*       vote, close, status                                               *)
(*   modules/creator/creator-proposals.service.ts        create            *)
(*   modules/keys/key-proposal-votes.service.ts          key-holder vote   *)
(*   modules/indexer/governance-proposal-indexer.service.ts  chain events  *)
(*   modules/indexer/governance-escalation-indexer.service.ts  extensions  *)
(*   utils/vote-tally.utils.ts, jobs/governance-sync.job.ts                *)
(* Transactions run at PostgreSQL's default isolation, read committed: a   *)
(* transaction reads a committed tally, and later overwrites it with       *)
(* absolute values; the row lock is taken by the write.  The write, the    *)
(* insert of the vote and the commit are one step: between them only locks *)
(* are visible, and a lock conflict ends in waiting or in an abort.        *)
(***************************************************************************)
EXTENDS Integers, FiniteSets, FiniteSetsExt

CONSTANTS
  Wallet,        \* voters
  NumOptions,    \* the proposal's options are 1..NumOptions
  QuorumBps,     \* quorum, in basis points of the eligible weight
  Stake,         \* [Wallet -> Nat]: staked balance at the snapshot
  HolderWeights, \* weights a holder's vote can have: balance + delegated
  SnapshotVotes, HolderVotes, ChainVotes,  \* vote attempts, by path
  VoterOf, OptionOf,  \* [Attempt -> Wallet], [Attempt -> option]
  ChainWeights,  \* weights a VOTE_CAST event can carry
  ChainEligible, \* snapshotTotalWeight a PROPOSAL_CREATED event carries
  Extensions,    \* PROPOSAL_EXTENDED events
  Closers,       \* callers of closeDueProposals: the job, a list request
  Duration,      \* length of the voting window, and of an extension
  MaxTime,       \* bound on the clock
  MaxAborts,     \* bound: transactions and sweeps that fail
  Nobody         \* no attempt

Option  == 1..NumOptions
Attempt == SnapshotVotes \cup HolderVotes \cup ChainVotes

\* Sum of the wallets' staked balances for the key.
TotalStake == MapThenSumSet(LAMBDA w : Stake[w], Wallet)

ASSUME GovernanceAssumption ==
  /\ NumOptions \in Nat \ {0} /\ QuorumBps \in Nat
  /\ Stake \in [Wallet -> Nat] /\ IsFiniteSet(Wallet)
  /\ HolderWeights \subseteq Nat /\ ChainWeights \subseteq Nat
  /\ ChainEligible \in Nat /\ Nobody \notin Attempt
  /\ SnapshotVotes \cap HolderVotes = {} /\ ChainVotes \cap HolderVotes = {}
  /\ SnapshotVotes \cap ChainVotes = {}
  /\ VoterOf \in [Attempt -> Wallet] /\ OptionOf \in [Attempt -> Nat \ {0}]
  /\ Duration \in Nat /\ MaxTime \in Nat /\ MaxAborts \in Nat

VARIABLES
  now,         \* the clock
  status,      \* the proposal row; "none": there is no row
  expiresAt, eligible, total, results, executedAt, escalations,
  snapshotted, \* the voting snapshot rows were written with it
  votes,       \* proposal_votes: unique per (key, proposal, voter)
  cast,        \* weight of the counted votes, per option (history)
  logged,      \* governance_escalation_event_log
  pc, loc,     \* vote attempts: position, and what was read
  answer,      \* and what the client was told
  cpc,         \* closers: "idle", or the outcome about to be written
  aborts       \* failures so far

row  == <<status, expiresAt, eligible, executedAt, escalations, snapshotted>>
tally == <<total, results>>
vars == <<now, row, tally, votes, cast, logged, pc, loc, answer, cpc, aborts>>

Outcomes == {"passed", "failed", "quorum_not_met"}
Tally    == [total : Nat, results : [Option -> Nat]]
NoVote   == [by |-> Nobody, option |-> 0, weight |-> 0]
Zero     == [o \in Option |-> 0]
Unread   == [weight |-> 0, total |-> 0, results |-> Zero, counted |-> FALSE]

TypeOK ==
  /\ now \in 0..MaxTime
  /\ status \in {"none", "active", "executed"} \cup Outcomes
  /\ expiresAt \in Nat /\ eligible \in Nat /\ escalations \in Nat
  /\ total \in Nat /\ results \in [Option -> Nat]
  /\ executedAt \in BOOLEAN /\ snapshotted \in BOOLEAN
  /\ votes \in [Wallet -> [by : Attempt \cup {Nobody}, option : Nat, weight : Nat]]
  /\ cast \in [total : Nat, results : [Option -> Nat]]
  /\ logged \in SUBSET Extensions
  /\ pc \in [Attempt -> {"idle", "tx", "commit", "notify", "done"}]
  /\ loc \in [Attempt -> [weight : Nat, total : Nat, results : [Option -> Nat],
                          counted : BOOLEAN]]
  /\ answer \in [Attempt -> {"none", "ok", "notFound", "ended", "invalid",
                             "noPower", "duplicate", "error"}]
  /\ cpc \in [Closers -> {"idle"} \cup Outcomes]
  /\ aborts \in 0..MaxAborts

Init ==
  /\ now = 0 /\ status = "none" /\ expiresAt = 0 /\ eligible = 0
  /\ total = 0 /\ results = Zero /\ executedAt = FALSE /\ escalations = 0
  /\ snapshotted = FALSE /\ votes = [w \in Wallet |-> NoVote]
  /\ cast = [total |-> 0, results |-> Zero] /\ logged = {}
  /\ pc = [a \in Attempt |-> "idle"]
  /\ loc = [a \in Attempt |-> Unread]
  /\ answer = [a \in Attempt |-> "none"]
  /\ cpc = [c \in Closers |-> "idle"] /\ aborts = 0

-----------------------------------------------------------------------------
(* Outcome *)

\* Weight needed for a quorum: ceil(t * QuorumBps / 10000).
quorumRequiredWeight(t) == (t * QuorumBps + 9999) \div 10000

\* The option with the greatest weight, the first of them on a tie.
leadingOption(r) ==
  CHOOSE o \in Option :
    \A p \in Option : r[p] < r[o] \/ (r[p] = r[o] /\ o <= p)

\* Mutant: the eligible weight is compared, not the weight cast.
EligibleQuorum(t, r, e) ==
  IF e = 0 \/ t = 0 THEN "quorum_not_met"
  ELSE IF 2 * r[leadingOption(r)] > t THEN "passed" ELSE "failed"

evaluateProposalOutcome(t, r, e) ==
  IF e = 0 \/ t = 0 \/ t < quorumRequiredWeight(e) THEN "quorum_not_met"
  ELSE IF 2 * r[leadingOption(r)] > t THEN "passed"
  ELSE "failed"

Expired == expiresAt <= now

\* Mutant: only the status column is looked at.
StatusColumn ==
  IF status = "active" /\ Expired
  THEN evaluateProposalOutcome(total, results, eligible) ELSE status

\* The status every read endpoint shows.
resolveProposalStatus ==
  IF status = "executed" \/ executedAt THEN "executed"
  ELSE IF status = "active" /\ Expired
  THEN evaluateProposalOutcome(total, results, eligible)
  ELSE status

-----------------------------------------------------------------------------
(* Creating the proposal *)

CreateRow(deadline, e, snap) ==
  /\ status = "none"
  /\ status' = "active" /\ expiresAt' = deadline /\ eligible' = e
  /\ snapshotted' = snap
  /\ total' = 0 /\ results' = Zero
  /\ UNCHANGED <<now, executedAt, escalations, votes, cast, logged, pc, loc,
                 answer, cpc, aborts>>

\* Staked balances frozen with the proposal; rows only for positive weights.
createGovernanceProposal ==
  CreateRow(now + Duration, TotalStake, TRUE)

\* The creator's endpoint stores no snapshot: eligible stays at its default 0.
createCreatorProposal == CreateRow(now + Duration, 0, FALSE)

\* PROPOSAL_CREATED: no snapshot rows; skipped when the row exists.
applyProposalCreated ==
  \E d \in {now, now + Duration} : CreateRow(d, ChainEligible, FALSE)

-----------------------------------------------------------------------------
(* Voting *)

Voted(a) == votes[VoterOf[a]] # NoVote

\* The attempt ends (and forgets what it read); a chain vote may be
\* delivered again.
Reply(a, ans) ==
  /\ answer' = [answer EXCEPT ![a] = ans]
  /\ loc' = [loc EXCEPT ![a] = Unread]
  /\ pc' = [pc EXCEPT ![a] = IF a \in ChainVotes THEN "idle" ELSE "done"]

\* The vote passes its first checks with weight w.
Enter(a, w) ==
  /\ pc' = [pc EXCEPT ![a] = "tx"]
  /\ loc' = [loc EXCEPT ![a].weight = w]
  /\ UNCHANGED answer

\* castGovernanceVote up to its transaction: the snapshot weight, and the
\* first check that fails.
SnapshotWeight(a) == IF snapshotted THEN Stake[VoterOf[a]] ELSE 0

SnapshotVerdict(a) ==
  IF status = "none" THEN "notFound"
  ELSE IF status # "active" \/ Expired THEN "ended"
  ELSE IF OptionOf[a] \notin Option THEN "invalid"
  ELSE IF SnapshotWeight(a) = 0 THEN "noPower"
  ELSE IF Voted(a) THEN "duplicate"
  ELSE "ok"

castGovernanceVote(a) ==
  /\ a \in SnapshotVotes /\ pc[a] = "idle"
  /\ IF SnapshotVerdict(a) = "ok" THEN Enter(a, SnapshotWeight(a))
     ELSE Reply(a, SnapshotVerdict(a))
  /\ UNCHANGED <<now, row, tally, votes, cast, logged, cpc, aborts>>

\* castKeyProposalVote up to its transaction; w is the wallet's live balance
\* plus the balances delegated to it, 0 when it holds no keys itself.
HolderVerdict(a, w) ==
  IF status = "none" THEN "notFound"
  ELSE IF OptionOf[a] \notin Option THEN "invalid"
  ELSE IF w = 0 THEN "noPower"
  ELSE IF Voted(a) THEN "duplicate"
  ELSE "ok"

castKeyProposalVote(a) ==
  /\ a \in HolderVotes /\ pc[a] = "idle"
  /\ \E w \in HolderWeights :
       IF HolderVerdict(a, w) = "ok" THEN Enter(a, w)
       ELSE Reply(a, HolderVerdict(a, w))
  /\ UNCHANGED <<now, row, tally, votes, cast, logged, cpc, aborts>>

\* VOTE_CAST up to its transaction: a recorded vote is skipped.
applyVoteCast(a) ==
  /\ a \in ChainVotes /\ pc[a] = "idle"
  /\ \A b \in ChainVotes : pc[b] = "idle"
  /\ ~Voted(a) /\ \E w \in ChainWeights : Enter(a, w)
  /\ UNCHANGED <<now, row, tally, votes, cast, logged, cpc, aborts>>

\* The proposal's state as the transaction re-reads it.
Open(a) ==
  \/ a \in SnapshotVotes /\ status = "active" /\ ~Expired
  \/ a \in HolderVotes /\ status = "active"
  \/ a \in ChainVotes

\* A chain vote for an unknown proposal or option is recorded, not counted.
Counted(a) == status # "none" /\ OptionOf[a] \in Option

\* The transaction's read: the current tally, or the end of the attempt.
VoteRead(a) ==
  /\ pc[a] = "tx"
  /\ \/ ~Open(a) /\ Reply(a, "ended")
     \/ /\ Open(a)
        /\ pc' = [pc EXCEPT ![a] = "commit"]
        /\ loc' = [loc EXCEPT ![a] = [weight |-> @.weight, total |-> total,
                      results |-> results, counted |-> Counted(a)]]
        /\ UNCHANGED answer
  /\ UNCHANGED <<now, row, tally, votes, cast, logged, cpc, aborts>>

\* Mutant: the weight is taken off.
WeightSubtracted(t, w, o) ==
  [total |-> t.total - w, results |-> [t.results EXCEPT ![o] = @ - w]]

\* A tally with w added to option o.
applyVoteWeight(t, w, o) ==
  [total |-> t.total + w, results |-> [t.results EXCEPT ![o] = @ + w]]

\* The history of counted weight.
Cast(a) == cast' = [cast EXCEPT !.total = @ + loc[a].weight,
                                !.results[OptionOf[a]] = @ + loc[a].weight]

\* The write of the tally, the insert of the vote and the commit.
VoteCommit(a) ==
  /\ pc[a] = "commit" /\ ~Voted(a)
  /\ votes' = [votes EXCEPT ![VoterOf[a]] =
                 [by |-> a, option |-> OptionOf[a], weight |-> loc[a].weight]]
  /\ LET t == applyVoteWeight(loc[a], loc[a].weight, OptionOf[a])
     IN IF loc[a].counted THEN total' = t.total /\ results' = t.results /\ Cast(a)
        ELSE UNCHANGED <<tally, cast>>
  /\ pc' = [pc EXCEPT ![a] = IF a \in ChainVotes THEN "idle" ELSE "notify"]
  /\ loc' = [loc EXCEPT ![a] = Unread]
  /\ UNCHANGED <<now, row, logged, answer, cpc, aborts>>

\* Mutant: the tally is written outside the transaction.
ConflictKeepsTally(a) ==
  /\ pc[a] = "commit" /\ Voted(a)
  /\ LET t == applyVoteWeight(loc[a], loc[a].weight, OptionOf[a])
     IN IF loc[a].counted THEN total' = t.total /\ results' = t.results
        ELSE UNCHANGED tally
  /\ Reply(a, "duplicate")
  /\ UNCHANGED <<now, row, votes, cast, logged, cpc, aborts>>

\* Mutant: P2002 is taken for the retry of a vote that succeeded.
ConflictIsOk(a) ==
  /\ pc[a] = "commit" /\ Voted(a)
  /\ Reply(a, "ok")
  /\ UNCHANGED <<now, row, tally, votes, cast, logged, cpc, aborts>>

\* The insert finds the wallet's vote (P2002): everything is rolled back.
VoteConflict(a) ==
  /\ pc[a] = "commit" /\ Voted(a)
  /\ Reply(a, "duplicate")
  /\ UNCHANGED <<now, row, tally, votes, cast, logged, cpc, aborts>>

\* After the commit the snapshot path still writes the activity record, in a
\* statement of its own: if it fails the client is told of an error.
VoteAnswer(a) ==
  /\ pc[a] = "notify" /\ Reply(a, "ok")
  /\ UNCHANGED <<now, row, tally, votes, cast, logged, cpc, aborts>>

\* A transaction aborts, or the activity record of a snapshot vote fails.
VoteFail(a) ==
  /\ pc[a] \in {"tx", "commit"} \/ (pc[a] = "notify" /\ a \in SnapshotVotes)
  /\ aborts < MaxAborts /\ aborts' = aborts + 1
  /\ Reply(a, "error")
  /\ UNCHANGED <<now, row, tally, votes, cast, logged, cpc>>

\* The client sends the vote again after an error.
VoteRetry(a) ==
  /\ pc[a] = "done" /\ answer[a] = "error"
  /\ pc' = [pc EXCEPT ![a] = "idle"]
  /\ UNCHANGED <<now, row, tally, votes, cast, logged, loc, answer, cpc, aborts>>

-----------------------------------------------------------------------------
(* Extension, execution, close *)

\* PROPOSAL_EXTENDED: logged once; the deadline moves whatever the status is,
\* and an extension of an unknown proposal is logged and lost.
processGovernanceEscalationEvents(x) ==
  /\ x \notin logged /\ logged' = logged \cup {x}
  /\ \/ status = "none" /\ UNCHANGED row
     \/ /\ status # "none"
        /\ escalations' = escalations + 1 /\ expiresAt' = now + Duration
        /\ UNCHANGED <<status, eligible, executedAt, snapshotted>>
  /\ UNCHANGED <<now, tally, votes, cast, pc, loc, answer, cpc, aborts>>

\* PROPOSAL_EXECUTED: an unknown or an executed proposal is left alone.
applyProposalExecuted ==
  /\ status # "none" /\ ~executedAt /\ status # "executed"
  /\ status' = "executed" /\ executedAt' = TRUE
  /\ UNCHANGED <<expiresAt, eligible, escalations, snapshotted>>
  /\ UNCHANGED <<now, tally, votes, cast, logged, pc, loc, answer, cpc, aborts>>

\* Mutant: a proposal is due only after its deadline.
CloseReadLate(c) ==
  /\ cpc[c] = "idle" /\ status = "active" /\ expiresAt < now
  /\ cpc' = [cpc EXCEPT ![c] = evaluateProposalOutcome(total, results, eligible)]
  /\ UNCHANGED <<now, row, tally, votes, cast, logged, pc, loc, answer, aborts>>

\* closeDueProposals reads the due proposal and evaluates it ...
CloseRead(c) ==
  /\ cpc[c] = "idle" /\ status = "active" /\ Expired
  /\ cpc' = [cpc EXCEPT ![c] = evaluateProposalOutcome(total, results, eligible)]
  /\ UNCHANGED <<now, row, tally, votes, cast, logged, pc, loc, answer, aborts>>

\* ... and writes the outcome by id, whatever happened in between.
CloseWrite(c) ==
  /\ cpc[c] # "idle"
  /\ status' = cpc[c] /\ cpc' = [cpc EXCEPT ![c] = "idle"]
  /\ UNCHANGED <<expiresAt, eligible, executedAt, escalations, snapshotted>>
  /\ UNCHANGED <<now, tally, votes, cast, logged, pc, loc, answer, aborts>>

\* The sweep fails before its write; the job's next run starts over.
CloseFail(c) ==
  /\ cpc[c] # "idle" /\ aborts < MaxAborts /\ aborts' = aborts + 1
  /\ cpc' = [cpc EXCEPT ![c] = "idle"]
  /\ UNCHANGED <<now, row, tally, votes, cast, logged, pc, loc, answer>>

Tick ==
  /\ now < MaxTime /\ now' = now + 1
  /\ UNCHANGED <<row, tally, votes, cast, logged, pc, loc, answer, cpc, aborts>>

VoteStep(a) ==
  \/ castGovernanceVote(a) \/ castKeyProposalVote(a) \/ applyVoteCast(a)
  \/ VoteRead(a) \/ VoteCommit(a) \/ VoteConflict(a) \/ VoteAnswer(a)

Next ==
  \/ createGovernanceProposal \/ createCreatorProposal \/ applyProposalCreated
  \/ \E a \in Attempt : VoteStep(a) \/ VoteFail(a) \/ VoteRetry(a)
  \/ \E x \in Extensions : processGovernanceEscalationEvents(x)
  \/ applyProposalExecuted
  \/ \E c \in Closers : CloseRead(c) \/ CloseWrite(c) \/ CloseFail(c)
  \/ Tick

\* A started vote transaction and a started sweep go on; the job sweeps at
\* every interval.
Fairness ==
  /\ \A a \in Attempt : WF_vars(VoteRead(a) \/ VoteCommit(a) \/ VoteConflict(a)
                                \/ VoteAnswer(a))
  /\ \A c \in Closers : WF_vars(CloseRead(c)) /\ WF_vars(CloseWrite(c))

Spec == Init /\ [][Next]_vars /\ Fairness

-----------------------------------------------------------------------------
(* Properties *)

\* The rows of proposal_votes that a tally should contain.
CountedVotes == {w \in Wallet : votes[w].option \in Option}
VoteWeights  == [w \in Wallet |-> votes[w].weight]

\* Whatever paths a wallet votes by, at the same time or one after the other,
\* the weight folded into tallies is that of one row per wallet; the stored
\* tally may miss votes (two transactions read the same tally) but claims no
\* weight nobody cast, in any option; and its buckets add up to its total.
TallySound ==
  /\ status # "none" =>
       cast.total <= MapThenSumSet(LAMBDA w : VoteWeights[w], CountedVotes)
  /\ total <= cast.total
  /\ \A o \in Option : results[o] <= cast.results[o]
  /\ total = MapThenSumSet(LAMBDA o : results[o], Option)

\* A proposal shown as passed had its quorum: votes of at least the required
\* share of the eligible weight were recorded, even when the outcome was
\* evaluated on a tally that concurrent votes overwrote, or written late.
PassedHadQuorum ==
  resolveProposalStatus = "passed" =>
    eligible > 0 /\ cast.total >= quorumRequiredWeight(eligible)

\* A client told "ok" has its own vote on record, never another attempt's.
AnswerIsRecord ==
  \A a \in Attempt : answer[a] = "ok" => votes[VoterOf[a]].by = a

\* A terminal proposal is never active again, and one shown as executed stays
\* so although a sweep that read it earlier may still overwrite the column.
TerminalStays ==
  [][ /\ status \notin {"none", "active"} => status' \notin {"none", "active"}
      /\ resolveProposalStatus = "executed" => resolveProposalStatus' = "executed"
    ]_vars

\* A due proposal is closed, executed or extended.
DueIsClosed == (status = "active" /\ Expired) ~> (status # "active" \/ ~Expired)

\* The tally write and the vote insert `cannot diverge'
\* (key-proposal-votes.service.ts): the tally counts every recorded vote.
TallyMatchesVotes == total = cast.total
=============================================================================
