------------------------------ MODULE Multisig ------------------------------
(***************************************************************************)
(* One admin multisig proposal (modules/admin/multisig-proposal.service.ts)*)
(* signed and rejected by concurrent requests.  Each request is one        *)
(* read-committed transaction: it reads the proposal with its signatures,  *)
(* and its insert and update come later.  executeProposal only logs.       *)
(***************************************************************************)
EXTENDS Integers, FiniteSets

CONSTANTS
  Signer,      \* authorized admin wallets
  Ballot,      \* requests
  SignerOf,    \* [Ballot -> Signer]
  Rejections,  \* the requests that reject; the others sign
  Threshold,   \* signatures required
  MaxRollbacks \* bound: transactions that fail

ASSUME MultisigAssumption ==
  /\ SignerOf \in [Ballot -> Signer] /\ Rejections \subseteq Ballot
  /\ IsFiniteSet(Signer) /\ Threshold \in 1..Cardinality(Signer)
  /\ MaxRollbacks \in Nat

VARIABLES
  proposal,    \* MultisigProposal.status; "none": there is no row
  signatures,  \* signers with a MultisigSignature row
  executed,    \* executedAt is set
  rejected,    \* rejectedAt is set
  ballotPc, ballotRead, \* requests: position, signatures they have read
  raced,       \* two requests were in progress at once (history)
  rollbacks

multisigVars == <<proposal, signatures, executed, rejected, ballotPc,
                  ballotRead, raced, rollbacks>>

MultisigTypeOK ==
  /\ proposal \in {"none", "pending", "executed", "rejected"}
  /\ signatures \subseteq Signer
  /\ executed \in BOOLEAN /\ rejected \in BOOLEAN /\ raced \in BOOLEAN
  /\ ballotPc \in [Ballot -> {"idle", "write", "done"}]
  /\ ballotRead \in [Ballot -> SUBSET Signer]
  /\ rollbacks \in 0..MaxRollbacks

MultisigInit ==
  /\ proposal = "none" /\ signatures = {} /\ executed = FALSE
  /\ rejected = FALSE /\ raced = FALSE /\ rollbacks = 0
  /\ ballotPc = [b \in Ballot |-> "idle"]
  /\ ballotRead = [b \in Ballot |-> {}]

createMultisigProposal ==
  /\ proposal = "none" /\ proposal' = "pending"
  /\ UNCHANGED <<signatures, executed, rejected, ballotPc, ballotRead, raced,
                 rollbacks>>

\* The transaction's read; a proposal that is not pending, or one the signer
\* has signed, ends it.
BallotRead(b) ==
  /\ ballotPc[b] = "idle" /\ proposal # "none"
  /\ IF proposal # "pending"
        \/ (b \notin Rejections /\ SignerOf[b] \in signatures)
     THEN ballotPc' = [ballotPc EXCEPT ![b] = "done"] /\ UNCHANGED ballotRead
     ELSE /\ ballotPc' = [ballotPc EXCEPT ![b] = "write"]
          /\ ballotRead' = [ballotRead EXCEPT ![b] = signatures]
  /\ raced' = (raced \/ \E c \in Ballot : ballotPc[c] = "write")
  /\ UNCHANGED <<proposal, signatures, executed, rejected, rollbacks>>

\* Mutant: the count is one too many.
ApprovalsOfOneMore(b) == Cardinality(ballotRead[b]) + 2

\* approvalCount: the signatures read, and this one.
approvalCount(b) == Cardinality(ballotRead[b]) + 1

\* The signature is inserted (unique per signer), and the proposal executed
\* if the count is enough, whatever its status is by now.
signMultisigProposal(b) ==
  /\ ballotPc[b] = "write" /\ b \notin Rejections
  /\ ballotPc' = [ballotPc EXCEPT ![b] = "done"]
  /\ IF SignerOf[b] \in signatures
     THEN UNCHANGED <<proposal, signatures, executed>>
     ELSE /\ signatures' = signatures \cup {SignerOf[b]}
          /\ IF approvalCount(b) >= Threshold
             THEN proposal' = "executed" /\ executed' = TRUE
             ELSE UNCHANGED <<proposal, executed>>
  /\ UNCHANGED <<rejected, ballotRead, raced, rollbacks>>

rejectMultisigProposal(b) ==
  /\ ballotPc[b] = "write" /\ b \in Rejections
  /\ ballotPc' = [ballotPc EXCEPT ![b] = "done"]
  /\ proposal' = "rejected" /\ rejected' = TRUE
  /\ UNCHANGED <<signatures, executed, ballotRead, raced, rollbacks>>

\* A statement of the transaction, or an audit write within it, fails.
BallotFails(b) ==
  /\ ballotPc[b] = "write" /\ rollbacks < MaxRollbacks
  /\ rollbacks' = rollbacks + 1
  /\ ballotPc' = [ballotPc EXCEPT ![b] = "idle"]
  /\ UNCHANGED <<proposal, signatures, executed, rejected, ballotRead, raced>>

MultisigNext ==
  \/ createMultisigProposal
  \/ \E b \in Ballot :
       \/ BallotRead(b) \/ signMultisigProposal(b)
       \/ rejectMultisigProposal(b) \/ BallotFails(b)

\* A proposal is executed only on the signatures of Threshold different
\* admins, although every request counts from a snapshot of its own.  Without
\* overlapping requests it is also executed as soon as it has them, and never
\* both executed and rejected.
ExecutedByThreshold ==
  /\ executed => Cardinality(signatures) >= Threshold
  /\ ~raced => /\ proposal = "pending" => Cardinality(signatures) < Threshold
               /\ ~(executed /\ rejected)
=============================================================================
