------------------------------ MODULE Services ------------------------------
(***************************************************************************)
(* Five services of the server that share no table and call none of one    *)
(* another's operations, put together for model checking.  Their product   *)
(* would only multiply unrelated interleavings, so a behaviour is one of   *)
(* the service `focus' names while the others stay in their initial states.*)
(***************************************************************************)
EXTENDS KeyPositions, Multisig, AutoInvest, ExportJobs, MerkleLog

VARIABLE focus
vars == <<focus, positionVars, multisigVars, investVars, jobVars, merkleVars>>

Service == {"positions", "multisig", "invest", "exports", "merkle"}

TypeOK ==
  /\ focus \in Service
  /\ PositionsTypeOK /\ MultisigTypeOK /\ AutoInvestTypeOK
  /\ ExportJobsTypeOK /\ MerkleTypeOK

Init ==
  /\ focus \in Service
  /\ PositionsInit /\ MultisigInit /\ AutoInvestInit /\ ExportJobsInit
  /\ MerkleInit

Positions ==
  /\ focus = "positions" /\ PositionsNext
  /\ UNCHANGED <<focus, multisigVars, investVars, jobVars, merkleVars>>

AdminMultisig ==
  /\ focus = "multisig" /\ MultisigNext
  /\ UNCHANGED <<focus, positionVars, investVars, jobVars, merkleVars>>

Invest ==
  /\ focus = "invest" /\ AutoInvestNext
  /\ UNCHANGED <<focus, positionVars, multisigVars, jobVars, merkleVars>>

Exports ==
  /\ focus = "exports" /\ ExportJobsNext
  /\ UNCHANGED <<focus, positionVars, multisigVars, investVars, merkleVars>>

Merkle ==
  /\ focus = "merkle" /\ MerkleNext
  /\ UNCHANGED <<focus, positionVars, multisigVars, investVars, jobVars>>

Next == Positions \/ AdminMultisig \/ Invest \/ Exports \/ Merkle

\* The promise chain of the exports runs as long as the process does.
Fairness ==
  WF_vars(/\ focus = "exports" /\ ExportWork
          /\ UNCHANGED <<focus, positionVars, multisigVars, investVars, merkleVars>>)

Spec == Init /\ [][Next]_vars /\ Fairness
=============================================================================
