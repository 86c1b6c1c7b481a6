------------------------ MODULE MCContractSubmission ------------------------
(* ContractSubmission for TLC: two calls race with the same envelope.      *)
EXTENDS ContractSubmission

CONSTANTS s1, s2, tx

MCSub  == {s1, s2}
MCTx   == {tx}
MCTxOf == [s \in MCSub |-> tx]
=============================================================================
