---------------------------- MODULE MCGovernance ----------------------------
(* Governance on a small instance: w1 votes by its snapshot weight and on    *)
(* chain, w2 as a key holder.                                                *)
EXTENDS Governance, TLC
CONSTANTS w1, w2, g1, h2, i1

MCStake    == (w1 :> 2) @@ (w2 :> 1)
MCVoterOf  == (g1 :> w1) @@ (h2 :> w2) @@ (i1 :> w1)
MCOptionOf == (g1 :> 1) @@ (h2 :> 2) @@ (i1 :> 2)
=============================================================================
