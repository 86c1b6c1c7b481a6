---------------------------- MODULE MCReorgGuard ----------------------------
(* ReorgGuard for TLC: two owners trade one creator's key, once each; a    *)
(* third trade, of the first owner, misses a required field.               *)
EXTENDS ReorgGuard, TLC

CONSTANTS t1, t2, t3, alice, bob, key

MCTx         == {t1, t2, t3}
MCOwnerOf    == (t1 :> alice) @@ (t2 :> bob) @@ (t3 :> alice)
MCCreatorOf  == (t1 :> key) @@ (t2 :> key) @@ (t3 :> key)
MCIncomplete == {t3}
MCMayInclude == (0 :> {t1, t2}) @@ (1 :> {t1, t3}) @@ (2 :> {t2, t3})
=============================================================================
