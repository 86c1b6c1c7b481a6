----------------------------- MODULE MCServices -----------------------------
(* Services on small instances: any three of seven operations on the         *)
(* positions of two holders, three admins, two evaluations, two exports, and *)
(* a partition of six events.                                                *)
EXTENDS Services, TLC

CONSTANTS h1, h2, b1, b2, b3, b4, b5, a1, a2, a3

MCOp == 1..7
MCKindOf == <<"sell", "buyback", "bought", "sold", "payment", "payment", "sell">>
MCHolderOf == <<h1, h1, h1, h2, h2, h2, h2>>
MCQtyOf == <<1, 1, 1, 2, 1, 1, 1>>
MCOrderOf == [o \in MCOp |-> "order"]
MCSignerOf == (b1 :> a1) @@ (b2 :> a2) @@ (b3 :> a3) @@ (b4 :> a1) @@ (b5 :> a2)
=============================================================================
