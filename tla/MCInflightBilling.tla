--------------------------- MODULE MCInflightBilling ---------------------------
(* Two requests of one user: the first submits two billing tasks, which may *)
(* carry one billing id, the second only reserves.                           *)
EXTENDS InflightBilling, TLC

CONSTANTS r1, r2, t1, t2, i1

MCOwnerOf == (t1 :> r1) @@ (t2 :> r1)
MCBillId == (t1 :> i1) @@ (t2 :> i1)
MCEstimate == (r1 :> 1) @@ (r2 :> 2)
MCCost == (t1 :> 1) @@ (t2 :> 2)
MCMandatory == {t2}
=============================================================================
