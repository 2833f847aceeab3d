--------------------------- MODULE MCPaymentRefund ---------------------------
(* The amount is two units, so that the balance can cover it in part, and the *)
(* largest balance covers it twice, so that a second deduction shows.         *)
EXTENDS PaymentRefund, TLC

AdminSymmetry == Permutations(Admins)
=============================================================================
