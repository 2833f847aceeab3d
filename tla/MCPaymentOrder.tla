--------------------------- MODULE MCPaymentOrder ---------------------------
(* Orders share no state, so one order of either kind shows every behaviour; *)
(* two workers are enough for a takeover while the first still runs.        *)
EXTENDS PaymentOrder, TLC

WorkerSymmetry == Permutations(Workers)
=============================================================================
