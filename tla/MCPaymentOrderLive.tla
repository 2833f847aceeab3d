------------------------- MODULE MCPaymentOrderLive -------------------------
(* Recharges only: both kinds share every step but those of their delivery. *)
EXTENDS PaymentOrderLive
=============================================================================
