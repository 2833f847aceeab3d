---------------------------- MODULE PaymentLedger ----------------------------
(***************************************************************************)
(* What the payment service promises for each order, whatever the order of *)
(* webhooks, retries, sweeps and crashes: what was bought is handed over   *)
(* at most once, only for money that was received, and an order is closed  *)
(* only after that, for good.                                              *)
(***************************************************************************)
EXTENDS Naturals

CONSTANT Orders

VARIABLES phase,       \* how far the order has come
          deliveries   \* how often what it bought was handed over

ledgerVars == <<phase, deliveries>>

Phases == {"unpaid", "paid", "delivered", "closed"}

LedgerInit == /\ phase = [o \in Orders |-> "unpaid"]
              /\ deliveries = [o \in Orders |-> 0]

Advance(o, from, to) == /\ phase[o] = from
                        /\ phase' = [phase EXCEPT ![o] = to]

\* The provider receives the money.
ReceiveMoney(o) == Advance(o, "unpaid", "paid") /\ UNCHANGED deliveries

\* The balance is credited or the subscription extended.
Deliver(o) == /\ Advance(o, "paid", "delivered")
              /\ deliveries' = [deliveries EXCEPT ![o] = @ + 1]

\* The order is reported as completed.
Close(o) == Advance(o, "delivered", "closed") /\ UNCHANGED deliveries

LedgerNext == \E o \in Orders : ReceiveMoney(o) \/ Deliver(o) \/ Close(o)

LedgerSpec == LedgerInit /\ [][LedgerNext]_ledgerVars
=============================================================================
