-------------------------- MODULE PaymentOrderLive --------------------------
(***************************************************************************)
(* What must eventually happen to a payment order once faults end.         *)
(*                                                                         *)
(* Until then everything of PaymentOrder may happen but refunds, which     *)
(* start only after the delivery, and failed lookups, which end the        *)
(* redelivery that the first property relies on (FailureNotAcked).  From   *)
(* then on no process stops, no statement fails, and no worker is so slow  *)
(* that five minutes pass while it works under a lease.                    *)
(***************************************************************************)
EXTENDS PaymentOrder

VARIABLE calm  \* faults have ended

liveVars == <<vars, calm>>

\* Five minutes pass, but not for a worker that is fulfilling.
CalmAge(o) == Age(o) /\ \A w \in Workers : pc[w] \notin FulfilSteps \cup {"reload", "fail"}

LiveNext ==
  \/ /\ \/ \E w \in Workers : Handle(w) \/ \E o \in Orders : Call(w, o)
        \/ \E o \in Orders : Pay(o) \/ ReachDeadline(o) \/ CalmAge(o)
        \/ /\ ~calm
           /\ (\E w \in Workers : FulfilmentError(w) \/ Abort(w)) \/ (\E o \in Orders : Age(o))
     /\ UNCHANGED calm
  \/ ~calm /\ calm' = TRUE /\ UNCHANGED vars

\* Goroutines run, the clock advances, the sweep comes round every minute, and a
\* provider redelivers a notification until it is acknowledged.  The last two
\* compete with other calls for a worker, which a server of unbounded goroutines
\* never lacks: hence strong fairness.
Fairness ==
  /\ \A w \in Workers : WF_vars(Handle(w))
  /\ \A o \in Orders : /\ WF_vars(CalmAge(o))
                       /\ WF_vars(ReachDeadline(o))
                       /\ SF_vars(\E w \in Workers : Expire(w, o))
                       /\ SF_vars(\E w \in Workers : ~acked[o] /\ Webhook(w, o))

LiveSpec == Init /\ calm = FALSE /\ [][LiveNext]_liveVars /\ Fairness

-----------------------------------------------------------------------------
(* Liveness. *)

\* When faults have ended, an order whose payment was recorded is delivered,
\* although the worker that recorded it may have died holding the lease (lease
\* takeover in acquirePaymentFulfillmentLease).  An order whose notification was
\* acknowledged while it was EXPIRED, and that a verification revives afterwards, has
\* no redelivery to rely on.
PaidSettles ==
  \A o \in Orders : calm /\ paidAt[o] /\ ~acked[o] ~> status[o] \in Delivered

\* When faults have ended, an order does not stay PENDING: the expiry sweep finds
\* it paid or expires it (ExpireTimedOutOrders, cancelCore).
PendingResolves ==
  \A o \in Orders : calm /\ status[o] = "PENDING" ~> status[o] # "PENDING"
=============================================================================
