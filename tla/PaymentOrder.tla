---------------------------- MODULE PaymentOrder ----------------------------
(***************************************************************************)
(* A payment order from its creation to the delivery of what it bought.    *)
(*                                                                         *)
(* The database row of an order, the redeem code that carries a recharge,  *)
(* and the order's audit log are shared.  Workers are the goroutines that  *)
(* act on them: webhook handlers, the expiry and reconcile sweep, user and *)
(* admin requests.  Every database statement or transaction is one step of *)
(* a worker, so the steps of several workers interleave as they do in the  *)
(* service.  payment_fulfillment.go, payment_order.go and                  *)
(* payment_order_lifecycle.go under src/backend/internal/service.          *)
(*                                                                         *)
(* Time.  The code compares updated_at with "now minus five minutes" in    *)
(* two places (the grace of an expired order, the staleness of a           *)
(* fulfilment lease) and with a remembered value in two others (the lease  *)
(* version).  stale[o] is the first comparison and holders[o] the second:  *)
(* the workers whose remembered version equals the row's updated_at.       *)
(* Every update of a row sets updated_at (ent UpdateDefault), so it clears *)
(* both.                                                                   *)
(***************************************************************************)
EXTENDS Naturals, FiniteSets

CONSTANTS Orders,      \* payment order ids
          Workers,     \* goroutines that serve payment requests
          OrderTypes,  \* the order types on sale: validateOrderInput refuses the others
          NoTask       \* the task of an idle worker

ASSUME OrderTypesAssumption == OrderTypes \subseteq {"balance", "subscription"}

VARIABLES
  status,    \* payment_orders.status
  kind,      \* payment_orders.order_type
  paidAt,    \* payment_orders.paid_at is set
  tradeNo,   \* payment_orders.payment_trade_no is the number of the payment
  due,       \* payment_orders.expires_at has passed
  stale,     \* five minutes have passed since payment_orders.updated_at
  holders,   \* workers whose lease version equals updated_at
  code,      \* the recharge code of the order
  credits,   \* how often the balance was credited or the subscription extended
  rebates,   \* how often the inviter's rebate was accrued (every buyer was invited)
  audit,     \* rows of payment_audit_logs that later steps read
  mails,     \* success notifications dispatched
  upstream,  \* the payment at the provider
  acked,     \* the provider got a success response to a notification
  pc,        \* next step of each worker
  task       \* what each worker works on

rowVars    == <<status, paidAt, tradeNo, stale, holders>>
effectVars == <<code, credits, rebates, audit, mails>>
vars == <<status, kind, paidAt, tradeNo, due, stale, holders, code, credits,
          rebates, audit, mails, upstream, acked, pc, task>>

-----------------------------------------------------------------------------
(* REFUND stands for every status that psIsRefundStatus accepts: fulfilment *)
(* treats them alike, and PaymentRefund models the moves between them.      *)
Status == {"NONE", "PENDING", "PAID", "RECHARGING", "COMPLETED", "EXPIRED",
           "CANCELLED", "FAILED", "REFUND"}

Delivered  == {"COMPLETED", "REFUND"}
Fulfilable == {"PAID", "FAILED", "RECHARGING"}

Reasons == {"create", "webhook", "cancel", "expire", "verify", "retry"}

Task == [order : Orders, why : Reasons, seen : BOOLEAN]

\* Steps taken while a worker holds (or believes it holds) a fulfilment lease,
\* and whose error makes ExecuteBalanceFulfillment or
\* ExecuteSubscriptionFulfillment call markFailed.
FulfilSteps == {"lookup", "createCode", "redeem", "assign", "grant", "rebate",
                "complete"}

Steps == FulfilSteps \cup
         {"idle", "invoke", "query", "closeUpstream", "cancel", "persist", "toPaid",
          "recheck", "lookupFailed", "fulfil", "lease", "reload", "notify", "fail"}

TypeOK ==
  /\ status \in [Orders -> Status]
  /\ kind \in [Orders -> OrderTypes]
  /\ paidAt \in [Orders -> BOOLEAN]
  /\ tradeNo \in [Orders -> BOOLEAN]
  /\ due \in [Orders -> BOOLEAN]
  /\ stale \in [Orders -> BOOLEAN]
  /\ holders \in [Orders -> SUBSET Workers]
  /\ code \in [Orders -> {"absent", "unused", "used"}]
  /\ credits \in [Orders -> Nat]
  /\ rebates \in [Orders -> Nat]
  /\ audit \in [Orders -> SUBSET {"ASSIGNED", "REBATE", "SUCCESS"}]
  /\ mails \in [Orders -> Nat]
  /\ upstream \in [Orders -> {"none", "open", "paid", "closed"}]
  /\ acked \in [Orders -> BOOLEAN]
  /\ pc \in [Workers -> Steps]
  /\ task \in [Workers -> Task \cup {NoTask}]
  /\ \A w \in Workers : pc[w] # "idle" => task[w] \in Task

Init ==
  /\ status = [o \in Orders |-> "NONE"]
  /\ kind \in [Orders -> OrderTypes]
  /\ paidAt = [o \in Orders |-> FALSE]
  /\ tradeNo = [o \in Orders |-> FALSE]
  /\ due = [o \in Orders |-> FALSE]
  /\ stale = [o \in Orders |-> FALSE]
  /\ holders = [o \in Orders |-> {}]
  /\ code = [o \in Orders |-> "absent"]
  /\ credits = [o \in Orders |-> 0]
  /\ rebates = [o \in Orders |-> 0]
  /\ audit = [o \in Orders |-> {}]
  /\ mails = [o \in Orders |-> 0]
  /\ upstream = [o \in Orders |-> "none"]
  /\ acked = [o \in Orders |-> FALSE]
  /\ pc = [w \in Workers |-> "idle"]
  /\ task = [w \in Workers |-> NoTask]

-----------------------------------------------------------------------------
(* Helpers. *)

\* An update of the row of o that leaves it in status s: updated_at moves.
Save(o, s) ==
  /\ status' = [status EXCEPT ![o] = s]
  /\ stale' = [stale EXCEPT ![o] = FALSE]
  /\ holders' = [holders EXCEPT ![o] = {}]

Go(w, step) == /\ pc' = [pc EXCEPT ![w] = step]
               /\ UNCHANGED task

\* Fault model: the handler returns but its step is not reset.
ReturnForgetsStep(w, ok) ==
  /\ task' = [task EXCEPT ![w] = NoTask]
  /\ UNCHANGED <<pc, acked>>

\* The handler returns; only a webhook that returns without an error is acknowledged.
Return(w, ok) ==
  /\ pc' = [pc EXCEPT ![w] = "idle"]
  /\ task' = [task EXCEPT ![w] = NoTask]
  /\ acked' = IF ok /\ task[w].why = "webhook"
              THEN [acked EXCEPT ![task[w].order] = TRUE]
              ELSE acked

\* An idle worker accepts a call; the row it reads first is remembered as far
\* as checkPaidWithOptions uses it later.
Start(w, o, why, step) ==
  /\ pc[w] = "idle"
  /\ pc' = [pc EXCEPT ![w] = step]
  /\ task' = [task EXCEPT ![w] = [order |-> o, why |-> why, seen |-> tradeNo[o]]]

At(w, step) == pc[w] = step

-----------------------------------------------------------------------------
(* Order creation. *)

\* createOrderInTx commits the row.
CreateOrder(w, o) ==
  /\ status[o] = "NONE"
  /\ Start(w, o, "create", "invoke")
  /\ Save(o, "PENDING")
  /\ UNCHANGED <<kind, paidAt, tradeNo, due, effectVars, upstream, acked>>

\* invokeProvider succeeds and stores the provider's answer in the row; the user
\* gets the link with it, so only now the payment is open.  Some providers return
\* a trade number here and some only with the payment.
InvokeProvider(w) ==
  LET o == task[w].order IN
  /\ At(w, "invoke")
  /\ Save(o, status[o])
  /\ \E known \in BOOLEAN : tradeNo' = [tradeNo EXCEPT ![o] = known]
  /\ upstream' = [upstream EXCEPT ![o] = "open"]
  /\ Return(w, TRUE)
  /\ UNCHANGED <<kind, paidAt, due, effectVars>>

\* invokeProvider fails: CreateOrder sets FAILED whatever the status is by now.
\* The user never gets a payment link.
InvokeProviderFails(w) ==
  LET o == task[w].order IN
  /\ At(w, "invoke")
  /\ Save(o, "FAILED")
  /\ Return(w, FALSE)
  /\ UNCHANGED <<kind, paidAt, tradeNo, due, effectVars, upstream>>

-----------------------------------------------------------------------------
(* The calls that start work on an existing order. *)

\* A verified payment notification: HandlePaymentNotification and confirmPayment.
\* The provider may send it late, never, or several times.
Webhook(w, o) ==
  /\ upstream[o] = "paid"
  /\ Start(w, o, "webhook", "toPaid")
  /\ UNCHANGED <<rowVars, kind, due, effectVars, upstream, acked>>

\* CancelOrder and AdminCancelOrder.
Cancel(w, o) ==
  /\ status[o] = "PENDING"
  /\ Start(w, o, "cancel", "query")
  /\ UNCHANGED <<rowVars, kind, due, effectVars, upstream, acked>>

\* One order picked by ExpireTimedOutOrders.
Expire(w, o) ==
  /\ status[o] = "PENDING"
  /\ due[o]
  /\ Start(w, o, "expire", "query")
  /\ UNCHANGED <<rowVars, kind, due, effectVars, upstream, acked>>

\* VerifyOrderByOutTradeNo, called by the user who waits for the payment.
Verify(w, o) ==
  /\ status[o] \in {"PENDING", "EXPIRED"}
  /\ Start(w, o, "verify", "query")
  /\ UNCHANGED <<rowVars, kind, due, effectVars, upstream, acked>>

\* One order picked by ReconcilePendingPaymentOrders.
Reconcile(w, o) ==
  /\ status[o] = "PENDING"
  /\ ~due[o]
  /\ Start(w, o, "verify", "query")
  /\ UNCHANGED <<rowVars, kind, due, effectVars, upstream, acked>>

\* Fault model: any FAILED order may be retried, paid or not.
RetryUnpaid(w, o) ==
  /\ status[o] \in Fulfilable
  /\ Start(w, o, "retry", "fulfil")
  /\ UNCHANGED <<rowVars, kind, due, effectVars, upstream, acked>>

\* RetryFulfillment, called by an administrator.
RetryFulfillment(w, o) ==
  /\ paidAt[o]
  /\ status[o] \in Fulfilable
  /\ Start(w, o, "retry", "fulfil")
  /\ UNCHANGED <<rowVars, kind, due, effectVars, upstream, acked>>

-----------------------------------------------------------------------------
(* checkPaidWithOptions and cancelCore. *)

\* The provider is asked and reports the payment.  A trade number that the row
\* did not have when it was read is written to the row first.
QueryPaid(w) ==
  LET o == task[w].order IN
  /\ At(w, "query")
  /\ upstream[o] = "paid"
  /\ Go(w, IF task[w].seen THEN "toPaid" ELSE "persist")
  /\ UNCHANGED <<rowVars, kind, due, effectVars, upstream, acked>>

\* An error of the update is only logged.
PersistTradeNo(w) ==
  LET o == task[w].order IN
  /\ At(w, "persist")
  /\ \/ /\ Save(o, status[o])
        /\ tradeNo' = [tradeNo EXCEPT ![o] = TRUE]
     \/ UNCHANGED <<status, stale, holders, tradeNo>>
  /\ Go(w, "toPaid")
  /\ UNCHANGED <<kind, paidAt, due, effectVars, upstream, acked>>

\* The provider reports no payment, and the caller wants the order cancelled.
QueryUnpaid(w) ==
  /\ At(w, "query")
  /\ upstream[task[w].order] # "paid"
  /\ task[w].why \in {"cancel", "expire"}
  /\ Go(w, "closeUpstream")
  /\ UNCHANGED <<rowVars, kind, due, effectVars, upstream, acked>>

\* The query fails, or it reports no payment and the caller only reconciles.
QueryGivesNothing(w) ==
  /\ At(w, "query")
  /\ \/ /\ task[w].why \in {"cancel", "expire"}
        /\ Go(w, "cancel")
        /\ UNCHANGED acked
     \/ /\ task[w].why = "verify"
        /\ Return(w, TRUE)
  /\ UNCHANGED <<rowVars, kind, due, effectVars, upstream>>

\* CancelPayment at the provider; it may fail, and cannot undo a payment.
CloseUpstream(w) ==
  LET o == task[w].order IN
  /\ At(w, "closeUpstream")
  /\ \/ UNCHANGED upstream
     \/ /\ upstream[o] = "open"
        /\ upstream' = [upstream EXCEPT ![o] = "closed"]
  /\ Go(w, "cancel")
  /\ UNCHANGED <<rowVars, kind, due, effectVars, acked>>

\* Fault model: only cancellations change the row.
CancelCoreNeverExpires(w) ==
  /\ At(w, "cancel")
  /\ \/ /\ status[task[w].order] = "PENDING" /\ task[w].why = "cancel"
        /\ Save(task[w].order, "CANCELLED")
     \/ /\ ~(status[task[w].order] = "PENDING" /\ task[w].why = "cancel")
        /\ UNCHANGED <<status, stale, holders>>
  /\ Return(w, TRUE)
  /\ UNCHANGED <<kind, paidAt, tradeNo, due, effectVars, upstream>>

\* cancelCore's guarded update to CANCELLED or EXPIRED.
CancelCore(w) ==
  LET o == task[w].order IN
  /\ At(w, "cancel")
  /\ \/ /\ status[o] = "PENDING"
        /\ Save(o, IF task[w].why = "expire" THEN "EXPIRED" ELSE "CANCELLED")
     \/ /\ status[o] # "PENDING"
        /\ UNCHANGED <<status, stale, holders>>
  /\ Return(w, TRUE)
  /\ UNCHANGED <<kind, paidAt, tradeNo, due, effectVars, upstream>>

-----------------------------------------------------------------------------
(* From the notification to the fulfilment lease. *)

\* The statuses from which toPaid's update accepts a payment.
Payable(o) == \/ status[o] \in {"PENDING", "CANCELLED"}
              \/ status[o] = "EXPIRED" /\ ~stale[o]

ToPaid(w) ==
  LET o == task[w].order IN
  /\ At(w, "toPaid")
  /\ \/ /\ Payable(o)
        /\ Save(o, "PAID")
        /\ paidAt' = [paidAt EXCEPT ![o] = TRUE]
        /\ tradeNo' = [tradeNo EXCEPT ![o] = TRUE]
        /\ Go(w, "fulfil")
     \/ /\ ~Payable(o)
        /\ Go(w, "recheck")
        /\ UNCHANGED rowVars
  /\ UNCHANGED <<kind, due, effectVars, upstream, acked>>

\* alreadyProcessed reads the row again.
AlreadyProcessed(w) ==
  LET o == task[w].order IN
  /\ At(w, "recheck")
  /\ \/ /\ status[o] \in Fulfilable
        /\ Go(w, "fulfil")
        /\ UNCHANGED acked
     \/ /\ status[o] \notin Fulfilable
        /\ Return(w, TRUE)
  /\ UNCHANGED <<rowVars, kind, due, effectVars, upstream>>

\* After a failed lookup nothing is done, and no error is reported.
IgnoreFailedLookup(w) ==
  /\ At(w, "lookupFailed")
  /\ Return(w, TRUE)
  /\ UNCHANGED <<rowVars, kind, due, effectVars, upstream>>

\* The status checks of ExecuteBalanceFulfillment and ExecuteSubscriptionFulfillment.
ExecuteFulfillment(w) ==
  LET o == task[w].order IN
  /\ At(w, "fulfil")
  /\ \/ /\ status[o] \in Fulfilable
        /\ Go(w, "lease")
        /\ UNCHANGED acked
     \/ /\ status[o] \notin Fulfilable
        /\ Return(w, status[o] = "COMPLETED")
  /\ UNCHANGED <<rowVars, kind, due, effectVars, upstream>>

\* Fault model: a lease never goes stale.
LeasableFresh(o) == status[o] \in {"PAID", "FAILED"}

\* The guard of the update in acquirePaymentFulfillmentLease.
Leasable(o) == \/ status[o] \in {"PAID", "FAILED"}
               \/ status[o] = "RECHARGING" /\ stale[o]

\* Fault model: a running fulfilment is reported as success instead of a conflict.
AcquireLeaseHidesConflict(w) ==
  LET o == task[w].order IN
  /\ At(w, "lease")
  /\ \/ Leasable(o) /\ Save(o, "RECHARGING") /\ Go(w, "reload") /\ UNCHANGED acked
     \/ ~Leasable(o) /\ Return(w, TRUE) /\ UNCHANGED <<status, stale, holders>>
  /\ UNCHANGED <<kind, paidAt, tradeNo, due, effectVars, upstream>>

AcquireLease(w) ==
  LET o == task[w].order IN
  /\ At(w, "lease")
  /\ \/ /\ Leasable(o)
        /\ Save(o, "RECHARGING")
        /\ Go(w, "reload")
        /\ UNCHANGED acked
     \/ /\ ~Leasable(o)
        /\ Return(w, status[o] = "COMPLETED")
        /\ UNCHANGED <<status, stale, holders>>
  /\ UNCHANGED <<kind, paidAt, tradeNo, due, effectVars, upstream>>

\* The lease version is the updated_at the row has when it is read back.
ReloadLease(w) ==
  LET o == task[w].order IN
  /\ At(w, "reload")
  /\ \/ /\ status[o] = "RECHARGING"
        /\ holders' = [holders EXCEPT ![o] = @ \cup {w}]
        /\ Go(w, IF kind[o] = "balance" THEN "lookup" ELSE "assign")
        /\ UNCHANGED acked
     \/ /\ status[o] # "RECHARGING"
        /\ Return(w, FALSE)
        /\ UNCHANGED holders
  /\ UNCHANGED <<status, paidAt, tradeNo, stale, kind, due, effectVars, upstream>>

-----------------------------------------------------------------------------
(* doBalance: the recharge is carried by a redeem code. *)

\* Fault model: a code that exists is taken for a code that was redeemed.
LookupCodeSkipsUnused(w) ==
  /\ At(w, "lookup")
  /\ Go(w, IF code[task[w].order] = "absent" THEN "createCode" ELSE "rebate")
  /\ UNCHANGED <<rowVars, kind, due, effectVars, upstream, acked>>

\* GetByCode and resolveRedeemAction.
LookupCode(w) ==
  LET o == task[w].order IN
  /\ At(w, "lookup")
  /\ Go(w, CASE code[o] = "absent" -> "createCode"
             [] code[o] = "unused" -> "redeem"
             [] code[o] = "used"   -> "rebate")
  /\ UNCHANGED <<rowVars, kind, due, effectVars, upstream, acked>>

\* CreateCode; the code is unique, so a second creation fails.
CreateCode(w) ==
  LET o == task[w].order IN
  /\ At(w, "createCode")
  /\ \/ /\ code[o] = "absent"
        /\ code' = [code EXCEPT ![o] = "unused"]
        /\ Go(w, "redeem")
     \/ /\ code[o] # "absent"
        /\ Go(w, "fail")
        /\ UNCHANGED code
  /\ UNCHANGED <<rowVars, kind, due, credits, rebates, audit, mails, upstream, acked>>

\* Fault model: the code is marked used without looking at its status.
RedeemUnguarded(w) ==
  LET o == task[w].order IN
  /\ At(w, "redeem")
  /\ code' = [code EXCEPT ![o] = "used"]
  /\ credits' = [credits EXCEPT ![o] = @ + 1]
  /\ \E next \in {"rebate", "fail"} : Go(w, next)
  /\ UNCHANGED <<rowVars, kind, due, rebates, audit, mails, upstream, acked>>

\* redeem: one transaction marks the code used and credits the balance.  The
\* call may still report an error after the commit.
Redeem(w) ==
  LET o == task[w].order IN
  /\ At(w, "redeem")
  /\ \/ /\ code[o] = "unused"
        /\ code' = [code EXCEPT ![o] = "used"]
        /\ credits' = [credits EXCEPT ![o] = @ + 1]
        /\ \E next \in {"rebate", "fail"} : Go(w, next)
     \/ /\ code[o] # "unused"
        /\ Go(w, "fail")
        /\ UNCHANGED <<code, credits>>
  /\ UNCHANGED <<rowVars, kind, due, rebates, audit, mails, upstream, acked>>

-----------------------------------------------------------------------------
(* ensurePaymentSubscriptionAssigned. *)

\* The audit is read inside the transaction, before anything is assigned.
CheckAssigned(w) ==
  LET o == task[w].order IN
  /\ At(w, "assign")
  /\ Go(w, IF audit[o] \cap {"ASSIGNED", "SUCCESS"} # {} THEN "rebate" ELSE "grant")
  /\ UNCHANGED <<rowVars, kind, due, effectVars, upstream, acked>>

\* The assignment and its audit row commit together; when another transaction
\* has inserted the audit row by then, the unique index rolls this one back and
\* the assignment counts as done.  The cache invalidation that follows may fail.
GrantSubscription(w) ==
  LET o == task[w].order IN
  /\ At(w, "grant")
  /\ \/ /\ "ASSIGNED" \notin audit[o]
        /\ audit' = [audit EXCEPT ![o] = @ \cup {"ASSIGNED"}]
        /\ credits' = [credits EXCEPT ![o] = @ + 1]
     \/ /\ "ASSIGNED" \in audit[o]
        /\ UNCHANGED <<audit, credits>>
  /\ \E next \in {"rebate", "fail"} : Go(w, next)
  /\ UNCHANGED <<rowVars, kind, due, code, rebates, mails, upstream, acked>>

-----------------------------------------------------------------------------
(* The steps both kinds share. *)

\* applyAffiliateRebateForOrder: the audit row claims the rebate in the
\* transaction that accrues it.
ApplyRebate(w) ==
  LET o == task[w].order IN
  /\ At(w, "rebate")
  /\ \/ /\ "REBATE" \notin audit[o]
        /\ audit' = [audit EXCEPT ![o] = @ \cup {"REBATE"}]
        /\ rebates' = [rebates EXCEPT ![o] = @ + 1]
     \/ /\ "REBATE" \in audit[o]
        /\ UNCHANGED <<audit, rebates>>
  /\ Go(w, "complete")
  /\ UNCHANGED <<rowVars, kind, due, code, credits, mails, upstream, acked>>

\* The guard of markCompleted and markFailed: RECHARGING, and updated_at is
\* still the version of this worker's lease.
OwnsLease(w, o) == status[o] = "RECHARGING" /\ w \in holders[o]

\* markCompleted's update; when it changes no row the order is read again.
MarkCompleted(w) ==
  LET o == task[w].order IN
  /\ At(w, "complete")
  /\ \/ /\ OwnsLease(w, o)
        /\ Save(o, "COMPLETED")
        /\ Go(w, "notify")
        /\ UNCHANGED acked
     \/ /\ ~OwnsLease(w, o)
        /\ UNCHANGED <<status, stale, holders>>
        /\ \/ /\ status[o] = "COMPLETED"
              /\ Return(w, TRUE)
           \/ /\ status[o] # "COMPLETED"
              /\ Go(w, "fail")
              /\ UNCHANGED acked
  /\ UNCHANGED <<kind, paidAt, tradeNo, due, effectVars, upstream>>

\* The rest of markCompleted: the success audit, whose error is only logged, and
\* the notification.
NotifySuccess(w) ==
  LET o == task[w].order IN
  /\ At(w, "notify")
  /\ \/ /\ "SUCCESS" \notin audit[o]
        /\ \/ audit' = [audit EXCEPT ![o] = @ \cup {"SUCCESS"}]
           \/ UNCHANGED audit
        /\ mails' = [mails EXCEPT ![o] = @ + 1]
     \/ /\ "SUCCESS" \in audit[o]
        /\ UNCHANGED <<audit, mails>>
  /\ Return(w, TRUE)
  /\ UNCHANGED <<rowVars, kind, due, code, credits, rebates, upstream>>

\* Fault model: the order is marked FAILED whoever owns it by now.
MarkFailedUnguarded(w) ==
  /\ At(w, "fail")
  /\ Save(task[w].order, "FAILED")
  /\ Return(w, FALSE)
  /\ UNCHANGED <<kind, paidAt, tradeNo, due, effectVars, upstream>>

MarkFailed(w) ==
  LET o == task[w].order IN
  /\ At(w, "fail")
  /\ \/ /\ OwnsLease(w, o)
        /\ Save(o, "FAILED")
     \/ /\ ~OwnsLease(w, o)
        /\ UNCHANGED <<status, stale, holders>>
  /\ Return(w, FALSE)
  /\ UNCHANGED <<kind, paidAt, tradeNo, due, effectVars, upstream>>

-----------------------------------------------------------------------------
(* Faults. *)

\* A statement of the fulfilment fails and its transaction is rolled back.
FulfilmentError(w) ==
  /\ pc[w] \in FulfilSteps
  /\ Go(w, "fail")
  /\ UNCHANGED <<rowVars, kind, due, effectVars, upstream, acked>>

\* The lookup of the provider instance in handleNotify, or of the order in
\* confirmPayment or alreadyProcessed, fails.
LookupError(w) ==
  /\ pc[w] \in {"toPaid", "recheck"}
  /\ Go(w, "lookupFailed")
  /\ UNCHANGED <<rowVars, kind, due, effectVars, upstream, acked>>

\* The process stops, or a statement outside the fulfilment fails: the handler
\* ends where it stands and nothing tells the other workers.
Abort(w) ==
  /\ ~At(w, "idle")
  /\ Return(w, FALSE)
  /\ UNCHANGED <<rowVars, kind, due, effectVars, upstream>>

-----------------------------------------------------------------------------
(* What happens outside the service. *)

\* The user pays, at any time the provider still accepts it.
Pay(o) ==
  /\ upstream[o] = "open"
  /\ upstream' = [upstream EXCEPT ![o] = "paid"]
  /\ UNCHANGED <<rowVars, kind, due, effectVars, acked, pc, task>>

\* Five minutes pass since updated_at.  Only the two statuses whose age the code
\* compares are aged.
Age(o) ==
  /\ status[o] \in {"RECHARGING", "EXPIRED"}
  /\ ~stale[o]
  /\ stale' = [stale EXCEPT ![o] = TRUE]
  /\ UNCHANGED <<status, kind, paidAt, tradeNo, due, holders, effectVars,
                 upstream, acked, pc, task>>

\* expires_at passes.
ReachDeadline(o) ==
  /\ status[o] = "PENDING"
  /\ ~due[o]
  /\ due' = [due EXCEPT ![o] = TRUE]
  /\ UNCHANGED <<rowVars, kind, effectVars, upstream, acked, pc, task>>

\* What PaymentRefund does to the row: a completed order enters the refund
\* statuses, and restoreStatus may bring it back.
RefundUpdate(o) ==
  /\ \/ status[o] = "COMPLETED" /\ Save(o, "REFUND")
     \/ status[o] = "REFUND" /\ \E s \in Delivered : Save(o, s)
  /\ UNCHANGED <<kind, paidAt, tradeNo, due, effectVars, upstream, acked, pc, task>>

-----------------------------------------------------------------------------
Handle(w) ==
  \/ InvokeProvider(w) \/ InvokeProviderFails(w)
  \/ QueryPaid(w) \/ PersistTradeNo(w) \/ QueryUnpaid(w) \/ QueryGivesNothing(w)
  \/ CloseUpstream(w) \/ CancelCore(w)
  \/ ToPaid(w) \/ AlreadyProcessed(w) \/ IgnoreFailedLookup(w) \/ ExecuteFulfillment(w)
  \/ AcquireLease(w) \/ ReloadLease(w)
  \/ LookupCode(w) \/ CreateCode(w) \/ Redeem(w)
  \/ CheckAssigned(w) \/ GrantSubscription(w)
  \/ ApplyRebate(w) \/ MarkCompleted(w) \/ NotifySuccess(w) \/ MarkFailed(w)

Call(w, o) ==
  \/ CreateOrder(w, o) \/ Webhook(w, o) \/ Cancel(w, o) \/ Expire(w, o)
  \/ Verify(w, o) \/ Reconcile(w, o) \/ RetryFulfillment(w, o)

Fault(w) == FulfilmentError(w) \/ LookupError(w) \/ Abort(w)

Outside(o) == Pay(o) \/ Age(o) \/ ReachDeadline(o) \/ RefundUpdate(o)

Next ==
  \/ \E w \in Workers : Handle(w) \/ Fault(w) \/ \E o \in Orders : Call(w, o)
  \/ \E o \in Orders : Outside(o)

Spec == Init /\ [][Next]_vars

-----------------------------------------------------------------------------
(* Safety. *)

\* However many webhooks, sweeps and retries run for an order, and wherever they
\* stop, its credit (or subscription days) and the inviter's rebate are booked at
\* most once: the redeem code's status and the unique audit rows decide, not the
\* lease, which a slow worker may have lost (doBalance, ensurePaymentSubscriptionAssigned,
\* applyAffiliateRebateForOrder).
DeliveredAtMostOnce == \A o \in Orders : credits[o] <= 1 /\ rebates[o] <= 1

\* An order that is reported COMPLETED, or that a refund may be taken from, has
\* been credited and its rebate booked, also when the worker that completed it
\* is not the one that credited it (markCompleted).
CompletedMeansDelivered ==
  \A o \in Orders : status[o] \in Delivered => credits[o] = 1 /\ rebates[o] = 1

\* Nothing is credited unless the provider received the money and the row says
\* so: an order that failed at creation is FAILED too, and must not be fulfilled
\* by a retry (RetryFulfillment, toPaid).
DeliveredOnlyIfPaid ==
  \A o \in Orders : credits[o] > 0 => upstream[o] = "paid" /\ paidAt[o]

\* The user is told of a success at most once per delivery, and never before it
\* (markCompleted).
NotifiedAfterDelivery == \A o \in Orders : mails[o] <= credits[o]

\* A notification is acknowledged, which ends its redelivery, only when the order
\* is delivered, when it had expired and is refused, or when a lookup failed: a
\* conflict with a running fulfilment must be reported as an error
\* (alreadyProcessed, acquirePaymentFulfillmentLease, handleNotify).
AckedOnlyWhenSettled ==
  [][\A o \in Orders : ~acked[o] /\ acked'[o] =>
       \/ status[o] \in Delivered \cup {"EXPIRED"}
       \/ \E w \in Workers : At(w, "lookupFailed") /\ task[w].order = o]_vars

\* What the tests of the webhook handler say of a failure of the database: it is not
\* swallowed as an acknowledgement (confirmPayment, alreadyProcessed, handleNotify).
FailureNotAcked ==
  [][\A o \in Orders : ~acked[o] /\ acked'[o] =>
       status[o] \in Delivered \cup {"EXPIRED"}]_vars

\* The ledger as the service's state shows it.
LedgerPhase ==
  [o \in Orders |-> IF status[o] \in Delivered THEN "closed"
                    ELSE IF credits[o] > 0     THEN "delivered"
                    ELSE IF upstream[o] = "paid" THEN "paid"
                    ELSE "unpaid"]

Ledger == INSTANCE PaymentLedger WITH phase <- LedgerPhase, deliveries <- credits

\* The service implements the ledger: delivery once and after the money, COMPLETED
\* once delivered and never taken back by a late worker (markFailed, markCompleted).
ImplementsLedger == Ledger!LedgerSpec

\* What comments and audit texts say of an order whose grace has ended: its payment
\* is refused (toPaid, alreadyProcessed), and only "recently expired" orders are
\* verified (VerifyOrderByOutTradeNo).
LatePaymentRefused ==
  [][\A o \in Orders : status[o] = "EXPIRED" /\ stale[o] /\ upstream[o] = "paid"
                         => status'[o] = "EXPIRED" /\ stale'[o]]_vars

=============================================================================
