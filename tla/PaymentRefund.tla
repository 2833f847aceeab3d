---------------------------- MODULE PaymentRefund ----------------------------
(***************************************************************************)
(* The refund of one completed balance order: administrators prepare and   *)
(* execute refunds, poll pending ones and finalize them, while the user    *)
(* spends the balance and the provider settles in its own time.            *)
(* payment_refund.go under src/backend/internal/service.                   *)
(*                                                                         *)
(* A refund takes back the credited balance first, then asks the provider, *)
(* and gives the balance back when the provider fails or is not done yet.  *)
(* Every database statement or transaction, and every provider call, is    *)
(* one step of a worker.  The refund is of the whole amount.  How it       *)
(* reaches the payer is fixed when the order is paid: over a provider that *)
(* finds a repeated refund by its order and amount and can be asked for    *)
(* it, over one that does neither, or, without a trade number, not at all. *)
(* An overdrawn balance counts as 0: DeductAvailableBalance takes nothing  *)
(* from either.                                                            *)
(***************************************************************************)
EXTENDS Integers

CONSTANTS Admins,      \* workers that serve administrators' refund requests
          Amount,      \* what the order credited, and what is refunded
          MaxBalance,  \* bound: largest balance the user starts with
          NoPlan       \* the plan of an idle worker

ASSUME AmountAssumption == Amount \in Nat \ {0} /\ MaxBalance \in Nat

VARIABLES
  status,         \* payment_orders.status
  balance,        \* users.balance
  taken,          \* balance taken for this refund and not given back
  lost,           \* history: of it, what deductions took whose answers were lost
  audit,          \* rows of payment_audit_logs that later steps read
  rollbackNoted,  \* deductionRollbackOK in the REFUND_PENDING row
  channel,        \* how the payer is refunded: "none", "keyed" or "unkeyed"
  gateway,        \* the latest refund at the provider
  paidOut,        \* history: the provider paid a refund of this order
  mishaps,        \* history: a rollback failed; the provider declared the refund failed
  pc,             \* next step of each worker
  plan            \* the RefundPlan each worker executes

rowVars     == <<status, audit, rollbackNoted>>
moneyVars   == <<balance, taken, lost>>
gatewayVars == <<channel, gateway, paidOut, mishaps>>
workVars    == <<pc, plan>>
vars == <<status, balance, taken, lost, audit, rollbackNoted, channel, gateway, paidOut,
          mishaps, pc, plan>>

Refundable == {"COMPLETED", "REFUND_REQUESTED", "REFUND_PENDING", "REFUND_FAILED"}
Status == Refundable \cup {"REFUNDING", "REFUNDED"}

\* seen: the status PrepareRefund read; take: BalanceToDeduct; verdict: what the
\* provider answered; undone: RollbackRefund succeeded.
Plan == [seen : Refundable, take : 0..Amount, verdict : {"none", "failed", "pending"},
         undone : BOOLEAN]

Steps == {"idle", "claim", "deduct", "gateway", "rollback", "rollbackAudit", "restore",
          "failed", "pending", "pendingAudit", "refunded", "refundedAudit",
          "query", "finalize", "finalizeFailed"}

TypeOK ==
  /\ status \in Status
  /\ balance \in Nat
  /\ taken \in Int
  /\ lost \in Nat
  /\ audit \subseteq {"REFUND_ROLLBACK_FAILED", "REFUND_PENDING", "REFUND_SUCCESS"}
  /\ rollbackNoted \in BOOLEAN
  /\ channel \in {"none", "keyed", "unkeyed"}
  /\ gateway \in {"none", "pending", "paid", "failed"}
  /\ paidOut \in BOOLEAN
  /\ mishaps \subseteq {"rollback", "gateway"}
  /\ pc \in [Admins -> Steps]
  /\ plan \in [Admins -> Plan \cup {NoPlan}]
  /\ \A w \in Admins : pc[w] # "idle" => plan[w] \in Plan

Init ==
  /\ status = "COMPLETED"
  /\ balance \in 0..MaxBalance
  /\ taken = 0
  /\ lost = 0
  /\ audit = {}
  /\ rollbackNoted = TRUE
  /\ channel \in {"none", "keyed", "unkeyed"}
  /\ gateway = "none"
  /\ paidOut = FALSE
  /\ mishaps = {}
  /\ pc = [w \in Admins |-> "idle"]
  /\ plan = [w \in Admins |-> NoPlan]

-----------------------------------------------------------------------------
Lesser(a, b) == IF a < b THEN a ELSE b

At(w, step) == pc[w] = step

Go(w, step) == pc' = [pc EXCEPT ![w] = step] /\ UNCHANGED plan

GoWith(w, step, p) == /\ pc' = [pc EXCEPT ![w] = step]
                      /\ plan' = [plan EXCEPT ![w] = p]

Return(w) == GoWith(w, "idle", NoPlan)

\* writeAuditLog: payment_audit_logs is unique on (order_id, action), so a second
\* row of an action is refused; that, and any other error, is only logged.
Write(action) == audit' \in {audit, audit \cup {action}}

\* Fault model: DeductBalance is used, which may overdraw the account.
DeductOverdraws(n) == balance' = balance - n /\ taken' = taken + n

\* DeductAvailableBalance: at most n, and never more than is there.
Deduct(n) == /\ balance' = balance - Lesser(n, balance)
             /\ taken' = taken + Lesser(n, balance)

-----------------------------------------------------------------------------
(* RequestRefund, PrepareRefund and ExecuteRefund. *)

\* The user asks for a refund; the balance must cover it.
RequestRefund ==
  /\ status = "COMPLETED"
  /\ balance >= Amount
  /\ status' = "REFUND_REQUESTED"
  /\ UNCHANGED <<audit, rollbackNoted, moneyVars, gatewayVars, workVars>>

\* The plan keeps the row as it was read.  Without force an insufficient balance
\* ends the request; without deduct nothing will be taken.
PrepareRefund(w) ==
  /\ At(w, "idle")
  /\ status \in Refundable
  /\ \E deduct \in BOOLEAN :
       GoWith(w, "claim", [seen |-> status,
                           take |-> IF deduct THEN Lesser(Amount, balance) ELSE 0,
                           verdict |-> "none", undone |-> FALSE])
  /\ UNCHANGED <<rowVars, moneyVars, gatewayVars>>

\* Fault model: the claim does not look at the status.
ClaimUnguarded(w) ==
  /\ At(w, "claim")
  /\ status' = "REFUNDING"
  /\ Go(w, "deduct")
  /\ UNCHANGED <<audit, rollbackNoted, moneyVars, gatewayVars>>

\* The guarded update that opens ExecuteRefund.
ClaimRefund(w) ==
  /\ At(w, "claim")
  /\ \/ /\ status \in Refundable
        /\ status' = "REFUNDING"
        /\ Go(w, "deduct")
     \/ /\ status \notin Refundable
        /\ Return(w)
        /\ UNCHANGED status
  /\ UNCHANGED <<audit, rollbackNoted, moneyVars, gatewayVars>>

\* The deduction is skipped when an earlier attempt could not give back what it took.
\* (hasAuditLog answers no when its query fails, too; here the query succeeds.)
DeductBalance(w) ==
  /\ At(w, "deduct")
  /\ \/ /\ plan[w].take > 0
        /\ "REFUND_ROLLBACK_FAILED" \notin audit
        /\ Deduct(plan[w].take)
        /\ UNCHANGED lost
        /\ GoWith(w, "gateway", [plan[w] EXCEPT !.take = Lesser(@, balance)])
     \/ /\ plan[w].take = 0 \/ "REFUND_ROLLBACK_FAILED" \in audit
        /\ GoWith(w, "gateway", [plan[w] EXCEPT !.take = 0])
        /\ UNCHANGED moneyVars
  /\ UNCHANGED <<rowVars, gatewayVars>>

\* The deduction reports an error and the status is restored.  The statement commits
\* by itself: when only its answer was lost, the balance is gone all the same.
DeductError(w) ==
  /\ At(w, "deduct")
  /\ plan[w].take > 0
  /\ "REFUND_ROLLBACK_FAILED" \notin audit
  /\ \/ Deduct(plan[w].take) /\ lost' = lost + Lesser(plan[w].take, balance)
     \/ UNCHANGED moneyVars
  /\ Go(w, "restore")
  /\ UNCHANGED <<rowVars, gatewayVars>>

\* gwRefund of an order without a trade number: a success, and no call to a provider.
SkipGateway(w) ==
  /\ At(w, "gateway")
  /\ channel = "none"
  /\ Go(w, "refunded")
  /\ UNCHANGED <<rowVars, moneyVars, gatewayVars>>

\* gwRefund.  A provider that keys refunds finds the earlier one, and may let a
\* repeated call start a new one when that has failed; any other starts a further one.
\* A refund that is not paid is answered as pending.  The answer may be lost, and then
\* counts as a failure.
CallGateway(w) ==
  /\ At(w, "gateway")
  /\ channel # "none"
  /\ \/ channel = "keyed" /\ gateway # "none" /\ gateway' = gateway
     \/ /\ channel = "unkeyed" \/ gateway \in {"none", "failed"}
        /\ gateway' \in {"pending", "paid"}
  /\ paidOut' = (paidOut \/ gateway' = "paid")
  /\ \/ /\ gateway' = "paid"
        /\ Go(w, "refunded")
     \/ /\ gateway' # "paid"
        /\ GoWith(w, "rollback", [plan[w] EXCEPT !.verdict = "pending"])
     \/ GoWith(w, "rollback", [plan[w] EXCEPT !.verdict = "failed"])
  /\ UNCHANGED <<rowVars, moneyVars, channel, mishaps>>

\* The call never reaches the provider, or is refused.
CallGatewayFails(w) ==
  /\ At(w, "gateway")
  /\ channel # "none"
  /\ GoWith(w, "rollback", [plan[w] EXCEPT !.verdict = "failed"])
  /\ UNCHANGED <<rowVars, moneyVars, gatewayVars>>

-----------------------------------------------------------------------------
(* What follows the provider's answer. *)

AfterRollback(w, undone) ==
  IF plan[w].verdict = "pending" THEN "pending" ELSE IF undone THEN "restore" ELSE "failed"

\* Fault model: the failed attempt keeps what it took.
RollbackForgotten(w) ==
  /\ At(w, "rollback")
  /\ GoWith(w, AfterRollback(w, TRUE), [plan[w] EXCEPT !.undone = TRUE])
  /\ UNCHANGED <<rowVars, moneyVars, gatewayVars>>

\* RollbackRefund gives back what this attempt took, if it took anything.
RollbackRefund(w) ==
  /\ At(w, "rollback")
  /\ balance' = balance + plan[w].take
  /\ taken' = taken - plan[w].take
  /\ GoWith(w, AfterRollback(w, TRUE), [plan[w] EXCEPT !.undone = TRUE])
  /\ UNCHANGED <<rowVars, lost, gatewayVars>>

\* Here, too, the balance may be back although the statement reports an error.
RollbackError(w) ==
  /\ At(w, "rollback")
  /\ plan[w].take > 0
  /\ \/ balance' = balance + plan[w].take /\ taken' = taken - plan[w].take
     \/ UNCHANGED <<balance, taken>>
  /\ mishaps' = mishaps \cup {"rollback"}
  /\ Go(w, "rollbackAudit")
  /\ UNCHANGED <<rowVars, lost, channel, gateway, paidOut>>

NoteRollbackError(w) ==
  /\ At(w, "rollbackAudit")
  /\ Write("REFUND_ROLLBACK_FAILED")
  /\ Go(w, AfterRollback(w, FALSE))
  /\ UNCHANGED <<status, rollbackNoted, moneyVars, gatewayVars>>

\* restoreStatus writes the row without looking at its status.
RestoreStatus(w) ==
  /\ At(w, "restore")
  /\ status' = IF plan[w].seen = "REFUND_REQUESTED" THEN "REFUND_REQUESTED" ELSE "COMPLETED"
  /\ Return(w)
  /\ UNCHANGED <<audit, rollbackNoted, moneyVars, gatewayVars>>

\* The second half of handleGwFail.
MarkRefundFailed(w) ==
  /\ At(w, "failed")
  /\ status' = "REFUND_FAILED"
  /\ Return(w)
  /\ UNCHANGED <<audit, rollbackNoted, moneyVars, gatewayVars>>

MarkRefundPending(w) ==
  /\ At(w, "pending")
  /\ status' = "REFUND_PENDING"
  /\ Go(w, "pendingAudit")
  /\ UNCHANGED <<audit, rollbackNoted, moneyVars, gatewayVars>>

\* The detail of the first REFUND_PENDING row stays: a later one is refused.
NoteRefundPending(w) ==
  /\ At(w, "pendingAudit")
  /\ Write("REFUND_PENDING")
  /\ rollbackNoted' = IF audit' = audit THEN rollbackNoted ELSE plan[w].undone
  /\ Return(w)
  /\ UNCHANGED <<status, moneyVars, gatewayVars>>

MarkRefundOk(w) ==
  /\ At(w, "refunded")
  /\ status' = "REFUNDED"
  /\ Go(w, "refundedAudit")
  /\ UNCHANGED <<audit, rollbackNoted, moneyVars, gatewayVars>>

NoteRefundOk(w) ==
  /\ At(w, "refundedAudit")
  /\ Write("REFUND_SUCCESS")
  /\ Return(w)
  /\ UNCHANGED <<status, rollbackNoted, moneyVars, gatewayVars>>

-----------------------------------------------------------------------------
(* QueryAndFinalizeRefund. *)

\* The row and the latest REFUND_PENDING detail are read; the plan made from them
\* always deducts, unless the detail says that the rollback had failed.  The
\* providers that do not key refunds cannot be asked for one.
QueryRefund(w) ==
  /\ At(w, "idle")
  /\ channel = "keyed"
  /\ status = "REFUND_PENDING"
  /\ GoWith(w, "query", [seen |-> status, take |-> IF rollbackNoted THEN Amount ELSE 0,
                         verdict |-> "none", undone |-> FALSE])
  /\ UNCHANGED <<rowVars, moneyVars, gatewayVars>>

\* Fault model: a refund that is still pending is taken for a paid one.
QueryPendingIsPaid(w) ==
  /\ At(w, "query")
  /\ \/ gateway \in {"paid", "pending"} /\ Go(w, "finalize")
     \/ gateway = "failed" /\ Go(w, "finalizeFailed")
  /\ UNCHANGED <<rowVars, moneyVars, gatewayVars>>

QueryAnswered(w) ==
  /\ At(w, "query")
  /\ \/ gateway = "paid"   /\ Go(w, "finalize")
     \/ gateway = "failed" /\ Go(w, "finalizeFailed")
     \/ gateway = "pending" /\ Return(w)
  /\ UNCHANGED <<rowVars, moneyVars, gatewayVars>>

\* Fault model: the row is finalized whatever its status is.
FinalizeAnyStatus(w) ==
  /\ At(w, "finalize")
  /\ \/ /\ "REFUND_SUCCESS" \notin audit
        /\ status' = "REFUNDED"
        /\ Deduct(plan[w].take)
        /\ UNCHANGED lost
        /\ audit' = audit \cup {"REFUND_SUCCESS"}
     \/ /\ "REFUND_SUCCESS" \in audit
        /\ UNCHANGED <<status, moneyVars, audit>>
  /\ Return(w)
  /\ UNCHANGED <<rollbackNoted, gatewayVars>>

\* finalizePendingRefundSuccess: one transaction.  A REFUND_SUCCESS row that exists,
\* or cannot be written, aborts it.
FinalizeRefund(w) ==
  /\ At(w, "finalize")
  /\ \/ /\ status = "REFUND_PENDING"
        /\ "REFUND_SUCCESS" \notin audit
        /\ status' = "REFUNDED"
        /\ Deduct(plan[w].take)
        /\ UNCHANGED lost
        /\ audit' = audit \cup {"REFUND_SUCCESS"}
     \/ /\ status # "REFUND_PENDING" \/ "REFUND_SUCCESS" \in audit
        /\ UNCHANGED <<status, moneyVars, audit>>
  /\ Return(w)
  /\ UNCHANGED <<rollbackNoted, gatewayVars>>

\* finalizeRefundFailed writes the row without looking at its status.
FinalizeRefundFailed(w) ==
  /\ At(w, "finalizeFailed")
  /\ status' = "REFUND_FAILED"
  /\ Return(w)
  /\ UNCHANGED <<audit, rollbackNoted, moneyVars, gatewayVars>>

-----------------------------------------------------------------------------
(* Faults, and what happens outside the service. *)

\* The process stops, or a statement whose error only ends the request fails.
Abort(w) ==
  /\ ~At(w, "idle")
  /\ Return(w)
  /\ UNCHANGED <<rowVars, moneyVars, gatewayVars>>

\* The provider settles a pending refund.
Settle ==
  /\ gateway = "pending"
  /\ \/ gateway' = "paid" /\ paidOut' = TRUE /\ UNCHANGED mishaps
     \/ gateway' = "failed" /\ mishaps' = mishaps \cup {"gateway"} /\ UNCHANGED paidOut
  /\ UNCHANGED <<rowVars, moneyVars, channel, workVars>>

\* The user spends.
Spend ==
  /\ balance > 0
  /\ balance' = balance - 1
  /\ UNCHANGED <<rowVars, taken, lost, gatewayVars, workVars>>

-----------------------------------------------------------------------------
Next ==
  \/ \E w \in Admins :
       \/ PrepareRefund(w) \/ ClaimRefund(w) \/ DeductBalance(w) \/ DeductError(w)
       \/ SkipGateway(w) \/ CallGateway(w) \/ CallGatewayFails(w)
       \/ RollbackRefund(w) \/ RollbackError(w) \/ NoteRollbackError(w)
       \/ RestoreStatus(w) \/ MarkRefundFailed(w)
       \/ MarkRefundPending(w) \/ NoteRefundPending(w)
       \/ MarkRefundOk(w) \/ NoteRefundOk(w)
       \/ QueryRefund(w) \/ QueryAnswered(w) \/ FinalizeRefund(w) \/ FinalizeRefundFailed(w)
       \/ Abort(w)
  \/ RequestRefund \/ Settle \/ Spend

Spec == Init /\ [][Next]_vars

-----------------------------------------------------------------------------
(* Safety. *)

\* A refunded order was refunded by the provider, although the answer of an old
\* query may be applied after other attempts (finalizePendingRefundSuccess,
\* markRefundOk).  Excepted is an order without a trade number, which gwRefund reports
\* as refunded without a call.
RefundedMeansPaidOut == status = "REFUNDED" /\ channel # "none" => paidOut

\* As long as no rollback reported an error and the provider never declared the refund
\* failed, the balance is taken at most once, whatever attempts run at the same time,
\* wherever they stop, and however often a pending refund is executed or finalized
\* again (ExecuteRefund, finalizePendingRefundSuccess).  What a deduction took whose
\* answer was lost is gone on top of that: no attempt knows of it.
TakenAtMostOnce == mishaps = {} => taken - lost <= Amount

\* As long as neither happened, balance that stays taken belongs to a refund that
\* is in progress or done, or to a lost answer: an order that is COMPLETED or
\* REFUND_FAILED again, or waits as REFUND_PENDING, has everything else back
\* (handleGwFail, markRefundPending).
TakenOnlyForRefund ==
  mishaps = {} /\ taken > lost => status \in {"REFUNDING", "REFUNDED"}

\* As long as neither happened, a refunded order stays REFUNDED, although three of
\* the writes of its row do not look at the status: no other administrator is left
\* on the way to one of them (restoreStatus, markRefundPending, handleGwFail).
RefundedStays ==
  [][ mishaps = {} /\ status = "REFUNDED" => status' = "REFUNDED" ]_vars

\* What ExecuteRefund says of a retry: balance that an attempt took and could not
\* give back, as its audit row notes, is not taken again for the same refund.  Both
\* rows the code decides by are there, so no write to the audit log was lost.
RetrySkipsDeduction ==
  [][ {"REFUND_ROLLBACK_FAILED", "REFUND_PENDING"} \subseteq audit /\ taken - lost = Amount
        => taken' <= taken ]_vars
=============================================================================
