------------------------- MODULE PaymentOrderProofs -------------------------
(***************************************************************************)
(* Proofs about PaymentOrder, for any set of orders and workers.  The      *)
(* inductive invariant has three parts, each proved by one step per        *)
(* action: Booking (every booking is covered by a used code or an audit    *)
(* row), Payment (what reaches the fulfilment was paid for) and Settling   *)
(* (what a worker may still report, to the provider and to the user).      *)
(***************************************************************************)
EXTENDS PaymentOrder, TLAPS

RowType == /\ status \in [Orders -> Status]
           /\ stale \in [Orders -> BOOLEAN]
           /\ holders \in [Orders -> SUBSET Workers]

ProcType == /\ pc \in [Workers -> Steps]
            /\ task \in [Workers -> Task \cup {NoTask}]
            /\ \A w \in Workers : pc[w] # "idle" => task[w] \in Task
            /\ acked \in [Orders -> BOOLEAN]

(* What the helpers of the actions do to the types. *)

LEMMA SaveType == ASSUME TypeOK, NEW o \in Orders, NEW s \in Status, Save(o, s)
                  PROVE  RowType'
BY DEF TypeOK, RowType, Save

LEMMA TaskType == ASSUME TypeOK, NEW w \in Workers, pc[w] # "idle"
                  PROVE  task[w] \in Task /\ task[w].order \in Orders
BY DEF TypeOK, Task

LEMMA GoType == ASSUME TypeOK, NEW w \in Workers, NEW step \in Steps, pc[w] # "idle",
                       Go(w, step), UNCHANGED acked
                PROVE  ProcType'
BY DEF TypeOK, ProcType, Go

LEMMA ReturnType == ASSUME TypeOK, NEW w \in Workers, NEW ok \in BOOLEAN, pc[w] # "idle",
                           Return(w, ok)
                    PROVE  ProcType'
BY DEF TypeOK, ProcType, Return, Steps, Task

LEMMA StartType == ASSUME TypeOK, NEW w \in Workers, NEW o \in Orders, NEW why \in Reasons,
                          NEW step \in Steps, Start(w, o, why, step), UNCHANGED acked
                   PROVE  ProcType'
BY DEF TypeOK, ProcType, Start, Task

LEMMA TypeStep == TypeOK /\ [Next]_vars => TypeOK'
<1> SUFFICES ASSUME TypeOK, [Next]_vars PROVE TypeOK'
  OBVIOUS
<1> USE DEF Steps, Reasons, rowVars, effectVars
<1>1. ASSUME NEW w \in Workers, InvokeProvider(w) PROVE TypeOK'
  BY <1>1, TaskType DEF InvokeProvider, TypeOK, Task, Status, Save, Go, Return, At, FulfilSteps
<1>2. ASSUME NEW w \in Workers, InvokeProviderFails(w) PROVE TypeOK'
  BY <1>2, TaskType, SaveType, GoType, ReturnType, StartType
  DEF InvokeProviderFails, TypeOK, ProcType, RowType, At, FulfilSteps, Status, Delivered
<1>3. ASSUME NEW w \in Workers, QueryPaid(w) PROVE TypeOK'
  BY <1>3, TaskType, SaveType, GoType, ReturnType, StartType
  DEF QueryPaid, TypeOK, ProcType, RowType, At, FulfilSteps, Status, Delivered
<1>4. ASSUME NEW w \in Workers, PersistTradeNo(w) PROVE TypeOK'
  <2>1. pc[w] = "persist" /\ task[w].order \in Orders
    BY <1>4, TaskType DEF PersistTradeNo, At
  <2>2. ProcType'
    BY <1>4, <2>1, GoType DEF PersistTradeNo
  <2>3. tradeNo' \in [Orders -> BOOLEAN]
    BY <1>4, <2>1 DEF PersistTradeNo, TypeOK
  <2>4. RowType'
    <3>1. CASE Save(task[w].order, status[task[w].order])
      BY <2>1, <3>1, SaveType DEF TypeOK
    <3>2. CASE UNCHANGED <<status, stale, holders>>
      BY <3>2 DEF TypeOK, RowType
    <3> QED
      BY <1>4, <3>1, <3>2 DEF PersistTradeNo
  <2> QED
    BY <1>4, <2>2, <2>3, <2>4 DEF PersistTradeNo, TypeOK, ProcType, RowType
<1>5. ASSUME NEW w \in Workers, QueryUnpaid(w) PROVE TypeOK'
  BY <1>5, TaskType, SaveType, GoType, ReturnType, StartType
  DEF QueryUnpaid, TypeOK, ProcType, RowType, At, FulfilSteps, Status, Delivered
<1>6. ASSUME NEW w \in Workers, QueryGivesNothing(w) PROVE TypeOK'
  BY <1>6, TaskType, SaveType, GoType, ReturnType, StartType
  DEF QueryGivesNothing, TypeOK, ProcType, RowType, At, FulfilSteps, Status, Delivered
<1>7. ASSUME NEW w \in Workers, CloseUpstream(w) PROVE TypeOK'
  BY <1>7, TaskType DEF CloseUpstream, TypeOK, Task, Status, Save, Go, Return, At, FulfilSteps
<1>8. ASSUME NEW w \in Workers, CancelCore(w) PROVE TypeOK'
  BY <1>8, TaskType, SaveType, GoType, ReturnType, StartType
  DEF CancelCore, TypeOK, ProcType, RowType, At, FulfilSteps, Status, Delivered
<1>9. ASSUME NEW w \in Workers, ToPaid(w) PROVE TypeOK'
  BY <1>9, TaskType, SaveType, GoType, ReturnType, StartType
  DEF ToPaid, TypeOK, ProcType, RowType, At, FulfilSteps, Status, Delivered
<1>10. ASSUME NEW w \in Workers, AlreadyProcessed(w) PROVE TypeOK'
  BY <1>10, TaskType, SaveType, GoType, ReturnType, StartType
  DEF AlreadyProcessed, TypeOK, ProcType, RowType, At, FulfilSteps, Status, Delivered
<1>11. ASSUME NEW w \in Workers, ExecuteFulfillment(w) PROVE TypeOK'
  BY <1>11, TaskType, SaveType, GoType, ReturnType, StartType
  DEF ExecuteFulfillment, TypeOK, ProcType, RowType, At, FulfilSteps, Status, Delivered
<1>12. ASSUME NEW w \in Workers, AcquireLease(w) PROVE TypeOK'
  BY <1>12, TaskType, SaveType, GoType, ReturnType, StartType
  DEF AcquireLease, TypeOK, ProcType, RowType, At, FulfilSteps, Status, Delivered
<1>13. ASSUME NEW w \in Workers, ReloadLease(w) PROVE TypeOK'
  <2>1. pc[w] = "reload" /\ task[w].order \in Orders
    BY <1>13, TaskType DEF ReloadLease, At
  <2>2. ProcType'
    <3>1. CASE Return(w, FALSE)
      BY <2>1, <3>1, ReturnType
    <3>2. CASE /\ Go(w, IF kind[task[w].order] = "balance" THEN "lookup" ELSE "assign")
               /\ UNCHANGED acked
      BY <2>1, <3>2, GoType DEF FulfilSteps
    <3> QED
      BY <1>13, <3>1, <3>2 DEF ReloadLease
  <2>3. holders' \in [Orders -> SUBSET Workers]
    <3> DEFINE o == task[w].order
    <3>1. \/ UNCHANGED holders
          \/ holders' = [holders EXCEPT ![o] = holders[o] \cup {w}]
      BY <1>13 DEF ReloadLease
    <3>2. holders \in [Orders -> SUBSET Workers] /\ o \in Orders
      BY <2>1 DEF TypeOK
    <3>3. holders[o] \cup {w} \in SUBSET Workers
      BY <3>2
    <3> HIDE DEF o
    <3> QED
      BY <3>1, <3>2, <3>3
  <2> QED
    BY <1>13, <2>2, <2>3 DEF ReloadLease, TypeOK, ProcType
<1>14. ASSUME NEW w \in Workers, LookupCode(w) PROVE TypeOK'
  BY <1>14, TaskType, SaveType, GoType, ReturnType, StartType
  DEF LookupCode, TypeOK, ProcType, RowType, At, FulfilSteps, Status, Delivered
<1>15. ASSUME NEW w \in Workers, CreateCode(w) PROVE TypeOK'
  BY <1>15, TaskType DEF CreateCode, TypeOK, Task, Status, Save, Go, Return, At, FulfilSteps
<1>16. ASSUME NEW w \in Workers, Redeem(w) PROVE TypeOK'
  <2>1. pc[w] = "redeem" /\ task[w].order \in Orders
    BY <1>16, TaskType DEF Redeem, At
  <2>2. ProcType'
    <3> SUFFICES ASSUME NEW next \in {"rebate", "fail"}, Go(w, next) PROVE ProcType'
      BY <1>16 DEF Redeem
    <3> QED
      BY <1>16, <2>1, GoType DEF Redeem, FulfilSteps
  <2>3. code' \in [Orders -> {"absent", "unused", "used"}] /\ credits' \in [Orders -> Nat]
    BY <1>16, <2>1 DEF Redeem, TypeOK
  <2> QED
    BY <1>16, <2>2, <2>3 DEF Redeem, TypeOK, ProcType
<1>17. ASSUME NEW w \in Workers, CheckAssigned(w) PROVE TypeOK'
  BY <1>17, TaskType, SaveType, GoType, ReturnType, StartType
  DEF CheckAssigned, TypeOK, ProcType, RowType, At, FulfilSteps, Status, Delivered
<1>18. ASSUME NEW w \in Workers, GrantSubscription(w) PROVE TypeOK'
  <2>1. task[w].order \in Orders
    BY <1>18, TaskType DEF GrantSubscription, At
  <2>4. ProcType'
    <3> SUFFICES ASSUME NEW next \in {"rebate", "fail"}, Go(w, next) PROVE ProcType'
      BY <1>18 DEF GrantSubscription
    <3>1. UNCHANGED acked /\ pc[w] # "idle"
      BY <1>18 DEF GrantSubscription, At
    <3> QED
      BY <3>1, GoType DEF FulfilSteps
  <2>2. audit' \in [Orders -> SUBSET {"ASSIGNED", "REBATE", "SUCCESS"}]
    BY <1>18, <2>1 DEF GrantSubscription, TypeOK
  <2>3. credits' \in [Orders -> Nat]
    BY <1>18, <2>1 DEF GrantSubscription, TypeOK
  <2> QED
    BY <1>18, <2>2, <2>3, <2>4 DEF GrantSubscription, TypeOK, ProcType
<1>19. ASSUME NEW w \in Workers, ApplyRebate(w) PROVE TypeOK'
  BY <1>19, TaskType DEF ApplyRebate, TypeOK, Task, Status, Save, Go, Return, At, FulfilSteps
<1>20. ASSUME NEW w \in Workers, MarkCompleted(w) PROVE TypeOK'
  BY <1>20, TaskType, SaveType, GoType, ReturnType, StartType
  DEF MarkCompleted, TypeOK, ProcType, RowType, At, FulfilSteps, Status, Delivered
<1>21. ASSUME NEW w \in Workers, NotifySuccess(w) PROVE TypeOK'
  <2>1. pc[w] # "idle" /\ task[w].order \in Orders
    BY <1>21, TaskType DEF NotifySuccess, At
  <2>2. ProcType'
    BY <1>21, <2>1, ReturnType DEF NotifySuccess
  <2>3. audit' \in [Orders -> SUBSET {"ASSIGNED", "REBATE", "SUCCESS"}]
    BY <1>21, <2>1 DEF NotifySuccess, TypeOK
  <2>4. mails' \in [Orders -> Nat]
    BY <1>21, <2>1 DEF NotifySuccess, TypeOK
  <2> QED
    BY <1>21, <2>2, <2>3, <2>4 DEF NotifySuccess, TypeOK, ProcType
<1>22. ASSUME NEW w \in Workers, MarkFailed(w) PROVE TypeOK'
  BY <1>22, TaskType, SaveType, GoType, ReturnType, StartType
  DEF MarkFailed, TypeOK, ProcType, RowType, At, FulfilSteps, Status, Delivered
<1>23. ASSUME NEW w \in Workers, FulfilmentError(w) PROVE TypeOK'
  BY <1>23, TaskType, SaveType, GoType, ReturnType, StartType
  DEF FulfilmentError, TypeOK, ProcType, RowType, At, FulfilSteps, Status, Delivered
<1>24. ASSUME NEW w \in Workers, Abort(w) PROVE TypeOK'
  BY <1>24, TaskType, SaveType, GoType, ReturnType, StartType
  DEF Abort, TypeOK, ProcType, RowType, At, FulfilSteps, Status, Delivered
<1>37. ASSUME NEW w \in Workers, LookupError(w) PROVE TypeOK'
  BY <1>37, TaskType, SaveType, GoType, ReturnType, StartType
  DEF LookupError, TypeOK, ProcType, RowType, At, FulfilSteps, Status, Delivered
<1>38. ASSUME NEW w \in Workers, IgnoreFailedLookup(w) PROVE TypeOK'
  BY <1>38, TaskType, SaveType, GoType, ReturnType, StartType
  DEF IgnoreFailedLookup, TypeOK, ProcType, RowType, At, FulfilSteps, Status, Delivered
<1>25. ASSUME NEW w \in Workers, NEW o \in Orders, CreateOrder(w, o) PROVE TypeOK'
  BY <1>25, TaskType, SaveType, GoType, ReturnType, StartType
  DEF CreateOrder, TypeOK, ProcType, RowType, At, FulfilSteps, Status, Delivered
<1>26. ASSUME NEW w \in Workers, NEW o \in Orders, Webhook(w, o) PROVE TypeOK'
  BY <1>26, TaskType, SaveType, GoType, ReturnType, StartType
  DEF Webhook, TypeOK, ProcType, RowType, At, FulfilSteps, Status, Delivered
<1>27. ASSUME NEW w \in Workers, NEW o \in Orders, Cancel(w, o) PROVE TypeOK'
  BY <1>27, TaskType, SaveType, GoType, ReturnType, StartType
  DEF Cancel, TypeOK, ProcType, RowType, At, FulfilSteps, Status, Delivered
<1>28. ASSUME NEW w \in Workers, NEW o \in Orders, Expire(w, o) PROVE TypeOK'
  BY <1>28, TaskType, SaveType, GoType, ReturnType, StartType
  DEF Expire, TypeOK, ProcType, RowType, At, FulfilSteps, Status, Delivered
<1>29. ASSUME NEW w \in Workers, NEW o \in Orders, Verify(w, o) PROVE TypeOK'
  BY <1>29, TaskType, SaveType, GoType, ReturnType, StartType
  DEF Verify, TypeOK, ProcType, RowType, At, FulfilSteps, Status, Delivered
<1>30. ASSUME NEW w \in Workers, NEW o \in Orders, Reconcile(w, o) PROVE TypeOK'
  BY <1>30, TaskType, SaveType, GoType, ReturnType, StartType
  DEF Reconcile, TypeOK, ProcType, RowType, At, FulfilSteps, Status, Delivered
<1>31. ASSUME NEW w \in Workers, NEW o \in Orders, RetryFulfillment(w, o) PROVE TypeOK'
  BY <1>31, TaskType, SaveType, GoType, ReturnType, StartType
  DEF RetryFulfillment, TypeOK, ProcType, RowType, At, FulfilSteps, Status, Delivered
<1>32. ASSUME NEW o \in Orders, Pay(o) PROVE TypeOK'
  BY <1>32, TaskType, SaveType, GoType, ReturnType, StartType
  DEF Pay, TypeOK, ProcType, RowType, At, FulfilSteps, Status, Delivered
<1>33. ASSUME NEW o \in Orders, Age(o) PROVE TypeOK'
  BY <1>33, TaskType, SaveType, GoType, ReturnType, StartType
  DEF Age, TypeOK, ProcType, RowType, At, FulfilSteps, Status, Delivered
<1>34. ASSUME NEW o \in Orders, ReachDeadline(o) PROVE TypeOK'
  BY <1>34, TaskType, SaveType, GoType, ReturnType, StartType
  DEF ReachDeadline, TypeOK, ProcType, RowType, At, FulfilSteps, Status, Delivered
<1>35. ASSUME NEW o \in Orders, RefundUpdate(o) PROVE TypeOK'
  BY <1>35, TaskType, SaveType, GoType, ReturnType, StartType
  DEF RefundUpdate, TypeOK, ProcType, RowType, At, FulfilSteps, Status, Delivered
<1>36. CASE UNCHANGED vars
  BY <1>36 DEF TypeOK, vars
<1> QED
  BY <1>1, <1>2, <1>3, <1>4, <1>5, <1>6, <1>7, <1>8, <1>9, <1>10, <1>11,
     <1>12, <1>13, <1>14, <1>15, <1>16, <1>17, <1>18, <1>19, <1>20, <1>21,
     <1>22, <1>23, <1>24, <1>25, <1>26, <1>27, <1>28, <1>29, <1>30, <1>31,
     <1>32, <1>33, <1>34, <1>35, <1>36, <1>37, <1>38
  DEF Next, Handle, Call, Fault, Outside

\* The state has the types the columns and the program counters have.
THEOREM TypeCorrect == Spec => []TypeOK
<1>1. Init => TypeOK
  BY DEF Init, TypeOK, Status, Steps
<1> QED
  BY <1>1, TypeStep, PTL DEF Spec

-----------------------------------------------------------------------------
(* The inductive invariant. *)

Mark(set, x) == IF x \in set THEN 1 ELSE 0

\* Each booking is counted by the code or the audit row that guards it.
Booked ==
  \A o \in Orders :
    /\ credits[o] = IF kind[o] = "balance" THEN Mark({"used"}, code[o])
                                           ELSE Mark(audit[o], "ASSIGNED")
    /\ rebates[o] = Mark(audit[o], "REBATE")
    /\ "SUCCESS" \in audit[o] \/ status[o] \in Delivered
         => credits[o] = 1 /\ rebates[o] = 1

\* What a worker has found or done before it reaches a step.
WorkerBooked ==
  \A w \in Workers :
    LET o == task[w].order IN
    /\ pc[w] \in {"lookup", "createCode", "redeem"} => kind[o] = "balance"
    /\ pc[w] \in {"assign", "grant"} => kind[o] # "balance"
    /\ pc[w] \in {"rebate", "complete", "notify"} => credits[o] = 1
    /\ pc[w] \in {"complete", "notify"} => rebates[o] = 1

Booking == Booked /\ WorkerBooked

\* paid_at is set only for received money, and every status that can be fulfilled
\* has it, except FAILED of an order that nobody could ever pay.
Recorded ==
  \A o \in Orders :
    /\ paidAt[o] => upstream[o] = "paid"
    /\ credits[o] > 0 => paidAt[o]
    /\ status[o] \in {"PAID", "RECHARGING"} \cup Delivered => paidAt[o]
    /\ status[o] = "FAILED" /\ ~paidAt[o] => upstream[o] = "none"
    /\ status[o] = "NONE" => upstream[o] = "none"

WorkerRecorded ==
  \A w \in Workers :
    LET o == task[w].order IN
    /\ pc[w] # "idle" => status[o] # "NONE"
    /\ pc[w] = "invoke" =>
         /\ upstream[o] = "none" /\ status[o] # "FAILED"
         /\ \A v \in Workers \ {w} : pc[v] = "invoke" => task[v].order # o
    /\ pc[w] \in {"persist", "toPaid", "recheck", "lookupFailed"} => upstream[o] = "paid"
    /\ pc[w] \in FulfilSteps \cup {"fulfil", "lease", "reload", "notify", "fail"}
         => paidAt[o]

Payment == Recorded /\ WorkerRecorded

\* What the row looks like when a worker is about to answer the provider.
Answering ==
  \A w \in Workers :
    LET o == task[w].order IN
    /\ pc[w] # "idle" => status[o] # "NONE"
    /\ pc[w] = "recheck" => status[o] \notin {"PENDING", "CANCELLED"}
    /\ pc[w] = "notify" => status[o] \in Delivered
    /\ pc[w] \in {"invoke", "query", "closeUpstream", "cancel"} => task[w].why # "webhook"

\* Only one worker completes an order, and no notification comes before it.
Notifying ==
  /\ \A o \in Orders : mails[o] > 0 => mails[o] = 1 /\ status[o] \in Delivered
  /\ \A w \in Workers : pc[w] = "notify" =>
       /\ mails[task[w].order] = 0
       /\ \A v \in Workers \ {w} : pc[v] = "notify" => task[v].order # task[w].order

Settling == Answering /\ Notifying

LEMMA BookingStep == TypeOK /\ Booking /\ [Next]_vars => Booking'
<1> SUFFICES ASSUME TypeOK, Booking, [Next]_vars PROVE Booking'
  OBVIOUS
<1> USE DEF TypeOK, Task, Booking, Booked, WorkerBooked, Mark, Status, FulfilSteps, Delivered, Fulfilable,
            Save, Go, Start, Return, At, rowVars, effectVars
<1>1. ASSUME NEW w \in Workers, InvokeProvider(w) PROVE Booking'
  BY <1>1, TaskType DEF InvokeProvider
<1>2. ASSUME NEW w \in Workers, InvokeProviderFails(w) PROVE Booking'
  BY <1>2, TaskType DEF InvokeProviderFails
<1>3. ASSUME NEW w \in Workers, QueryPaid(w) PROVE Booking'
  BY <1>3, TaskType DEF QueryPaid
<1>4. ASSUME NEW w \in Workers, PersistTradeNo(w) PROVE Booking'
  BY <1>4, TaskType DEF PersistTradeNo
<1>5. ASSUME NEW w \in Workers, QueryUnpaid(w) PROVE Booking'
  BY <1>5, TaskType DEF QueryUnpaid
<1>6. ASSUME NEW w \in Workers, QueryGivesNothing(w) PROVE Booking'
  BY <1>6, TaskType DEF QueryGivesNothing
<1>7. ASSUME NEW w \in Workers, CloseUpstream(w) PROVE Booking'
  BY <1>7, TaskType DEF CloseUpstream
<1>8. ASSUME NEW w \in Workers, CancelCore(w) PROVE Booking'
  BY <1>8, TaskType DEF CancelCore
<1>9. ASSUME NEW w \in Workers, ToPaid(w) PROVE Booking'
  BY <1>9, TaskType DEF ToPaid
<1>10. ASSUME NEW w \in Workers, AlreadyProcessed(w) PROVE Booking'
  BY <1>10, TaskType DEF AlreadyProcessed
<1>11. ASSUME NEW w \in Workers, ExecuteFulfillment(w) PROVE Booking'
  BY <1>11, TaskType DEF ExecuteFulfillment
<1>12. ASSUME NEW w \in Workers, AcquireLease(w) PROVE Booking'
  BY <1>12, TaskType DEF AcquireLease
<1>13. ASSUME NEW w \in Workers, ReloadLease(w) PROVE Booking'
  BY <1>13, TaskType DEF ReloadLease
<1>14. ASSUME NEW w \in Workers, LookupCode(w) PROVE Booking'
  BY <1>14, TaskType DEF LookupCode
<1>15. ASSUME NEW w \in Workers, CreateCode(w) PROVE Booking'
  BY <1>15, TaskType DEF CreateCode
<1>16. ASSUME NEW w \in Workers, Redeem(w) PROVE Booking'
  BY <1>16, TaskType DEF Redeem
<1>17. ASSUME NEW w \in Workers, CheckAssigned(w) PROVE Booking'
  BY <1>17, TaskType DEF CheckAssigned
<1>18. ASSUME NEW w \in Workers, GrantSubscription(w) PROVE Booking'
  BY <1>18, TaskType DEF GrantSubscription
<1>19. ASSUME NEW w \in Workers, ApplyRebate(w) PROVE Booking'
  BY <1>19, TaskType DEF ApplyRebate
<1>20. ASSUME NEW w \in Workers, MarkCompleted(w) PROVE Booking'
  <2>1. task[w].order \in Orders
    BY <1>20, TaskType DEF MarkCompleted
  <2>2. CASE OwnsLease(w, task[w].order)
    BY <1>20, <2>1, <2>2 DEF MarkCompleted, OwnsLease
  <2>3. CASE ~OwnsLease(w, task[w].order)
    <3>1. UNCHANGED <<status, kind, code, credits, rebates, audit, mails>>
      BY <1>20, <2>3 DEF MarkCompleted
    <3>2. pc' \in {[pc EXCEPT ![w] = "idle"], [pc EXCEPT ![w] = "fail"]}
      BY <1>20, <2>3 DEF MarkCompleted
    <3>3. \A v \in Workers \ {w} : task'[v] = task[v]
      BY <1>20, <2>3 DEF MarkCompleted
    <3> QED
      BY <3>1, <3>2, <3>3
  <2> QED
    BY <2>2, <2>3
<1>21. ASSUME NEW w \in Workers, NotifySuccess(w) PROVE Booking'
  BY <1>21, TaskType DEF NotifySuccess
<1>22. ASSUME NEW w \in Workers, MarkFailed(w) PROVE Booking'
  BY <1>22, TaskType DEF MarkFailed
<1>23. ASSUME NEW w \in Workers, FulfilmentError(w) PROVE Booking'
  BY <1>23, TaskType DEF FulfilmentError
<1>24. ASSUME NEW w \in Workers, Abort(w) PROVE Booking'
  BY <1>24, TaskType DEF Abort
<1>37. ASSUME NEW w \in Workers, LookupError(w) PROVE Booking'
  BY <1>37, TaskType DEF LookupError
<1>38. ASSUME NEW w \in Workers, IgnoreFailedLookup(w) PROVE Booking'
  BY <1>38, TaskType DEF IgnoreFailedLookup
<1>25. ASSUME NEW w \in Workers, NEW o \in Orders, CreateOrder(w, o) PROVE Booking'
  BY <1>25, TaskType DEF CreateOrder
<1>26. ASSUME NEW w \in Workers, NEW o \in Orders, Webhook(w, o) PROVE Booking'
  BY <1>26, TaskType DEF Webhook
<1>27. ASSUME NEW w \in Workers, NEW o \in Orders, Cancel(w, o) PROVE Booking'
  BY <1>27, TaskType DEF Cancel
<1>28. ASSUME NEW w \in Workers, NEW o \in Orders, Expire(w, o) PROVE Booking'
  BY <1>28, TaskType DEF Expire
<1>29. ASSUME NEW w \in Workers, NEW o \in Orders, Verify(w, o) PROVE Booking'
  BY <1>29, TaskType DEF Verify
<1>30. ASSUME NEW w \in Workers, NEW o \in Orders, Reconcile(w, o) PROVE Booking'
  BY <1>30, TaskType DEF Reconcile
<1>31. ASSUME NEW w \in Workers, NEW o \in Orders, RetryFulfillment(w, o) PROVE Booking'
  BY <1>31, TaskType DEF RetryFulfillment
<1>32. ASSUME NEW o \in Orders, Pay(o) PROVE Booking'
  BY <1>32, TaskType DEF Pay
<1>33. ASSUME NEW o \in Orders, Age(o) PROVE Booking'
  BY <1>33, TaskType DEF Age
<1>34. ASSUME NEW o \in Orders, ReachDeadline(o) PROVE Booking'
  BY <1>34, TaskType DEF ReachDeadline
<1>35. ASSUME NEW o \in Orders, RefundUpdate(o) PROVE Booking'
  BY <1>35, TaskType DEF RefundUpdate
<1>36. CASE UNCHANGED vars
  BY <1>36, TaskType DEF vars
<1> QED
  BY <1>1, <1>2, <1>3, <1>4, <1>5, <1>6, <1>7, <1>8, <1>9, <1>10, <1>11,
     <1>12, <1>13, <1>14, <1>15, <1>16, <1>17, <1>18, <1>19, <1>20, <1>21,
     <1>22, <1>23, <1>24, <1>25, <1>26, <1>27, <1>28, <1>29, <1>30, <1>31,
     <1>32, <1>33, <1>34, <1>35, <1>36, <1>37, <1>38
  DEF Next, Handle, Call, Fault, Outside

LEMMA PaymentStep == TypeOK /\ Payment /\ [Next]_vars => Payment'
<1> SUFFICES ASSUME TypeOK, Payment, [Next]_vars PROVE Payment'
  OBVIOUS
<1> USE DEF TypeOK, Task, Payment, Recorded, WorkerRecorded, FulfilSteps, Delivered, Fulfilable,
            Save, Go, Start, Return, At, rowVars, effectVars
<1>1. ASSUME NEW w \in Workers, InvokeProvider(w) PROVE Payment'
  <2> DEFINE o == task[w].order
  <2>1. o \in Orders /\ UNCHANGED <<status, paidAt, credits>>
    BY <1>1, TaskType DEF InvokeProvider
  <2>2. /\ ~paidAt[o] /\ credits[o] = 0
        /\ status[o] \notin {"NONE", "FAILED"}
        /\ \A v \in Workers \ {w} : pc[v] = "invoke" => task[v].order # o
        /\ \A v \in Workers : pc[v] \in {"persist", "toPaid", "recheck", "lookupFailed"}
                            => task[v].order # o
    BY <1>1, <2>1, TaskType DEF InvokeProvider
  <2>3. upstream' = [upstream EXCEPT ![o] = "open"]
    BY <1>1 DEF InvokeProvider
  <2>4. pc' = [pc EXCEPT ![w] = "idle"] /\ \A v \in Workers \ {w} : task'[v] = task[v]
    BY <1>1 DEF InvokeProvider
  <2>5. Recorded'
    BY <2>1, <2>2, <2>3
  <2>6. WorkerRecorded'
    BY <2>1, <2>2, <2>3, <2>4
  <2> QED
    BY <2>5, <2>6
<1>2. ASSUME NEW w \in Workers, InvokeProviderFails(w) PROVE Payment'
  BY <1>2, TaskType DEF InvokeProviderFails
<1>3. ASSUME NEW w \in Workers, QueryPaid(w) PROVE Payment'
  BY <1>3, TaskType DEF QueryPaid
<1>4. ASSUME NEW w \in Workers, PersistTradeNo(w) PROVE Payment'
  BY <1>4, TaskType DEF PersistTradeNo
<1>5. ASSUME NEW w \in Workers, QueryUnpaid(w) PROVE Payment'
  BY <1>5, TaskType DEF QueryUnpaid
<1>6. ASSUME NEW w \in Workers, QueryGivesNothing(w) PROVE Payment'
  BY <1>6, TaskType DEF QueryGivesNothing
<1>7. ASSUME NEW w \in Workers, CloseUpstream(w) PROVE Payment'
  BY <1>7, TaskType DEF CloseUpstream
<1>8. ASSUME NEW w \in Workers, CancelCore(w) PROVE Payment'
  BY <1>8, TaskType DEF CancelCore
<1>9. ASSUME NEW w \in Workers, ToPaid(w) PROVE Payment'
  BY <1>9, TaskType DEF ToPaid
<1>10. ASSUME NEW w \in Workers, AlreadyProcessed(w) PROVE Payment'
  <2>1. task[w].order \in Orders /\ upstream[task[w].order] = "paid"
    BY <1>10, TaskType DEF AlreadyProcessed
  <2>2. CASE status[task[w].order] \in Fulfilable
    <3>1. paidAt[task[w].order]
      BY <2>1, <2>2
    <3> QED
      BY <1>10, <2>1, <2>2, <3>1 DEF AlreadyProcessed
  <2>3. CASE status[task[w].order] \notin Fulfilable
    BY <1>10, <2>1, <2>3 DEF AlreadyProcessed
  <2> QED
    BY <2>2, <2>3
<1>11. ASSUME NEW w \in Workers, ExecuteFulfillment(w) PROVE Payment'
  BY <1>11, TaskType DEF ExecuteFulfillment
<1>12. ASSUME NEW w \in Workers, AcquireLease(w) PROVE Payment'
  <2>1. task[w].order \in Orders /\ paidAt[task[w].order] /\ upstream[task[w].order] = "paid"
    BY <1>12, TaskType DEF AcquireLease
  <2>2. CASE Leasable(task[w].order)
    BY <1>12, <2>1, <2>2 DEF AcquireLease
  <2>3. CASE ~Leasable(task[w].order)
    BY <1>12, <2>1, <2>3 DEF AcquireLease
  <2> QED
    BY <2>2, <2>3
<1>13. ASSUME NEW w \in Workers, ReloadLease(w) PROVE Payment'
  BY <1>13, TaskType DEF ReloadLease
<1>14. ASSUME NEW w \in Workers, LookupCode(w) PROVE Payment'
  BY <1>14, TaskType DEF LookupCode
<1>15. ASSUME NEW w \in Workers, CreateCode(w) PROVE Payment'
  BY <1>15, TaskType DEF CreateCode
<1>16. ASSUME NEW w \in Workers, Redeem(w) PROVE Payment'
  BY <1>16, TaskType DEF Redeem
<1>17. ASSUME NEW w \in Workers, CheckAssigned(w) PROVE Payment'
  BY <1>17, TaskType DEF CheckAssigned
<1>18. ASSUME NEW w \in Workers, GrantSubscription(w) PROVE Payment'
  <2>1. /\ task[w].order \in Orders /\ paidAt[task[w].order] /\ upstream[task[w].order] = "paid"
        /\ UNCHANGED <<rowVars, kind, due, upstream, task>>
    BY <1>18, TaskType DEF GrantSubscription
  <2>2. credits' = credits \/ credits' = [credits EXCEPT ![task[w].order] = @ + 1]
    BY <1>18 DEF GrantSubscription
  <2>3. \E next \in {"rebate", "fail"} : pc' = [pc EXCEPT ![w] = next]
    BY <1>18 DEF GrantSubscription
  <2> QED
    BY <2>1, <2>2, <2>3
<1>19. ASSUME NEW w \in Workers, ApplyRebate(w) PROVE Payment'
  BY <1>19, TaskType DEF ApplyRebate
<1>20. ASSUME NEW w \in Workers, MarkCompleted(w) PROVE Payment'
  BY <1>20, TaskType DEF MarkCompleted
<1>21. ASSUME NEW w \in Workers, NotifySuccess(w) PROVE Payment'
  BY <1>21, TaskType DEF NotifySuccess
<1>22. ASSUME NEW w \in Workers, MarkFailed(w) PROVE Payment'
  BY <1>22, TaskType DEF MarkFailed
<1>23. ASSUME NEW w \in Workers, FulfilmentError(w) PROVE Payment'
  BY <1>23, TaskType DEF FulfilmentError
<1>24. ASSUME NEW w \in Workers, Abort(w) PROVE Payment'
  BY <1>24, TaskType DEF Abort
<1>37. ASSUME NEW w \in Workers, LookupError(w) PROVE Payment'
  BY <1>37, TaskType DEF LookupError
<1>38. ASSUME NEW w \in Workers, IgnoreFailedLookup(w) PROVE Payment'
  BY <1>38, TaskType DEF IgnoreFailedLookup
<1>25. ASSUME NEW w \in Workers, NEW o \in Orders, CreateOrder(w, o) PROVE Payment'
  BY <1>25, TaskType DEF CreateOrder
<1>26. ASSUME NEW w \in Workers, NEW o \in Orders, Webhook(w, o) PROVE Payment'
  BY <1>26, TaskType DEF Webhook
<1>27. ASSUME NEW w \in Workers, NEW o \in Orders, Cancel(w, o) PROVE Payment'
  BY <1>27, TaskType DEF Cancel
<1>28. ASSUME NEW w \in Workers, NEW o \in Orders, Expire(w, o) PROVE Payment'
  BY <1>28, TaskType DEF Expire
<1>29. ASSUME NEW w \in Workers, NEW o \in Orders, Verify(w, o) PROVE Payment'
  BY <1>29, TaskType DEF Verify
<1>30. ASSUME NEW w \in Workers, NEW o \in Orders, Reconcile(w, o) PROVE Payment'
  BY <1>30, TaskType DEF Reconcile
<1>31. ASSUME NEW w \in Workers, NEW o \in Orders, RetryFulfillment(w, o) PROVE Payment'
  BY <1>31, TaskType DEF RetryFulfillment
<1>32. ASSUME NEW o \in Orders, Pay(o) PROVE Payment'
  BY <1>32, TaskType DEF Pay
<1>33. ASSUME NEW o \in Orders, Age(o) PROVE Payment'
  BY <1>33, TaskType DEF Age
<1>34. ASSUME NEW o \in Orders, ReachDeadline(o) PROVE Payment'
  BY <1>34, TaskType DEF ReachDeadline
<1>35. ASSUME NEW o \in Orders, RefundUpdate(o) PROVE Payment'
  BY <1>35, TaskType DEF RefundUpdate
<1>36. CASE UNCHANGED vars
  BY <1>36, TaskType DEF vars
<1> QED
  BY <1>1, <1>2, <1>3, <1>4, <1>5, <1>6, <1>7, <1>8, <1>9, <1>10, <1>11,
     <1>12, <1>13, <1>14, <1>15, <1>16, <1>17, <1>18, <1>19, <1>20, <1>21,
     <1>22, <1>23, <1>24, <1>25, <1>26, <1>27, <1>28, <1>29, <1>30, <1>31,
     <1>32, <1>33, <1>34, <1>35, <1>36, <1>37, <1>38
  DEF Next, Handle, Call, Fault, Outside

LEMMA SettlingStep == TypeOK /\ Payment /\ Settling /\ [Next]_vars => Settling'
<1> SUFFICES ASSUME TypeOK, Payment, Settling, [Next]_vars PROVE Settling'
  OBVIOUS
<1> USE DEF TypeOK, Task, Settling, Answering, Notifying, Payable, Leasable, OwnsLease, FulfilSteps, Delivered, Fulfilable,
            Save, Go, Start, Return, At, rowVars, effectVars
<1>1. ASSUME NEW w \in Workers, InvokeProvider(w) PROVE Settling'
  BY <1>1, TaskType DEF InvokeProvider
<1>2. ASSUME NEW w \in Workers, InvokeProviderFails(w) PROVE Settling'
  BY <1>2, TaskType DEF InvokeProviderFails, Payment, Recorded, WorkerRecorded
<1>3. ASSUME NEW w \in Workers, QueryPaid(w) PROVE Settling'
  BY <1>3, TaskType DEF QueryPaid
<1>4. ASSUME NEW w \in Workers, PersistTradeNo(w) PROVE Settling'
  BY <1>4, TaskType DEF PersistTradeNo
<1>5. ASSUME NEW w \in Workers, QueryUnpaid(w) PROVE Settling'
  BY <1>5, TaskType DEF QueryUnpaid
<1>6. ASSUME NEW w \in Workers, QueryGivesNothing(w) PROVE Settling'
  BY <1>6, TaskType DEF QueryGivesNothing
<1>7. ASSUME NEW w \in Workers, CloseUpstream(w) PROVE Settling'
  BY <1>7, TaskType DEF CloseUpstream
<1>8. ASSUME NEW w \in Workers, CancelCore(w) PROVE Settling'
  BY <1>8, TaskType DEF CancelCore
<1>9. ASSUME NEW w \in Workers, ToPaid(w) PROVE Settling'
  BY <1>9, TaskType DEF ToPaid
<1>10. ASSUME NEW w \in Workers, AlreadyProcessed(w) PROVE Settling'
  BY <1>10, TaskType DEF AlreadyProcessed
<1>11. ASSUME NEW w \in Workers, ExecuteFulfillment(w) PROVE Settling'
  <2>1. task[w].order \in Orders /\ UNCHANGED <<status, mails>>
    BY <1>11, TaskType DEF ExecuteFulfillment
  <2>2. /\ pc' \in {[pc EXCEPT ![w] = "lease"], [pc EXCEPT ![w] = "idle"]}
        /\ \A v \in Workers \ {w} : task'[v] = task[v]
        /\ pc'[w] # "idle" => task'[w] = task[w]
    BY <1>11 DEF ExecuteFulfillment
  <2>3. pc[w] # "idle"
    BY <1>11 DEF ExecuteFulfillment
  <2> QED
    BY <2>1, <2>2, <2>3
<1>12. ASSUME NEW w \in Workers, AcquireLease(w) PROVE Settling'
  <2>1. task[w].order \in Orders /\ UNCHANGED mails
    BY <1>12, TaskType DEF AcquireLease
  <2>2. /\ pc' \in {[pc EXCEPT ![w] = "reload"], [pc EXCEPT ![w] = "idle"]}
        /\ \A v \in Workers \ {w} : task'[v] = task[v]
        /\ pc'[w] # "idle" => task'[w] = task[w]
    BY <1>12 DEF AcquireLease
  <2>3. \/ UNCHANGED status
        \/ /\ status[task[w].order] \in {"PAID", "FAILED", "RECHARGING"}
           /\ status' = [status EXCEPT ![task[w].order] = "RECHARGING"]
    BY <1>12, <2>1 DEF AcquireLease
  <2>4. pc[w] # "idle"
    BY <1>12 DEF AcquireLease
  <2>5. Answering'
    <3>1. /\ pc'[w] \in {"reload", "idle"} /\ task[w] \in Task
          /\ \A v \in Workers \ {w} : pc'[v] = pc[v]
      BY <1>12, <2>2, TaskType DEF AcquireLease
    <3>2. status[task[w].order] # "NONE"
      BY <2>4
    <3>3. CASE UNCHANGED status
      BY <2>1, <2>2, <2>4, <3>1, <3>2, <3>3
    <3>4. CASE status' = [status EXCEPT ![task[w].order] = "RECHARGING"]
      <4>1. \A o \in Orders : status'[o] = status[o] \/ status'[o] = "RECHARGING"
        BY <2>1, <3>4
      <4>2. \A o \in Orders : status'[o] \in Delivered <=> status[o] \in Delivered
        BY <2>1, <2>3, <3>4
      <4> QED
        BY <2>2, <2>4, <3>1, <3>2, <4>1, <4>2
    <3> QED
      BY <2>3, <3>3, <3>4
  <2>6. Notifying'
    <3>1. \A o \in Orders : status[o] \in Delivered => status'[o] \in Delivered
      BY <2>1, <2>3
    <3>2. /\ pc'[w] # "notify"
          /\ \A v \in Workers \ {w} : pc'[v] = pc[v]
      BY <2>2
    <3> QED
      BY <2>1, <2>2, <3>1, <3>2
  <2> QED
    BY <2>5, <2>6
<1>13. ASSUME NEW w \in Workers, ReloadLease(w) PROVE Settling'
  <2>1. UNCHANGED <<status, mails>>
    BY <1>13 DEF ReloadLease
  <2>2. /\ pc' \in {[pc EXCEPT ![w] = "lookup"], [pc EXCEPT ![w] = "assign"],
                    [pc EXCEPT ![w] = "idle"]}
        /\ \A v \in Workers \ {w} : task'[v] = task[v]
        /\ pc'[w] # "idle" => task'[w] = task[w]
    BY <1>13 DEF ReloadLease
  <2>3. pc[w] = "reload"
    BY <1>13 DEF ReloadLease
  <2> QED
    BY <2>1, <2>2, <2>3
<1>14. ASSUME NEW w \in Workers, LookupCode(w) PROVE Settling'
  BY <1>14, TaskType DEF LookupCode
<1>15. ASSUME NEW w \in Workers, CreateCode(w) PROVE Settling'
  BY <1>15, TaskType DEF CreateCode
<1>16. ASSUME NEW w \in Workers, Redeem(w) PROVE Settling'
  BY <1>16, TaskType DEF Redeem
<1>17. ASSUME NEW w \in Workers, CheckAssigned(w) PROVE Settling'
  BY <1>17, TaskType DEF CheckAssigned
<1>18. ASSUME NEW w \in Workers, GrantSubscription(w) PROVE Settling'
  BY <1>18, TaskType DEF GrantSubscription
<1>19. ASSUME NEW w \in Workers, ApplyRebate(w) PROVE Settling'
  BY <1>19, TaskType DEF ApplyRebate
<1>20. ASSUME NEW w \in Workers, MarkCompleted(w) PROVE Settling'
  BY <1>20, TaskType DEF MarkCompleted
<1>21. ASSUME NEW w \in Workers, NotifySuccess(w) PROVE Settling'
  <2> DEFINE o == task[w].order
  <2>1. o \in Orders /\ UNCHANGED status /\ mails[o] = 0 /\ status[o] \in Delivered
    BY <1>21, TaskType DEF NotifySuccess
  <2>2. /\ pc' = [pc EXCEPT ![w] = "idle"]
        /\ \A v \in Workers \ {w} : task'[v] = task[v]
    BY <1>21 DEF NotifySuccess
  <2>3. mails' \in {mails, [mails EXCEPT ![o] = 1]}
    BY <1>21, <2>1 DEF NotifySuccess
  <2>4. \A v \in Workers \ {w} : pc[v] = "notify" => task[v].order # o
    BY <1>21 DEF NotifySuccess
  <2>5. Answering'
    BY <2>1, <2>2
  <2>6. Notifying'
    BY <2>1, <2>2, <2>3, <2>4
  <2> QED
    BY <2>5, <2>6
<1>22. ASSUME NEW w \in Workers, MarkFailed(w) PROVE Settling'
  BY <1>22, TaskType DEF MarkFailed
<1>23. ASSUME NEW w \in Workers, FulfilmentError(w) PROVE Settling'
  BY <1>23, TaskType DEF FulfilmentError
<1>24. ASSUME NEW w \in Workers, Abort(w) PROVE Settling'
  BY <1>24, TaskType DEF Abort
<1>37. ASSUME NEW w \in Workers, LookupError(w) PROVE Settling'
  BY <1>37, TaskType DEF LookupError
<1>38. ASSUME NEW w \in Workers, IgnoreFailedLookup(w) PROVE Settling'
  BY <1>38, TaskType DEF IgnoreFailedLookup
<1>25. ASSUME NEW w \in Workers, NEW o \in Orders, CreateOrder(w, o) PROVE Settling'
  BY <1>25, TaskType DEF CreateOrder
<1>26. ASSUME NEW w \in Workers, NEW o \in Orders, Webhook(w, o) PROVE Settling'
  BY <1>26, TaskType DEF Webhook, Payment, Recorded, WorkerRecorded
<1>27. ASSUME NEW w \in Workers, NEW o \in Orders, Cancel(w, o) PROVE Settling'
  BY <1>27, TaskType DEF Cancel
<1>28. ASSUME NEW w \in Workers, NEW o \in Orders, Expire(w, o) PROVE Settling'
  BY <1>28, TaskType DEF Expire
<1>29. ASSUME NEW w \in Workers, NEW o \in Orders, Verify(w, o) PROVE Settling'
  BY <1>29, TaskType DEF Verify
<1>30. ASSUME NEW w \in Workers, NEW o \in Orders, Reconcile(w, o) PROVE Settling'
  BY <1>30, TaskType DEF Reconcile
<1>31. ASSUME NEW w \in Workers, NEW o \in Orders, RetryFulfillment(w, o) PROVE Settling'
  BY <1>31, TaskType DEF RetryFulfillment
<1>32. ASSUME NEW o \in Orders, Pay(o) PROVE Settling'
  BY <1>32, TaskType DEF Pay
<1>33. ASSUME NEW o \in Orders, Age(o) PROVE Settling'
  BY <1>33, TaskType DEF Age
<1>34. ASSUME NEW o \in Orders, ReachDeadline(o) PROVE Settling'
  BY <1>34, TaskType DEF ReachDeadline
<1>35. ASSUME NEW o \in Orders, RefundUpdate(o) PROVE Settling'
  BY <1>35, TaskType DEF RefundUpdate
<1>36. CASE UNCHANGED vars
  BY <1>36, TaskType DEF vars
<1> QED
  BY <1>1, <1>2, <1>3, <1>4, <1>5, <1>6, <1>7, <1>8, <1>9, <1>10, <1>11,
     <1>12, <1>13, <1>14, <1>15, <1>16, <1>17, <1>18, <1>19, <1>20, <1>21,
     <1>22, <1>23, <1>24, <1>25, <1>26, <1>27, <1>28, <1>29, <1>30, <1>31,
     <1>32, <1>33, <1>34, <1>35, <1>36, <1>37, <1>38
  DEF Next, Handle, Call, Fault, Outside

-----------------------------------------------------------------------------
(* The invariant, and what follows from it. *)

Inv == TypeOK /\ Booking /\ Payment /\ Settling

LEMMA Invariance == Spec => []Inv
<1>1. Init => Inv
  BY DEF Init, Inv, TypeOK, Booking, Booked, WorkerBooked, Payment, Recorded,
         WorkerRecorded, Settling, Answering, Notifying, Mark, Status, Steps, FulfilSteps, Delivered
<1>2. Inv /\ [Next]_vars => Inv'
  BY TypeStep, BookingStep, PaymentStep, SettlingStep DEF Inv
<1> QED
  BY <1>1, <1>2, PTL DEF Spec

\* Nothing is booked twice, whatever workers run and wherever they stop.
THEOREM AtMostOnce == Spec => []DeliveredAtMostOnce
<1>1. Inv => DeliveredAtMostOnce
  BY DEF Inv, TypeOK, Booking, Booked, Mark, DeliveredAtMostOnce
<1> QED
  BY <1>1, Invariance, PTL

\* A completed or refundable order was credited and its rebate booked.
THEOREM CompletedDelivered == Spec => []CompletedMeansDelivered
<1>1. Inv => CompletedMeansDelivered
  BY DEF Inv, Booking, Booked, CompletedMeansDelivered
<1> QED
  BY <1>1, Invariance, PTL

\* Nothing is credited without the money.
THEOREM PaidDelivered == Spec => []DeliveredOnlyIfPaid
<1>1. Inv => DeliveredOnlyIfPaid
  BY DEF Inv, Payment, Recorded, DeliveredOnlyIfPaid
<1> QED
  BY <1>1, Invariance, PTL

\* A success notification follows a delivery and is not repeated.
THEOREM NotifiedDelivered == Spec => []NotifiedAfterDelivery
<1>1. Inv => NotifiedAfterDelivery
  BY DEF Inv, TypeOK, Booking, Booked, Settling, Notifying, NotifiedAfterDelivery
<1> QED
  BY <1>1, Invariance, PTL

-----------------------------------------------------------------------------
(* What may be acknowledged. *)

AckSettled ==
  \A o \in Orders : ~acked[o] /\ acked'[o] =>
    \/ status[o] \in Delivered \cup {"EXPIRED"}
    \/ \E w \in Workers : At(w, "lookupFailed") /\ task[w].order = o

LEMMA AckReturn ==
  ASSUME TypeOK, NEW w \in Workers, NEW ok \in BOOLEAN, pc[w] # "idle", Return(w, ok),
         ok => \/ status[task[w].order] \in Delivered \cup {"EXPIRED"}
               \/ pc[w] = "lookupFailed"
  PROVE  AckSettled
BY TaskType DEF Return, AckSettled, TypeOK, At

LEMMA AckStep == Inv /\ [Next]_vars => AckSettled
<1> SUFFICES ASSUME Inv, [Next]_vars PROVE AckSettled
  OBVIOUS
<1> USE DEF AckSettled
<1>1. ASSUME NEW w \in Workers, InvokeProvider(w) PROVE AckSettled
  BY <1>1 DEF InvokeProvider, Return, At, Inv, Settling, Answering
<1>2. ASSUME NEW w \in Workers, InvokeProviderFails(w) PROVE AckSettled
  BY <1>2 DEF InvokeProviderFails, Return, Go
<1>3. ASSUME NEW w \in Workers, QueryPaid(w) PROVE AckSettled
  BY <1>3 DEF QueryPaid
<1>4. ASSUME NEW w \in Workers, PersistTradeNo(w) PROVE AckSettled
  BY <1>4 DEF PersistTradeNo
<1>5. ASSUME NEW w \in Workers, QueryUnpaid(w) PROVE AckSettled
  BY <1>5 DEF QueryUnpaid
<1>6. ASSUME NEW w \in Workers, QueryGivesNothing(w) PROVE AckSettled
  BY <1>6 DEF QueryGivesNothing, Return
<1>7. ASSUME NEW w \in Workers, CloseUpstream(w) PROVE AckSettled
  BY <1>7 DEF CloseUpstream
<1>8. ASSUME NEW w \in Workers, CancelCore(w) PROVE AckSettled
  BY <1>8 DEF CancelCore, Return, At, Inv, Settling, Answering
<1>9. ASSUME NEW w \in Workers, ToPaid(w) PROVE AckSettled
  BY <1>9 DEF ToPaid
<1>10. ASSUME NEW w \in Workers, AlreadyProcessed(w) PROVE AckSettled
  <2>1. pc[w] = "recheck" /\ task[w].order \in Orders
    BY <1>10, TaskType DEF AlreadyProcessed, At, Inv
  <2>2. status[task[w].order] \notin {"NONE", "PENDING", "CANCELLED"}
    BY <2>1 DEF Inv, Settling, Answering
  <2>3. \/ UNCHANGED acked
        \/ status[task[w].order] \notin Fulfilable /\ Return(w, TRUE)
    BY <1>10 DEF AlreadyProcessed
  <2>4. status[task[w].order] \in Status
    BY <2>1 DEF Inv, TypeOK
  <2> QED
    BY <2>1, <2>2, <2>3, <2>4, AckReturn DEF Inv, Status, Fulfilable, Delivered
<1>11. ASSUME NEW w \in Workers, ExecuteFulfillment(w) PROVE AckSettled
  <2>1. /\ pc[w] # "idle"
        /\ \/ UNCHANGED acked
           \/ Return(w, status[task[w].order] = "COMPLETED")
    BY <1>11 DEF ExecuteFulfillment, At
  <2> QED
    BY <2>1, AckReturn DEF Inv, Delivered
<1>12. ASSUME NEW w \in Workers, AcquireLease(w) PROVE AckSettled
  <2>1. /\ pc[w] # "idle"
        /\ \/ UNCHANGED acked
           \/ Return(w, status[task[w].order] = "COMPLETED")
    BY <1>12 DEF AcquireLease, At
  <2> QED
    BY <2>1, AckReturn DEF Inv, Delivered
<1>13. ASSUME NEW w \in Workers, ReloadLease(w) PROVE AckSettled
  BY <1>13 DEF ReloadLease, Return, Go
<1>14. ASSUME NEW w \in Workers, LookupCode(w) PROVE AckSettled
  BY <1>14 DEF LookupCode
<1>15. ASSUME NEW w \in Workers, CreateCode(w) PROVE AckSettled
  BY <1>15 DEF CreateCode
<1>16. ASSUME NEW w \in Workers, Redeem(w) PROVE AckSettled
  BY <1>16 DEF Redeem
<1>17. ASSUME NEW w \in Workers, CheckAssigned(w) PROVE AckSettled
  BY <1>17 DEF CheckAssigned
<1>18. ASSUME NEW w \in Workers, GrantSubscription(w) PROVE AckSettled
  BY <1>18 DEF GrantSubscription
<1>19. ASSUME NEW w \in Workers, ApplyRebate(w) PROVE AckSettled
  BY <1>19 DEF ApplyRebate
<1>20. ASSUME NEW w \in Workers, MarkCompleted(w) PROVE AckSettled
  <2>1. \/ UNCHANGED acked
        \/ status[task[w].order] = "COMPLETED" /\ Return(w, TRUE)
    BY <1>20 DEF MarkCompleted
  <2>2. pc[w] # "idle"
    BY <1>20 DEF MarkCompleted, At
  <2> QED
    BY <2>1, <2>2, AckReturn DEF Inv, Delivered
<1>21. ASSUME NEW w \in Workers, NotifySuccess(w) PROVE AckSettled
  <2>1. pc[w] = "notify" /\ Return(w, TRUE) /\ status[task[w].order] \in Delivered
    BY <1>21 DEF NotifySuccess, At, Inv, Settling, Answering
  <2> QED
    BY <2>1, AckReturn DEF Inv
<1>22. ASSUME NEW w \in Workers, MarkFailed(w) PROVE AckSettled
  BY <1>22 DEF MarkFailed, Return, Go
<1>23. ASSUME NEW w \in Workers, FulfilmentError(w) PROVE AckSettled
  BY <1>23 DEF FulfilmentError
<1>24. ASSUME NEW w \in Workers, Abort(w) PROVE AckSettled
  BY <1>24 DEF Abort, Return, Go
<1>37. ASSUME NEW w \in Workers, LookupError(w) PROVE AckSettled
  BY <1>37 DEF LookupError
<1>38. ASSUME NEW w \in Workers, IgnoreFailedLookup(w) PROVE AckSettled
  <2>1. pc[w] = "lookupFailed" /\ Return(w, TRUE)
    BY <1>38 DEF IgnoreFailedLookup, At
  <2> QED
    BY <2>1, AckReturn DEF Inv
<1>25. ASSUME NEW w \in Workers, NEW o \in Orders, CreateOrder(w, o) PROVE AckSettled
  BY <1>25 DEF CreateOrder
<1>26. ASSUME NEW w \in Workers, NEW o \in Orders, Webhook(w, o) PROVE AckSettled
  BY <1>26 DEF Webhook
<1>27. ASSUME NEW w \in Workers, NEW o \in Orders, Cancel(w, o) PROVE AckSettled
  BY <1>27 DEF Cancel
<1>28. ASSUME NEW w \in Workers, NEW o \in Orders, Expire(w, o) PROVE AckSettled
  BY <1>28 DEF Expire
<1>29. ASSUME NEW w \in Workers, NEW o \in Orders, Verify(w, o) PROVE AckSettled
  BY <1>29 DEF Verify
<1>30. ASSUME NEW w \in Workers, NEW o \in Orders, Reconcile(w, o) PROVE AckSettled
  BY <1>30 DEF Reconcile
<1>31. ASSUME NEW w \in Workers, NEW o \in Orders, RetryFulfillment(w, o) PROVE AckSettled
  BY <1>31 DEF RetryFulfillment
<1>32. ASSUME NEW o \in Orders, Pay(o) PROVE AckSettled
  BY <1>32 DEF Pay
<1>33. ASSUME NEW o \in Orders, Age(o) PROVE AckSettled
  BY <1>33 DEF Age
<1>34. ASSUME NEW o \in Orders, ReachDeadline(o) PROVE AckSettled
  BY <1>34 DEF ReachDeadline
<1>35. ASSUME NEW o \in Orders, RefundUpdate(o) PROVE AckSettled
  BY <1>35 DEF RefundUpdate
<1>36. CASE UNCHANGED vars
  BY <1>36 DEF vars
<1> QED
  BY <1>1, <1>2, <1>3, <1>4, <1>5, <1>6, <1>7, <1>8, <1>9, <1>10, <1>11,
     <1>12, <1>13, <1>14, <1>15, <1>16, <1>17, <1>18, <1>19, <1>20, <1>21,
     <1>22, <1>23, <1>24, <1>25, <1>26, <1>27, <1>28, <1>29, <1>30, <1>31,
     <1>32, <1>33, <1>34, <1>35, <1>36, <1>37, <1>38
  DEF Next, Handle, Call, Fault, Outside

\* Redelivery stops only for a delivered order or a refused late payment.
THEOREM AckedSettled == Spec => AckedOnlyWhenSettled
<1>1. Inv /\ [Next]_vars => [AckSettled]_vars
  BY AckStep
<1> QED
  BY <1>1, Invariance, PTL DEF Spec, AckedOnlyWhenSettled, AckSettled

-----------------------------------------------------------------------------
(* The service implements the ledger. *)

\* A step that books nothing, moves no order across COMPLETED and receives no
\* money does not show in the ledger.
LEMMA LedgerFrame ==
  ASSUME UNCHANGED credits,
         \A o \in Orders : /\ status'[o] \in Delivered <=> status[o] \in Delivered
                           /\ upstream'[o] = "paid" <=> upstream[o] = "paid"
  PROVE  UNCHANGED Ledger!ledgerVars
BY DEF LedgerPhase, Ledger!ledgerVars

LEMMA LedgerStep == Inv /\ [Next]_vars => [Ledger!LedgerNext]_(Ledger!ledgerVars)
<1> SUFFICES ASSUME Inv, [Next]_vars PROVE Ledger!LedgerNext \/ UNCHANGED Ledger!ledgerVars
  OBVIOUS
<1> DEFINE Quiet == UNCHANGED Ledger!ledgerVars
<1>1. ASSUME NEW w \in Workers, InvokeProvider(w) PROVE Quiet
  BY <1>1, TaskType, LedgerFrame DEF InvokeProvider, Save, At, Payable, Leasable, OwnsLease, Delivered,
     FulfilSteps, effectVars, rowVars, Inv, TypeOK, Payment, Recorded, WorkerRecorded
<1>2. ASSUME NEW w \in Workers, InvokeProviderFails(w) PROVE Quiet
  BY <1>2, TaskType, LedgerFrame DEF InvokeProviderFails, Save, At, Payable, Leasable, OwnsLease, Delivered,
     FulfilSteps, effectVars, rowVars, Inv, TypeOK, Payment, Recorded, WorkerRecorded
<1>3. ASSUME NEW w \in Workers, QueryPaid(w) PROVE Quiet
  BY <1>3, LedgerFrame DEF QueryPaid, effectVars, rowVars
<1>4. ASSUME NEW w \in Workers, PersistTradeNo(w) PROVE Quiet
  BY <1>4, TaskType, LedgerFrame DEF PersistTradeNo, Save, At, Payable, Leasable, OwnsLease, Delivered,
     FulfilSteps, effectVars, rowVars, Inv, TypeOK, Payment, Recorded, WorkerRecorded
<1>5. ASSUME NEW w \in Workers, QueryUnpaid(w) PROVE Quiet
  BY <1>5, LedgerFrame DEF QueryUnpaid, effectVars, rowVars
<1>6. ASSUME NEW w \in Workers, QueryGivesNothing(w) PROVE Quiet
  BY <1>6, LedgerFrame DEF QueryGivesNothing, effectVars, rowVars
<1>7. ASSUME NEW w \in Workers, CloseUpstream(w) PROVE Quiet
  BY <1>7, TaskType, LedgerFrame DEF CloseUpstream, Save, At, Payable, Leasable, OwnsLease, Delivered,
     FulfilSteps, effectVars, rowVars, Inv, TypeOK, Payment, Recorded, WorkerRecorded
<1>8. ASSUME NEW w \in Workers, CancelCore(w) PROVE Quiet
  BY <1>8, TaskType, LedgerFrame DEF CancelCore, Save, At, Payable, Leasable, OwnsLease, Delivered,
     FulfilSteps, effectVars, rowVars, Inv, TypeOK, Payment, Recorded, WorkerRecorded
<1>9. ASSUME NEW w \in Workers, ToPaid(w) PROVE Quiet
  BY <1>9, TaskType, LedgerFrame DEF ToPaid, Save, At, Payable, Leasable, OwnsLease, Delivered,
     FulfilSteps, effectVars, rowVars, Inv, TypeOK, Payment, Recorded, WorkerRecorded
<1>10. ASSUME NEW w \in Workers, AlreadyProcessed(w) PROVE Quiet
  BY <1>10, LedgerFrame DEF AlreadyProcessed, effectVars, rowVars
<1>11. ASSUME NEW w \in Workers, ExecuteFulfillment(w) PROVE Quiet
  BY <1>11, LedgerFrame DEF ExecuteFulfillment, effectVars, rowVars
<1>12. ASSUME NEW w \in Workers, AcquireLease(w) PROVE Quiet
  BY <1>12, TaskType, LedgerFrame DEF AcquireLease, Save, At, Payable, Leasable, OwnsLease, Delivered,
     FulfilSteps, effectVars, rowVars, Inv, TypeOK, Payment, Recorded, WorkerRecorded
<1>13. ASSUME NEW w \in Workers, ReloadLease(w) PROVE Quiet
  BY <1>13, LedgerFrame DEF ReloadLease, effectVars, rowVars
<1>14. ASSUME NEW w \in Workers, LookupCode(w) PROVE Quiet
  BY <1>14, LedgerFrame DEF LookupCode, effectVars, rowVars
<1>15. ASSUME NEW w \in Workers, CreateCode(w) PROVE Quiet
  BY <1>15, LedgerFrame DEF CreateCode, effectVars, rowVars
<1>16. ASSUME NEW w \in Workers, Redeem(w) PROVE Ledger!LedgerNext \/ Quiet
  <2> DEFINE o == task[w].order
  <2>1. CASE code[o] = "unused"
    <3>1. /\ o \in Orders /\ credits[o] = 0 /\ credits' = [credits EXCEPT ![o] = 1]
          /\ upstream[o] = "paid" /\ status[o] \notin Delivered
      BY <1>16, <2>1, TaskType DEF Redeem, At, FulfilSteps, Inv, TypeOK, Booking, Booked, WorkerBooked,
         Payment, Recorded, WorkerRecorded, Mark
    <3>2. UNCHANGED <<status, upstream>>
      BY <1>16 DEF Redeem, rowVars
    <3>3. Ledger!Deliver(o)
      BY <3>1, <3>2 DEF Ledger!Deliver, Ledger!Advance, LedgerPhase, Inv, TypeOK
    <3> QED
      BY <3>1, <3>3 DEF Ledger!LedgerNext
  <2>2. CASE code[o] # "unused"
    BY <1>16, <2>2, LedgerFrame DEF Redeem, rowVars
  <2> QED
    BY <2>1, <2>2
<1>17. ASSUME NEW w \in Workers, CheckAssigned(w) PROVE Quiet
  BY <1>17, LedgerFrame DEF CheckAssigned, effectVars, rowVars
<1>18. ASSUME NEW w \in Workers, GrantSubscription(w) PROVE Ledger!LedgerNext \/ Quiet
  <2> DEFINE o == task[w].order
  <2>1. CASE "ASSIGNED" \notin audit[o]
    <3>1. /\ o \in Orders /\ credits[o] = 0 /\ credits' = [credits EXCEPT ![o] = 1]
          /\ upstream[o] = "paid" /\ status[o] \notin Delivered
      BY <1>18, <2>1, TaskType DEF GrantSubscription, At, FulfilSteps, Inv, TypeOK, Booking, Booked,
         WorkerBooked, Payment, Recorded, WorkerRecorded, Mark
    <3>2. UNCHANGED <<status, upstream>>
      BY <1>18 DEF GrantSubscription, rowVars
    <3>3. Ledger!Deliver(o)
      BY <3>1, <3>2 DEF Ledger!Deliver, Ledger!Advance, LedgerPhase, Inv, TypeOK
    <3> QED
      BY <3>1, <3>3 DEF Ledger!LedgerNext
  <2>2. CASE "ASSIGNED" \in audit[o]
    BY <1>18, <2>2, LedgerFrame DEF GrantSubscription, rowVars
  <2> QED
    BY <2>1, <2>2
<1>19. ASSUME NEW w \in Workers, ApplyRebate(w) PROVE Quiet
  BY <1>19, LedgerFrame DEF ApplyRebate, effectVars, rowVars
<1>20. ASSUME NEW w \in Workers, MarkCompleted(w) PROVE Ledger!LedgerNext \/ Quiet
  <2> DEFINE o == task[w].order
  <2>1. CASE OwnsLease(w, o)
    <3>1. o \in Orders /\ credits[o] = 1 /\ status[o] \notin Delivered
      BY <1>20, <2>1, TaskType DEF MarkCompleted, At, OwnsLease, Delivered, Inv, Booking, WorkerBooked
    <3>2. status' = [status EXCEPT ![o] = "COMPLETED"] /\ UNCHANGED <<credits, upstream>>
      BY <1>20, <2>1 DEF MarkCompleted, Save, effectVars
    <3>3. Ledger!Close(o)
      BY <3>1, <3>2 DEF Ledger!Close, Ledger!Advance, LedgerPhase, Delivered, Inv, TypeOK
    <3> QED
      BY <3>1, <3>3 DEF Ledger!LedgerNext
  <2>2. CASE ~OwnsLease(w, o)
    BY <1>20, <2>2, LedgerFrame DEF MarkCompleted, effectVars
  <2> QED
    BY <2>1, <2>2
<1>21. ASSUME NEW w \in Workers, NotifySuccess(w) PROVE Quiet
  BY <1>21, LedgerFrame DEF NotifySuccess, effectVars, rowVars
<1>22. ASSUME NEW w \in Workers, MarkFailed(w) PROVE Quiet
  BY <1>22, TaskType, LedgerFrame DEF MarkFailed, Save, At, Payable, Leasable, OwnsLease, Delivered,
     FulfilSteps, effectVars, rowVars, Inv, TypeOK, Payment, Recorded, WorkerRecorded
<1>23. ASSUME NEW w \in Workers, FulfilmentError(w) PROVE Quiet
  BY <1>23, LedgerFrame DEF FulfilmentError, effectVars, rowVars
<1>24. ASSUME NEW w \in Workers, Abort(w) PROVE Quiet
  BY <1>24, LedgerFrame DEF Abort, effectVars, rowVars
<1>37. ASSUME NEW w \in Workers, LookupError(w) PROVE Quiet
  BY <1>37, LedgerFrame DEF LookupError, effectVars, rowVars
<1>38. ASSUME NEW w \in Workers, IgnoreFailedLookup(w) PROVE Quiet
  BY <1>38, LedgerFrame DEF IgnoreFailedLookup, effectVars, rowVars
<1>25. ASSUME NEW w \in Workers, NEW o \in Orders, CreateOrder(w, o) PROVE Quiet
  BY <1>25, TaskType, LedgerFrame DEF CreateOrder, Save, At, Payable, Leasable, OwnsLease, Delivered,
     FulfilSteps, effectVars, rowVars, Inv, TypeOK, Payment, Recorded, WorkerRecorded
<1>26. ASSUME NEW w \in Workers, NEW o \in Orders, Webhook(w, o) PROVE Quiet
  BY <1>26, LedgerFrame DEF Webhook, effectVars, rowVars
<1>27. ASSUME NEW w \in Workers, NEW o \in Orders, Cancel(w, o) PROVE Quiet
  BY <1>27, LedgerFrame DEF Cancel, effectVars, rowVars
<1>28. ASSUME NEW w \in Workers, NEW o \in Orders, Expire(w, o) PROVE Quiet
  BY <1>28, LedgerFrame DEF Expire, effectVars, rowVars
<1>29. ASSUME NEW w \in Workers, NEW o \in Orders, Verify(w, o) PROVE Quiet
  BY <1>29, LedgerFrame DEF Verify, effectVars, rowVars
<1>30. ASSUME NEW w \in Workers, NEW o \in Orders, Reconcile(w, o) PROVE Quiet
  BY <1>30, LedgerFrame DEF Reconcile, effectVars, rowVars
<1>31. ASSUME NEW w \in Workers, NEW o \in Orders, RetryFulfillment(w, o) PROVE Quiet
  BY <1>31, LedgerFrame DEF RetryFulfillment, effectVars, rowVars
<1>32. ASSUME NEW o \in Orders, Pay(o) PROVE Ledger!LedgerNext
  <2>1. upstream[o] # "paid" /\ credits[o] = 0 /\ status[o] \notin Delivered
    BY <1>32 DEF Pay, Inv, TypeOK, Payment, Recorded
  <2>2. upstream' = [upstream EXCEPT ![o] = "paid"] /\ UNCHANGED <<status, credits>>
    BY <1>32 DEF Pay, rowVars, effectVars
  <2>3. Ledger!ReceiveMoney(o)
    <3>1. LedgerPhase[o] = "unpaid"
      BY <2>1 DEF LedgerPhase
    <3>2. LedgerPhase'[o] = "paid"
      BY <2>1, <2>2 DEF LedgerPhase, Inv, TypeOK
    <3>3. \A p \in Orders \ {o} : LedgerPhase'[p] = LedgerPhase[p]
      BY <2>2 DEF LedgerPhase, Inv, TypeOK
    <3>4. LedgerPhase' = [LedgerPhase EXCEPT ![o] = "paid"]
      BY <3>2, <3>3 DEF LedgerPhase
    <3> QED
      BY <2>2, <3>1, <3>4 DEF Ledger!ReceiveMoney, Ledger!Advance
  <2> QED
    BY <2>3 DEF Ledger!LedgerNext
<1>33. ASSUME NEW o \in Orders, Age(o) PROVE Quiet
  BY <1>33, LedgerFrame DEF Age, effectVars, rowVars
<1>34. ASSUME NEW o \in Orders, ReachDeadline(o) PROVE Quiet
  BY <1>34, LedgerFrame DEF ReachDeadline, effectVars, rowVars
<1>35. ASSUME NEW o \in Orders, RefundUpdate(o) PROVE Quiet
  BY <1>35, TaskType, LedgerFrame DEF RefundUpdate, Save, At, Payable, Leasable, OwnsLease, Delivered,
     FulfilSteps, effectVars, rowVars, Inv, TypeOK, Payment, Recorded, WorkerRecorded
<1>36. CASE UNCHANGED vars
  BY <1>36 DEF vars, Ledger!ledgerVars, LedgerPhase
<1> QED
  BY <1>1, <1>2, <1>3, <1>4, <1>5, <1>6, <1>7, <1>8, <1>9, <1>10, <1>11,
     <1>12, <1>13, <1>14, <1>15, <1>16, <1>17, <1>18, <1>19, <1>20, <1>21,
     <1>22, <1>23, <1>24, <1>25, <1>26, <1>27, <1>28, <1>29, <1>30, <1>31,
     <1>32, <1>33, <1>34, <1>35, <1>36, <1>37, <1>38
  DEF Next, Handle, Call, Fault, Outside

\* Every behaviour of the service is a behaviour of the ledger.
THEOREM LedgerRefined == Spec => ImplementsLedger
<1>1. Init => Ledger!LedgerInit
  BY DEF Init, Ledger!LedgerInit, LedgerPhase, Delivered
<1> QED
  BY <1>1, LedgerStep, Invariance, PTL DEF Spec, ImplementsLedger, Ledger!LedgerSpec
=============================================================================
