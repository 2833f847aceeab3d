------------------------- MODULE PaymentRefundProofs -------------------------
(***************************************************************************)
(* Proofs that a refund takes the balance at most once, but for what lost  *)
(* answers took, and reports only what the provider paid, but for an order *)
(* without a trade number, and that a refunded order stays so, for any     *)
(* number of administrators, any amount and any balance.                   *)
(***************************************************************************)
EXTENDS PaymentRefund, TLAPS

\* The steps from the claim of an order to the write that ends its REFUNDING.
Owning == {"deduct", "gateway", "rollback", "rollbackAudit", "restore", "failed",
           "pending", "refunded"}

\* Unless the order has no trade number, a refund is reported, or about to be, only when
\* the provider paid it.
PaidOut ==
  /\ gateway = "paid" => paidOut
  /\ status = "REFUNDED" => paidOut \/ channel = "none"
  /\ \A w \in Admins : pc[w] \in {"refunded", "finalize"} => paidOut \/ channel = "none"

\* The steps that follow a mishap are not reached without one.
NoMishap ==
  mishaps = {} =>
    /\ gateway # "failed"
    /\ \A w \in Admins : pc[w] \notin {"rollbackAudit", "failed", "finalizeFailed"}

\* Without a mishap REFUNDING is a lock: one worker owns the order.
Exclusive ==
  mishaps = {} =>
    /\ \A w \in Admins : pc[w] \in Owning => status = "REFUNDING"
    /\ \A v, w \in Admins : pc[v] \in Owning /\ pc[w] \in Owning => v = w

\* Without a mishap the balance taken, beyond what lost answers took, is known from the
\* owner's step.
Accounted ==
  mishaps = {} =>
    /\ taken - lost \in 0..Amount
    /\ status \in Refundable => taken = lost
    /\ \A w \in Admins : pc[w] \in {"deduct", "restore", "pending"} => taken = lost
    /\ \A w \in Admins : pc[w] \in {"gateway", "rollback"} => taken - lost = plan[w].take

Inv == TypeOK /\ PaidOut /\ NoMishap /\ Exclusive /\ Accounted

-----------------------------------------------------------------------------
\* The invariant holds when the order is completed.
LEMMA InitInv == Init => Inv
PROOF
<1> SUFFICES ASSUME Init
             PROVE  Inv
  OBVIOUS
<1>1. TypeOK
  <2>1. balance \in Nat /\ taken \in Int /\ lost \in Nat
    BY AmountAssumption DEF Init
  <2>2. rollbackNoted \in BOOLEAN /\ paidOut \in BOOLEAN
    BY DEF Init
  <2>3. /\ pc \in [Admins -> Steps]
        /\ plan \in [Admins -> Plan \cup {NoPlan}]
        /\ \A w \in Admins : pc[w] # "idle" => plan[w] \in Plan
    BY DEF Init, Steps
  <2>4. QED
    BY <2>1, <2>2, <2>3 DEF Init, TypeOK, Status, Refundable
<1>2. PaidOut
  BY DEF Init, PaidOut
<1>3. NoMishap /\ Exclusive /\ Accounted
  BY AmountAssumption DEF Init, NoMishap, Exclusive, Accounted, Owning, Refundable
<1>4. QED
  BY <1>1, <1>2, <1>3 DEF Inv

\* Every step keeps the types.
LEMMA TypeStep ==
  ASSUME TypeOK, [Next]_vars
  PROVE  TypeOK'
PROOF
<1> USE AmountAssumption DEF TypeOK, Plan, Refundable, Status, Steps
<1>1. ASSUME NEW w \in Admins, PrepareRefund(w)
      PROVE  TypeOK'
  BY <1>1 DEF PrepareRefund, At, Go, GoWith, Return, Lesser, rowVars, moneyVars, gatewayVars
<1>2. ASSUME NEW w \in Admins, ClaimRefund(w)
      PROVE  TypeOK'
  BY <1>2 DEF ClaimRefund, At, Go, GoWith, Return, rowVars, moneyVars, gatewayVars
<1>3. ASSUME NEW w \in Admins, DeductBalance(w)
      PROVE  TypeOK'
  BY <1>3 DEF DeductBalance, At, Go, GoWith, Return, Deduct, Lesser, rowVars, moneyVars,
     gatewayVars
<1>4. ASSUME NEW w \in Admins, DeductError(w)
      PROVE  TypeOK'
  BY <1>4 DEF DeductError, Deduct, Lesser, At, Go, GoWith, Return, rowVars, moneyVars,
     gatewayVars
<1>5. ASSUME NEW w \in Admins, CallGateway(w)
      PROVE  TypeOK'
  BY <1>5 DEF CallGateway, At, Go, GoWith, Return, rowVars, moneyVars, gatewayVars
<1>5a. ASSUME NEW w \in Admins, SkipGateway(w)
      PROVE  TypeOK'
  BY <1>5a DEF SkipGateway, At, Go, GoWith, Return, rowVars, moneyVars, gatewayVars
<1>6. ASSUME NEW w \in Admins, CallGatewayFails(w)
      PROVE  TypeOK'
  BY <1>6 DEF CallGatewayFails, At, Go, GoWith, Return, rowVars, moneyVars, gatewayVars
<1>7. ASSUME NEW w \in Admins, RollbackRefund(w)
      PROVE  TypeOK'
  <2>1. pc[w] = "rollback" /\ plan[w] \in Plan
    BY <1>7 DEF RollbackRefund, At
  <2>2. balance' \in Nat /\ taken' \in Int
    BY <1>7, <2>1 DEF RollbackRefund
  <2>3. AfterRollback(w, TRUE) \in {"pending", "restore"}
    BY DEF AfterRollback
  <2>4. [plan[w] EXCEPT !.undone = TRUE] \in Plan
    BY <2>1
  <2>5. /\ pc' \in [Admins -> Steps]
        /\ plan' \in [Admins -> Plan \cup {NoPlan}]
        /\ \A v \in Admins : pc'[v] # "idle" => plan'[v] \in Plan
    <3> HIDE DEF Plan
    <3> QED
      BY <1>7, <2>3, <2>4 DEF RollbackRefund, GoWith
  <2> QED
    BY <1>7, <2>2, <2>5 DEF RollbackRefund, rowVars, gatewayVars
<1>8. ASSUME NEW w \in Admins, RollbackError(w)
      PROVE  TypeOK'
  BY <1>8 DEF RollbackError, At, Go, GoWith, Return, rowVars, moneyVars, gatewayVars
<1>9. ASSUME NEW w \in Admins, NoteRollbackError(w)
      PROVE  TypeOK'
  BY <1>9 DEF NoteRollbackError, At, Go, GoWith, Return, AfterRollback, Write, rowVars,
     moneyVars, gatewayVars
<1>10. ASSUME NEW w \in Admins, RestoreStatus(w)
      PROVE  TypeOK'
  BY <1>10 DEF RestoreStatus, At, Go, GoWith, Return, rowVars, moneyVars, gatewayVars
<1>11. ASSUME NEW w \in Admins, MarkRefundFailed(w)
      PROVE  TypeOK'
  BY <1>11 DEF MarkRefundFailed, At, Go, GoWith, Return, rowVars, moneyVars, gatewayVars
<1>12. ASSUME NEW w \in Admins, MarkRefundPending(w)
      PROVE  TypeOK'
  BY <1>12 DEF MarkRefundPending, At, Go, GoWith, Return, rowVars, moneyVars, gatewayVars
<1>13. ASSUME NEW w \in Admins, NoteRefundPending(w)
      PROVE  TypeOK'
  BY <1>13 DEF NoteRefundPending, At, Go, GoWith, Return, Write, rowVars, moneyVars,
     gatewayVars
<1>14. ASSUME NEW w \in Admins, MarkRefundOk(w)
      PROVE  TypeOK'
  BY <1>14 DEF MarkRefundOk, At, Go, GoWith, Return, rowVars, moneyVars, gatewayVars
<1>15. ASSUME NEW w \in Admins, NoteRefundOk(w)
      PROVE  TypeOK'
  BY <1>15 DEF NoteRefundOk, At, Go, GoWith, Return, Write, rowVars, moneyVars, gatewayVars
<1>16. ASSUME NEW w \in Admins, QueryRefund(w)
      PROVE  TypeOK'
  BY <1>16 DEF QueryRefund, At, Go, GoWith, Return, rowVars, moneyVars, gatewayVars
<1>17. ASSUME NEW w \in Admins, QueryAnswered(w)
      PROVE  TypeOK'
  BY <1>17 DEF QueryAnswered, At, Go, GoWith, Return, rowVars, moneyVars, gatewayVars
<1>18. ASSUME NEW w \in Admins, FinalizeRefund(w)
      PROVE  TypeOK'
  <2>1. plan[w].take \in 0..Amount
    BY <1>18 DEF FinalizeRefund, At
  <2>2. balance' \in Nat /\ taken' \in Int /\ lost' \in Nat
    BY <1>18, <2>1 DEF FinalizeRefund, Deduct, Lesser, moneyVars
  <2> QED
    BY <1>18, <2>2 DEF FinalizeRefund, At, GoWith, Return, gatewayVars
<1>19. ASSUME NEW w \in Admins, FinalizeRefundFailed(w)
      PROVE  TypeOK'
  BY <1>19 DEF FinalizeRefundFailed, At, Go, GoWith, Return, rowVars, moneyVars, gatewayVars
<1>20. ASSUME NEW w \in Admins, Abort(w)
      PROVE  TypeOK'
  BY <1>20 DEF Abort, At, Go, GoWith, Return, rowVars, moneyVars, gatewayVars
<1>21. CASE RequestRefund
  BY <1>21 DEF RequestRefund, rowVars, moneyVars, gatewayVars, workVars
<1>22. CASE Settle
  BY <1>22 DEF Settle, rowVars, moneyVars, gatewayVars, workVars
<1>23. CASE Spend
  BY <1>23 DEF Spend, rowVars, moneyVars, gatewayVars, workVars
<1>24. CASE UNCHANGED vars
  BY <1>24 DEF vars
<1>25. QED
  BY <1>1, <1>2, <1>3, <1>4, <1>5, <1>5a, <1>6, <1>7, <1>8, <1>9, <1>10, <1>11, <1>12,
     <1>13, <1>14, <1>15, <1>16, <1>17, <1>18, <1>19, <1>20, <1>21, <1>22, <1>23, <1>24
  DEF Next

\* A paid refund stays paid, and nobody believes in one that is not.
LEMMA PaidOutStep ==
  ASSUME TypeOK, PaidOut, [Next]_vars
  PROVE  PaidOut'
PROOF
<1> USE AmountAssumption DEF TypeOK, PaidOut, Refundable
<1>1. ASSUME NEW w \in Admins, PrepareRefund(w)
      PROVE  PaidOut'
  BY <1>1 DEF PrepareRefund, At, Go, GoWith, Return, Lesser, rowVars, moneyVars, gatewayVars
<1>2. ASSUME NEW w \in Admins, ClaimRefund(w)
      PROVE  PaidOut'
  BY <1>2 DEF ClaimRefund, At, Go, GoWith, Return, rowVars, moneyVars, gatewayVars
<1>3. ASSUME NEW w \in Admins, DeductBalance(w)
      PROVE  PaidOut'
  BY <1>3 DEF DeductBalance, At, Go, GoWith, Return, Deduct, Lesser, rowVars, moneyVars,
     gatewayVars
<1>4. ASSUME NEW w \in Admins, DeductError(w)
      PROVE  PaidOut'
  BY <1>4 DEF DeductError, Deduct, Lesser, At, Go, GoWith, Return, rowVars, moneyVars,
     gatewayVars
<1>5. ASSUME NEW w \in Admins, CallGateway(w)
      PROVE  PaidOut'
  BY <1>5 DEF CallGateway, At, Go, GoWith, Return, rowVars, moneyVars, gatewayVars
<1>5a. ASSUME NEW w \in Admins, SkipGateway(w)
      PROVE  PaidOut'
  BY <1>5a DEF SkipGateway, At, Go, GoWith, Return, rowVars, moneyVars, gatewayVars
<1>6. ASSUME NEW w \in Admins, CallGatewayFails(w)
      PROVE  PaidOut'
  BY <1>6 DEF CallGatewayFails, At, Go, GoWith, Return, rowVars, moneyVars, gatewayVars
<1>7. ASSUME NEW w \in Admins, RollbackRefund(w)
      PROVE  PaidOut'
  BY <1>7 DEF RollbackRefund, At, Go, GoWith, Return, AfterRollback, rowVars, moneyVars,
     gatewayVars
<1>8. ASSUME NEW w \in Admins, RollbackError(w)
      PROVE  PaidOut'
  BY <1>8 DEF RollbackError, At, Go, GoWith, Return, rowVars, moneyVars, gatewayVars
<1>9. ASSUME NEW w \in Admins, NoteRollbackError(w)
      PROVE  PaidOut'
  BY <1>9 DEF NoteRollbackError, At, Go, GoWith, Return, AfterRollback, Write, rowVars,
     moneyVars, gatewayVars
<1>10. ASSUME NEW w \in Admins, RestoreStatus(w)
      PROVE  PaidOut'
  BY <1>10 DEF RestoreStatus, At, Go, GoWith, Return, rowVars, moneyVars, gatewayVars
<1>11. ASSUME NEW w \in Admins, MarkRefundFailed(w)
      PROVE  PaidOut'
  BY <1>11 DEF MarkRefundFailed, At, Go, GoWith, Return, rowVars, moneyVars, gatewayVars
<1>12. ASSUME NEW w \in Admins, MarkRefundPending(w)
      PROVE  PaidOut'
  BY <1>12 DEF MarkRefundPending, At, Go, GoWith, Return, rowVars, moneyVars, gatewayVars
<1>13. ASSUME NEW w \in Admins, NoteRefundPending(w)
      PROVE  PaidOut'
  BY <1>13 DEF NoteRefundPending, At, Go, GoWith, Return, Write, rowVars, moneyVars,
     gatewayVars
<1>14. ASSUME NEW w \in Admins, MarkRefundOk(w)
      PROVE  PaidOut'
  BY <1>14 DEF MarkRefundOk, At, Go, GoWith, Return, rowVars, moneyVars, gatewayVars
<1>15. ASSUME NEW w \in Admins, NoteRefundOk(w)
      PROVE  PaidOut'
  BY <1>15 DEF NoteRefundOk, At, Go, GoWith, Return, Write, rowVars, moneyVars, gatewayVars
<1>16. ASSUME NEW w \in Admins, QueryRefund(w)
      PROVE  PaidOut'
  BY <1>16 DEF QueryRefund, At, Go, GoWith, Return, rowVars, moneyVars, gatewayVars
<1>17. ASSUME NEW w \in Admins, QueryAnswered(w)
      PROVE  PaidOut'
  BY <1>17 DEF QueryAnswered, At, Go, GoWith, Return, rowVars, moneyVars, gatewayVars
<1>18. ASSUME NEW w \in Admins, FinalizeRefund(w)
      PROVE  PaidOut'
  BY <1>18 DEF FinalizeRefund, At, Go, GoWith, Return, Deduct, Lesser, rowVars,
     moneyVars, gatewayVars
<1>19. ASSUME NEW w \in Admins, FinalizeRefundFailed(w)
      PROVE  PaidOut'
  BY <1>19 DEF FinalizeRefundFailed, At, Go, GoWith, Return, rowVars, moneyVars, gatewayVars
<1>20. ASSUME NEW w \in Admins, Abort(w)
      PROVE  PaidOut'
  BY <1>20 DEF Abort, At, Go, GoWith, Return, rowVars, moneyVars, gatewayVars
<1>21. CASE RequestRefund
  BY <1>21 DEF RequestRefund, rowVars, moneyVars, gatewayVars, workVars
<1>22. CASE Settle
  BY <1>22 DEF Settle, rowVars, moneyVars, gatewayVars, workVars
<1>23. CASE Spend
  BY <1>23 DEF Spend, rowVars, moneyVars, gatewayVars, workVars
<1>24. CASE UNCHANGED vars
  BY <1>24 DEF vars
<1>25. QED
  BY <1>1, <1>2, <1>3, <1>4, <1>5, <1>5a, <1>6, <1>7, <1>8, <1>9, <1>10, <1>11, <1>12,
     <1>13, <1>14, <1>15, <1>16, <1>17, <1>18, <1>19, <1>20, <1>21, <1>22, <1>23, <1>24
  DEF Next

\* Only a mishap leads to the steps that follow one.
LEMMA NoMishapStep ==
  ASSUME TypeOK, NoMishap, [Next]_vars
  PROVE  NoMishap'
PROOF
<1> USE AmountAssumption DEF TypeOK, NoMishap
<1>1. ASSUME NEW w \in Admins, PrepareRefund(w)
      PROVE  NoMishap'
  BY <1>1 DEF PrepareRefund, At, Go, GoWith, Return, Lesser, rowVars, moneyVars, gatewayVars
<1>2. ASSUME NEW w \in Admins, ClaimRefund(w)
      PROVE  NoMishap'
  BY <1>2 DEF ClaimRefund, At, Go, GoWith, Return, rowVars, moneyVars, gatewayVars
<1>3. ASSUME NEW w \in Admins, DeductBalance(w)
      PROVE  NoMishap'
  BY <1>3 DEF DeductBalance, At, Go, GoWith, Return, Deduct, Lesser, rowVars, moneyVars,
     gatewayVars
<1>4. ASSUME NEW w \in Admins, DeductError(w)
      PROVE  NoMishap'
  BY <1>4 DEF DeductError, Deduct, Lesser, At, Go, GoWith, Return, rowVars, moneyVars,
     gatewayVars
<1>5. ASSUME NEW w \in Admins, CallGateway(w)
      PROVE  NoMishap'
  BY <1>5 DEF CallGateway, At, Go, GoWith, Return, rowVars, moneyVars, gatewayVars
<1>5a. ASSUME NEW w \in Admins, SkipGateway(w)
      PROVE  NoMishap'
  BY <1>5a DEF SkipGateway, At, Go, GoWith, Return, rowVars, moneyVars, gatewayVars
<1>6. ASSUME NEW w \in Admins, CallGatewayFails(w)
      PROVE  NoMishap'
  BY <1>6 DEF CallGatewayFails, At, Go, GoWith, Return, rowVars, moneyVars, gatewayVars
<1>7. ASSUME NEW w \in Admins, RollbackRefund(w)
      PROVE  NoMishap'
  BY <1>7 DEF RollbackRefund, At, Go, GoWith, Return, AfterRollback, rowVars, moneyVars,
     gatewayVars
<1>8. ASSUME NEW w \in Admins, RollbackError(w)
      PROVE  NoMishap'
  BY <1>8 DEF RollbackError, At, Go, GoWith, Return, rowVars, moneyVars, gatewayVars
<1>9. ASSUME NEW w \in Admins, NoteRollbackError(w)
      PROVE  NoMishap'
  BY <1>9 DEF NoteRollbackError, At, Go, GoWith, Return, AfterRollback, Write, rowVars,
     moneyVars, gatewayVars
<1>10. ASSUME NEW w \in Admins, RestoreStatus(w)
      PROVE  NoMishap'
  BY <1>10 DEF RestoreStatus, At, Go, GoWith, Return, rowVars, moneyVars, gatewayVars
<1>11. ASSUME NEW w \in Admins, MarkRefundFailed(w)
      PROVE  NoMishap'
  BY <1>11 DEF MarkRefundFailed, At, Go, GoWith, Return, rowVars, moneyVars, gatewayVars
<1>12. ASSUME NEW w \in Admins, MarkRefundPending(w)
      PROVE  NoMishap'
  BY <1>12 DEF MarkRefundPending, At, Go, GoWith, Return, rowVars, moneyVars, gatewayVars
<1>13. ASSUME NEW w \in Admins, NoteRefundPending(w)
      PROVE  NoMishap'
  BY <1>13 DEF NoteRefundPending, At, Go, GoWith, Return, Write, rowVars, moneyVars,
     gatewayVars
<1>14. ASSUME NEW w \in Admins, MarkRefundOk(w)
      PROVE  NoMishap'
  BY <1>14 DEF MarkRefundOk, At, Go, GoWith, Return, rowVars, moneyVars, gatewayVars
<1>15. ASSUME NEW w \in Admins, NoteRefundOk(w)
      PROVE  NoMishap'
  BY <1>15 DEF NoteRefundOk, At, Go, GoWith, Return, Write, rowVars, moneyVars, gatewayVars
<1>16. ASSUME NEW w \in Admins, QueryRefund(w)
      PROVE  NoMishap'
  BY <1>16 DEF QueryRefund, At, Go, GoWith, Return, rowVars, moneyVars, gatewayVars
<1>17. ASSUME NEW w \in Admins, QueryAnswered(w)
      PROVE  NoMishap'
  BY <1>17 DEF QueryAnswered, At, Go, GoWith, Return, rowVars, moneyVars, gatewayVars
<1>18. ASSUME NEW w \in Admins, FinalizeRefund(w)
      PROVE  NoMishap'
  BY <1>18 DEF FinalizeRefund, At, Go, GoWith, Return, Deduct, Lesser, rowVars,
     moneyVars, gatewayVars
<1>19. ASSUME NEW w \in Admins, FinalizeRefundFailed(w)
      PROVE  NoMishap'
  BY <1>19 DEF FinalizeRefundFailed, At, Go, GoWith, Return, rowVars, moneyVars, gatewayVars
<1>20. ASSUME NEW w \in Admins, Abort(w)
      PROVE  NoMishap'
  BY <1>20 DEF Abort, At, Go, GoWith, Return, rowVars, moneyVars, gatewayVars
<1>21. CASE RequestRefund
  BY <1>21 DEF RequestRefund, rowVars, moneyVars, gatewayVars, workVars
<1>22. CASE Settle
  BY <1>22 DEF Settle, rowVars, moneyVars, gatewayVars, workVars
<1>23. CASE Spend
  BY <1>23 DEF Spend, rowVars, moneyVars, gatewayVars, workVars
<1>24. CASE UNCHANGED vars
  BY <1>24 DEF vars
<1>25. QED
  BY <1>1, <1>2, <1>3, <1>4, <1>5, <1>5a, <1>6, <1>7, <1>8, <1>9, <1>10, <1>11, <1>12,
     <1>13, <1>14, <1>15, <1>16, <1>17, <1>18, <1>19, <1>20, <1>21, <1>22, <1>23, <1>24
  DEF Next

\* The claim admits one attempt at a time.
LEMMA ExclusiveStep ==
  ASSUME TypeOK, NoMishap, Exclusive, [Next]_vars
  PROVE  Exclusive'
PROOF
<1> USE AmountAssumption DEF TypeOK, NoMishap, Exclusive, Owning, Refundable
<1>1. ASSUME NEW w \in Admins, PrepareRefund(w)
      PROVE  Exclusive'
  BY <1>1 DEF PrepareRefund, At, Go, GoWith, Return, Lesser, rowVars, moneyVars, gatewayVars
<1>2. ASSUME NEW w \in Admins, ClaimRefund(w)
      PROVE  Exclusive'
  BY <1>2 DEF ClaimRefund, At, Go, GoWith, Return, rowVars, moneyVars, gatewayVars
<1>3. ASSUME NEW w \in Admins, DeductBalance(w)
      PROVE  Exclusive'
  BY <1>3 DEF DeductBalance, At, Go, GoWith, Return, Deduct, Lesser, rowVars, moneyVars,
     gatewayVars
<1>4. ASSUME NEW w \in Admins, DeductError(w)
      PROVE  Exclusive'
  BY <1>4 DEF DeductError, Deduct, Lesser, At, Go, GoWith, Return, rowVars, moneyVars,
     gatewayVars
<1>5. ASSUME NEW w \in Admins, CallGateway(w)
      PROVE  Exclusive'
  BY <1>5 DEF CallGateway, At, Go, GoWith, Return, rowVars, moneyVars, gatewayVars
<1>5a. ASSUME NEW w \in Admins, SkipGateway(w)
      PROVE  Exclusive'
  BY <1>5a DEF SkipGateway, At, Go, GoWith, Return, rowVars, moneyVars, gatewayVars
<1>6. ASSUME NEW w \in Admins, CallGatewayFails(w)
      PROVE  Exclusive'
  BY <1>6 DEF CallGatewayFails, At, Go, GoWith, Return, rowVars, moneyVars, gatewayVars
<1>7. ASSUME NEW w \in Admins, RollbackRefund(w)
      PROVE  Exclusive'
  BY <1>7 DEF RollbackRefund, At, Go, GoWith, Return, AfterRollback, rowVars, moneyVars,
     gatewayVars
<1>8. ASSUME NEW w \in Admins, RollbackError(w)
      PROVE  Exclusive'
  BY <1>8 DEF RollbackError, At, Go, GoWith, Return, rowVars, moneyVars, gatewayVars
<1>9. ASSUME NEW w \in Admins, NoteRollbackError(w)
      PROVE  Exclusive'
  BY <1>9 DEF NoteRollbackError, At, Go, GoWith, Return, AfterRollback, Write, rowVars,
     moneyVars, gatewayVars
<1>10. ASSUME NEW w \in Admins, RestoreStatus(w)
      PROVE  Exclusive'
  BY <1>10 DEF RestoreStatus, At, Go, GoWith, Return, rowVars, moneyVars, gatewayVars
<1>11. ASSUME NEW w \in Admins, MarkRefundFailed(w)
      PROVE  Exclusive'
  BY <1>11 DEF MarkRefundFailed, At, Go, GoWith, Return, rowVars, moneyVars, gatewayVars
<1>12. ASSUME NEW w \in Admins, MarkRefundPending(w)
      PROVE  Exclusive'
  BY <1>12 DEF MarkRefundPending, At, Go, GoWith, Return, rowVars, moneyVars, gatewayVars
<1>13. ASSUME NEW w \in Admins, NoteRefundPending(w)
      PROVE  Exclusive'
  BY <1>13 DEF NoteRefundPending, At, Go, GoWith, Return, Write, rowVars, moneyVars,
     gatewayVars
<1>14. ASSUME NEW w \in Admins, MarkRefundOk(w)
      PROVE  Exclusive'
  BY <1>14 DEF MarkRefundOk, At, Go, GoWith, Return, rowVars, moneyVars, gatewayVars
<1>15. ASSUME NEW w \in Admins, NoteRefundOk(w)
      PROVE  Exclusive'
  BY <1>15 DEF NoteRefundOk, At, Go, GoWith, Return, Write, rowVars, moneyVars, gatewayVars
<1>16. ASSUME NEW w \in Admins, QueryRefund(w)
      PROVE  Exclusive'
  BY <1>16 DEF QueryRefund, At, Go, GoWith, Return, rowVars, moneyVars, gatewayVars
<1>17. ASSUME NEW w \in Admins, QueryAnswered(w)
      PROVE  Exclusive'
  BY <1>17 DEF QueryAnswered, At, Go, GoWith, Return, rowVars, moneyVars, gatewayVars
<1>18. ASSUME NEW w \in Admins, FinalizeRefund(w)
      PROVE  Exclusive'
  BY <1>18 DEF FinalizeRefund, At, Go, GoWith, Return, Deduct, Lesser, rowVars,
     moneyVars, gatewayVars
<1>19. ASSUME NEW w \in Admins, FinalizeRefundFailed(w)
      PROVE  Exclusive'
  BY <1>19 DEF FinalizeRefundFailed, At, Go, GoWith, Return, rowVars, moneyVars, gatewayVars
<1>20. ASSUME NEW w \in Admins, Abort(w)
      PROVE  Exclusive'
  BY <1>20 DEF Abort, At, Go, GoWith, Return, rowVars, moneyVars, gatewayVars
<1>21. CASE RequestRefund
  BY <1>21 DEF RequestRefund, rowVars, moneyVars, gatewayVars, workVars
<1>22. CASE Settle
  BY <1>22 DEF Settle, rowVars, moneyVars, gatewayVars, workVars
<1>23. CASE Spend
  BY <1>23 DEF Spend, rowVars, moneyVars, gatewayVars, workVars
<1>24. CASE UNCHANGED vars
  BY <1>24 DEF vars
<1>25. QED
  BY <1>1, <1>2, <1>3, <1>4, <1>5, <1>5a, <1>6, <1>7, <1>8, <1>9, <1>10, <1>11, <1>12,
     <1>13, <1>14, <1>15, <1>16, <1>17, <1>18, <1>19, <1>20, <1>21, <1>22, <1>23, <1>24
  DEF Next

\* What is taken is what the attempt that owns the order took.
LEMMA AccountedStep ==
  ASSUME TypeOK, NoMishap, Exclusive, Accounted, [Next]_vars
  PROVE  Accounted'
PROOF
<1> USE AmountAssumption DEF TypeOK, NoMishap, Exclusive, Accounted, Owning, Plan, Refundable
<1>1. ASSUME NEW w \in Admins, PrepareRefund(w)
      PROVE  Accounted'
  BY <1>1 DEF PrepareRefund, At, Go, GoWith, Return, Lesser, rowVars, moneyVars, gatewayVars
<1>2. ASSUME NEW w \in Admins, ClaimRefund(w)
      PROVE  Accounted'
  BY <1>2 DEF ClaimRefund, At, Go, GoWith, Return, rowVars, moneyVars, gatewayVars
<1>3. ASSUME NEW w \in Admins, DeductBalance(w)
      PROVE  Accounted'
  BY <1>3 DEF DeductBalance, At, Go, GoWith, Return, Deduct, Lesser, rowVars, moneyVars,
     gatewayVars
<1>4. ASSUME NEW w \in Admins, DeductError(w)
      PROVE  Accounted'
  BY <1>4 DEF DeductError, Deduct, Lesser, At, Go, GoWith, Return, rowVars, moneyVars,
     gatewayVars
<1>5. ASSUME NEW w \in Admins, CallGateway(w)
      PROVE  Accounted'
  BY <1>5 DEF CallGateway, At, Go, GoWith, Return, rowVars, moneyVars, gatewayVars
<1>5a. ASSUME NEW w \in Admins, SkipGateway(w)
      PROVE  Accounted'
  BY <1>5a DEF SkipGateway, At, Go, GoWith, Return, rowVars, moneyVars, gatewayVars
<1>6. ASSUME NEW w \in Admins, CallGatewayFails(w)
      PROVE  Accounted'
  BY <1>6 DEF CallGatewayFails, At, Go, GoWith, Return, rowVars, moneyVars, gatewayVars
<1>7. ASSUME NEW w \in Admins, RollbackRefund(w)
      PROVE  Accounted'
  BY <1>7 DEF RollbackRefund, At, Go, GoWith, Return, AfterRollback, rowVars, moneyVars,
     gatewayVars
<1>8. ASSUME NEW w \in Admins, RollbackError(w)
      PROVE  Accounted'
  BY <1>8 DEF RollbackError, At, Go, GoWith, Return, rowVars, moneyVars, gatewayVars
<1>9. ASSUME NEW w \in Admins, NoteRollbackError(w)
      PROVE  Accounted'
  BY <1>9 DEF NoteRollbackError, At, Go, GoWith, Return, AfterRollback, Write, rowVars,
     moneyVars, gatewayVars
<1>10. ASSUME NEW w \in Admins, RestoreStatus(w)
      PROVE  Accounted'
  BY <1>10 DEF RestoreStatus, At, Go, GoWith, Return, rowVars, moneyVars, gatewayVars
<1>11. ASSUME NEW w \in Admins, MarkRefundFailed(w)
      PROVE  Accounted'
  BY <1>11 DEF MarkRefundFailed, At, Go, GoWith, Return, rowVars, moneyVars, gatewayVars
<1>12. ASSUME NEW w \in Admins, MarkRefundPending(w)
      PROVE  Accounted'
  BY <1>12 DEF MarkRefundPending, At, Go, GoWith, Return, rowVars, moneyVars, gatewayVars
<1>13. ASSUME NEW w \in Admins, NoteRefundPending(w)
      PROVE  Accounted'
  BY <1>13 DEF NoteRefundPending, At, Go, GoWith, Return, Write, rowVars, moneyVars,
     gatewayVars
<1>14. ASSUME NEW w \in Admins, MarkRefundOk(w)
      PROVE  Accounted'
  BY <1>14 DEF MarkRefundOk, At, Go, GoWith, Return, rowVars, moneyVars, gatewayVars
<1>15. ASSUME NEW w \in Admins, NoteRefundOk(w)
      PROVE  Accounted'
  BY <1>15 DEF NoteRefundOk, At, Go, GoWith, Return, Write, rowVars, moneyVars, gatewayVars
<1>16. ASSUME NEW w \in Admins, QueryRefund(w)
      PROVE  Accounted'
  BY <1>16 DEF QueryRefund, At, Go, GoWith, Return, rowVars, moneyVars, gatewayVars
<1>17. ASSUME NEW w \in Admins, QueryAnswered(w)
      PROVE  Accounted'
  BY <1>17 DEF QueryAnswered, At, Go, GoWith, Return, rowVars, moneyVars, gatewayVars
<1>18. ASSUME NEW w \in Admins, FinalizeRefund(w)
      PROVE  Accounted'
  BY <1>18 DEF FinalizeRefund, At, Go, GoWith, Return, Deduct, Lesser, rowVars,
     moneyVars, gatewayVars
<1>19. ASSUME NEW w \in Admins, FinalizeRefundFailed(w)
      PROVE  Accounted'
  BY <1>19 DEF FinalizeRefundFailed, At, Go, GoWith, Return, rowVars, moneyVars, gatewayVars
<1>20. ASSUME NEW w \in Admins, Abort(w)
      PROVE  Accounted'
  BY <1>20 DEF Abort, At, Go, GoWith, Return, rowVars, moneyVars, gatewayVars
<1>21. CASE RequestRefund
  BY <1>21 DEF RequestRefund, rowVars, moneyVars, gatewayVars, workVars
<1>22. CASE Settle
  BY <1>22 DEF Settle, rowVars, moneyVars, gatewayVars, workVars
<1>23. CASE Spend
  BY <1>23 DEF Spend, rowVars, moneyVars, gatewayVars, workVars
<1>24. CASE UNCHANGED vars
  BY <1>24 DEF vars
<1>25. QED
  BY <1>1, <1>2, <1>3, <1>4, <1>5, <1>5a, <1>6, <1>7, <1>8, <1>9, <1>10, <1>11, <1>12,
     <1>13, <1>14, <1>15, <1>16, <1>17, <1>18, <1>19, <1>20, <1>21, <1>22, <1>23, <1>24
  DEF Next
-----------------------------------------------------------------------------
\* The parts together are inductive.
LEMMA InvStep == Inv /\ [Next]_vars => Inv'
PROOF
  BY TypeStep, PaidOutStep, NoMishapStep, ExclusiveStep, AccountedStep DEF Inv

\* The inductive invariant of the refund.
THEOREM Invariance == Spec => []Inv
PROOF
  BY InitInv, InvStep, PTL DEF Spec

\* The types of rows, money and plans are preserved.
THEOREM TypeCorrect == Spec => []TypeOK
PROOF
<1>1. Inv => TypeOK
  BY DEF Inv
<1>2. QED
  BY Invariance, <1>1, PTL

\* An order with a trade number is reported REFUNDED only when the provider paid a
\* refund of it (finalizePendingRefundSuccess, markRefundOk).
THEOREM RefundedPaidOut == Spec => []RefundedMeansPaidOut
PROOF
<1>1. Inv => RefundedMeansPaidOut
  BY DEF Inv, PaidOut, RefundedMeansPaidOut
<1>2. QED
  BY Invariance, <1>1, PTL

\* Without a rollback that reported an error or a refund the provider declared failed,
\* no interleaving of attempts takes more than the amount, beyond what deductions took
\* whose answers were lost (ExecuteRefund, finalizePendingRefundSuccess).
THEOREM AtMostOnce == Spec => []TakenAtMostOnce
PROOF
<1>1. Inv => TakenAtMostOnce
  BY AmountAssumption DEF Inv, Accounted, TakenAtMostOnce
<1>2. QED
  BY Invariance, <1>1, PTL

\* Under the same condition balance stays taken only for a refund in progress or done,
\* or by a lost answer (handleGwFail, markRefundPending).
THEOREM OnlyForRefund == Spec => []TakenOnlyForRefund
PROOF
<1>1. Inv => TakenOnlyForRefund
  BY DEF Inv, TypeOK, Accounted, TakenOnlyForRefund, Status
<1>2. QED
  BY Invariance, <1>1, PTL
-----------------------------------------------------------------------------
\* Without a mishap whoever is about to write the row blindly owns the order, which
\* is REFUNDING then.
LEMMA RefundedStep ==
  ASSUME Inv, mishaps = {}, status = "REFUNDED", [Next]_vars
  PROVE  status' = "REFUNDED"
PROOF
<1>0. \A w \in Admins : pc[w] \notin {"restore", "failed", "pending", "finalizeFailed"}
  BY DEF Inv, NoMishap, Exclusive, Owning
<1> USE DEF At, rowVars
<1>1. ASSUME NEW w \in Admins, PrepareRefund(w)
      PROVE  status' = "REFUNDED"
  BY <1>1 DEF PrepareRefund, Refundable
<1>2. ASSUME NEW w \in Admins, ClaimRefund(w)
      PROVE  status' = "REFUNDED"
  BY <1>2 DEF ClaimRefund, Refundable
<1>3. ASSUME NEW w \in Admins, DeductBalance(w)
      PROVE  status' = "REFUNDED"
  BY <1>3 DEF DeductBalance
<1>4. ASSUME NEW w \in Admins, DeductError(w)
      PROVE  status' = "REFUNDED"
  BY <1>4 DEF DeductError
<1>5. ASSUME NEW w \in Admins, CallGateway(w)
      PROVE  status' = "REFUNDED"
  BY <1>5 DEF CallGateway
<1>5a. ASSUME NEW w \in Admins, SkipGateway(w)
      PROVE  status' = "REFUNDED"
  BY <1>5a DEF SkipGateway
<1>6. ASSUME NEW w \in Admins, CallGatewayFails(w)
      PROVE  status' = "REFUNDED"
  BY <1>6 DEF CallGatewayFails
<1>7. ASSUME NEW w \in Admins, RollbackRefund(w)
      PROVE  status' = "REFUNDED"
  BY <1>7 DEF RollbackRefund
<1>8. ASSUME NEW w \in Admins, RollbackError(w)
      PROVE  status' = "REFUNDED"
  BY <1>8 DEF RollbackError
<1>9. ASSUME NEW w \in Admins, NoteRollbackError(w)
      PROVE  status' = "REFUNDED"
  BY <1>9 DEF NoteRollbackError
<1>10. ASSUME NEW w \in Admins, RestoreStatus(w)
      PROVE  status' = "REFUNDED"
  BY <1>0, <1>10 DEF RestoreStatus
<1>11. ASSUME NEW w \in Admins, MarkRefundFailed(w)
      PROVE  status' = "REFUNDED"
  BY <1>0, <1>11 DEF MarkRefundFailed
<1>12. ASSUME NEW w \in Admins, MarkRefundPending(w)
      PROVE  status' = "REFUNDED"
  BY <1>0, <1>12 DEF MarkRefundPending
<1>13. ASSUME NEW w \in Admins, NoteRefundPending(w)
      PROVE  status' = "REFUNDED"
  BY <1>13 DEF NoteRefundPending
<1>14. ASSUME NEW w \in Admins, MarkRefundOk(w)
      PROVE  status' = "REFUNDED"
  BY <1>14 DEF MarkRefundOk
<1>15. ASSUME NEW w \in Admins, NoteRefundOk(w)
      PROVE  status' = "REFUNDED"
  BY <1>15 DEF NoteRefundOk
<1>16. ASSUME NEW w \in Admins, QueryRefund(w)
      PROVE  status' = "REFUNDED"
  BY <1>16 DEF QueryRefund
<1>17. ASSUME NEW w \in Admins, QueryAnswered(w)
      PROVE  status' = "REFUNDED"
  BY <1>17 DEF QueryAnswered
<1>18. ASSUME NEW w \in Admins, FinalizeRefund(w)
      PROVE  status' = "REFUNDED"
  BY <1>18 DEF FinalizeRefund
<1>19. ASSUME NEW w \in Admins, FinalizeRefundFailed(w)
      PROVE  status' = "REFUNDED"
  BY <1>0, <1>19 DEF FinalizeRefundFailed
<1>20. ASSUME NEW w \in Admins, Abort(w)
      PROVE  status' = "REFUNDED"
  BY <1>20 DEF Abort
<1>21. ASSUME RequestRefund
      PROVE  status' = "REFUNDED"
  BY <1>21 DEF RequestRefund
<1>22. ASSUME Settle
      PROVE  status' = "REFUNDED"
  BY <1>22 DEF Settle
<1>23. ASSUME Spend
      PROVE  status' = "REFUNDED"
  BY <1>23 DEF Spend
<1>24. ASSUME UNCHANGED vars
      PROVE  status' = "REFUNDED"
  BY <1>24 DEF vars
<1>25. QED
  BY <1>1, <1>2, <1>3, <1>4, <1>5, <1>5a, <1>6, <1>7, <1>8, <1>9, <1>10, <1>11, <1>12,
     <1>13, <1>14, <1>15, <1>16, <1>17, <1>18, <1>19, <1>20, <1>21, <1>22, <1>23, <1>24
  DEF Next

\* Under the same condition a refunded order stays so, however many administrators
\* were at work on it (restoreStatus, markRefundPending, handleGwFail).
THEOREM RefundStays == Spec => RefundedStays
PROOF
<1>1. ASSUME Inv, [Next]_vars
      PROVE  [mishaps = {} /\ status = "REFUNDED" => status' = "REFUNDED"]_vars
  BY <1>1, RefundedStep
<1>2. QED
  BY Invariance, <1>1, PTL DEF Spec, RefundedStays
=============================================================================
