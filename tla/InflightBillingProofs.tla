------------------------ MODULE InflightBillingProofs ------------------------
(***************************************************************************)
(* Proofs about the in-flight reservation for every set of requests and    *)
(* tasks, every estimate, cost and queue bound, with or without failures:  *)
(* the type invariant, that a reservation covers the billing of its        *)
(* request, that no reference is left behind, that a reservation whose     *)
(* time is over never counts again, that live reservations stay within the *)
(* user's balance, that a billing id is charged once, and that all of it   *)
(* implements AdmissionBudget.                                             *)
(*                                                                         *)
(* The inductive invariant says that, until a handle is given back, its    *)
(* count is the number of tasks that hold a reference, plus one while the  *)
(* handler runs, and is positive; and that once it is given back nobody    *)
(* holds one.                                                              *)
(***************************************************************************)
EXTENDS InflightBilling, SumTheorems

Holders(r) == {t \in TasksOf(r) : HoldsRef(t)}
HandlerShare(r) == IF HandlerHolds(r) THEN 1 ELSE 0

\* what a request and a task have not done yet
Fresh ==
    /\ \A r \in Requests :
          /\ pc[r] \in {"start", "checked", "seen", "rejected"} =>
                r \notin handle /\ res[r] = "none"
          /\ pc[r] = "returning" => r \in handle
          /\ r \in waiting => pc[r] \in {"start", "checked"}
          /\ r \notin handle => release[r] = "no"
          /\ r \in handle => res[r] # "none"
    /\ \A t \in held : task[t] # "none" /\ OwnerOf[t] \in handle

Counted ==
    \A r \in handle : release[r] = "no" =>
        /\ refs[r] = Cardinality(Holders(r)) + HandlerShare(r)
        /\ refs[r] > 0

GivenBack ==
    \A r \in Requests :
        /\ release[r] # "no" => ~Open(r)
        /\ res[r] = "released" => release[r] = "done"

Inv == TypeOK /\ Fresh /\ Counted /\ GivenBack

-----------------------------------------------------------------------------
(* The bag of pending cache writes. *)

IsWrite(w) == w.kind \in {"set", "deduct"} /\ w.value \in Int

LEMMA BagPlus ==
  ASSUME NEW B, NEW w
  PROVE  BagToSet(B (+) SetToBag({w})) = BagToSet(B) \cup {w}
  BY DEF BagToSet, SetToBag, (+)

LEMMA BagMinus ==
  ASSUME NEW B, NEW w
  PROVE  BagToSet(B (-) SetToBag({w})) \subseteq BagToSet(B)
  BY DEF BagToSet, SetToBag, (-)

LEMMA WritesPlus ==
  ASSUME NEW B, NEW w, IsWrite(w), \A x \in BagToSet(B) : IsWrite(x)
  PROVE  \A x \in BagToSet(B (+) SetToBag({w})) : IsWrite(x)
<1>1. BagToSet(B (+) SetToBag({w})) = BagToSet(B) \cup {w}
  BY BagPlus
<1>. QED BY <1>1

LEMMA BagNone == BagToSet(EmptyBag) = {}
  BY DEF BagToSet, SetToBag, EmptyBag

\* the purge removes expired members and nothing else
LEMMA PurgedKeeps ==
  ASSUME TypeOK
  PROVE  /\ Purged \in [Requests -> {"none", "live", "expired", "purged", "released"}]
         /\ \A q \in Requests : Purged[q] = IF res[q] = "expired" THEN "purged" ELSE res[q]
  BY DEF TypeOK, Purged

\* Every step keeps the types.
LEMMA TypeStep ==
  ASSUME TypeOK, [Next]_vars
  PROVE  TypeOK'
<1>. USE InflightAssumption
<1>. USE DEF TypeOK, handlerVars, handleVars, taskVars, dbVars, cacheVars
<1>1. ASSUME NEW r \in Requests, ReadCached(r) PROVE TypeOK'
  BY <1>1 DEF ReadCached, Given, Reading
<1>2. ASSUME NEW r \in Requests, JoinLoad(r) PROVE TypeOK'
  BY <1>2 DEF JoinLoad, Reading
<1>3. ASSUME NEW r \in Requests, ReserveAdmitted(r) PROVE TypeOK'
  <2>1. Purged \in [Requests -> {"none", "live", "expired", "purged", "released"}]
    BY DEF Purged
  <2>. QED BY <1>3, <2>1 DEF ReserveAdmitted
<1>4. ASSUME NEW r \in Requests, ReserveRefused(r) PROVE TypeOK'
  <2>1. Purged \in [Requests -> {"none", "live", "expired", "purged", "released"}]
    BY DEF Purged
  <2>2. res' \in [Requests -> {"none", "live", "expired", "purged", "released"}]
    BY <1>4, <2>1 DEF ReserveRefused
  <2>3. /\ \E p \in {"serving", "rejected"} : pc' = [pc EXCEPT ![r] = p]
        /\ seen' = [seen EXCEPT ![r] = 0]
        /\ UNCHANGED <<waiting, handleVars, taskVars, stopped, dbVars, cacheVars>>
    BY <1>4 DEF ReserveRefused
  <2>. QED BY <2>2, <2>3
<1>5. ASSUME NEW r \in Requests, ReserveFails(r) PROVE TypeOK'
  <2>1. Purged \in [Requests -> {"none", "live", "expired", "purged", "released"}]
    BY DEF Purged
  <2>2. res' \in [Requests -> {"none", "live", "expired", "purged", "released"}]
    BY <1>5, <2>1 DEF ReserveFails
  <2>3. /\ \E p \in {"serving", "rejected"} : pc' = [pc EXCEPT ![r] = p]
        /\ seen' = [seen EXCEPT ![r] = 0]
        /\ UNCHANGED <<waiting, handleVars, taskVars, stopped, dbVars, cacheVars>>
    BY <1>5 DEF ReserveFails
  <2>. QED BY <2>2, <2>3
<1>6. ASSUME NEW r \in Requests, HandlerReturns(r) PROVE TypeOK'
  BY <1>6 DEF HandlerReturns
<1>7. ASSUME NEW r \in Requests, HandlerDone(r) PROVE TypeOK'
  BY <1>7 DEF HandlerDone, DecRef
<1>8. ASSUME NEW r \in Requests, Renew(r) PROVE TypeOK'
  BY <1>8 DEF Renew
<1>9. ASSUME NEW r \in Requests, RenewalEnds(r) PROVE TypeOK'
  BY <1>9 DEF RenewalEnds
<1>10. ASSUME NEW r \in Requests, Expire(r) PROVE TypeOK'
  BY <1>10 DEF Expire
<1>11. ASSUME NEW r \in Requests, ReleaseCall(r) PROVE TypeOK'
  BY <1>11 DEF ReleaseCall
<1>12. ASSUME NEW t \in Tasks, SubmitQueued(t) PROVE TypeOK'
  BY <1>12 DEF SubmitQueued, Submit, Acquire
<1>13. ASSUME NEW t \in Tasks, SubmitInline(t) PROVE TypeOK'
  BY <1>13 DEF SubmitInline, Submit, Acquire
<1>14. ASSUME NEW t \in Tasks, SubmitDropped(t) PROVE TypeOK'
  BY <1>14 DEF SubmitDropped, Submit
<1>15. ASSUME NEW t \in Tasks, StartTask(t) PROVE TypeOK'
  BY <1>15 DEF StartTask
<1>16. ASSUME NEW t \in Tasks, ChargeApplied(t) PROVE TypeOK'
  <2>1. BillId[t] \in Ids /\ db - Cost[t] \in Int
    BY DEF Ids
  <2>. QED BY <1>16, <2>1 DEF ChargeApplied, Commit
<1>17. ASSUME NEW t \in Tasks, ChargeNotApplied(t) PROVE TypeOK'
  BY <1>17 DEF ChargeNotApplied
<1>18. ASSUME NEW t \in Tasks, ChargeFails(t) PROVE TypeOK'
  <2>1. BillId[t] \in Ids /\ db - Cost[t] \in Int
    BY DEF Ids
  <2>. QED BY <1>18, <2>1 DEF ChargeFails, Commit
<1>19. ASSUME NEW t \in Tasks, SyncCache(t) PROVE TypeOK'
  <2>0. IsWrite(DeductWrite(t))
    BY DEF IsWrite, DeductWrite
  <2>01. writes' = writes \/ writes' = writes (+) SetToBag({DeductWrite(t)})
    BY <1>19 DEF SyncCache
  <2>02. \A x \in BagToSet(writes) : IsWrite(x)
    BY DEF IsWrite
  <2>03. \A x \in BagToSet(writes') : IsWrite(x)
    BY <2>0, <2>01, <2>02, WritesPlus
  <2>1. \A w \in BagToSet(writes') : w.kind \in {"set", "deduct"} /\ w.value \in Int
    BY <2>03 DEF IsWrite
  <2>2. cache' \in Int \cup {None}
    BY <1>19 DEF SyncCache, Deduct
  <2>3. task' \in [Tasks -> {"none", "queued", "running", "charged", "end",
                             "dropped", "finished"}]
        /\ newBalance' \in [Tasks -> Int]
    BY <1>19 DEF SyncCache
  <2>4. UNCHANGED <<handlerVars, handleVars, res, held, inline, stopped, dbVars, load, loaded>>
    BY <1>19 DEF SyncCache
  <2>. QED BY <2>1, <2>2, <2>3, <2>4
<1>20. ASSUME NEW t \in Tasks, FinishTask(t) PROVE TypeOK'
  BY <1>20 DEF FinishTask, DecRef
<1>21. ASSUME LoadRead PROVE TypeOK'
  BY <1>21 DEF LoadRead
<1>22. ASSUME LoadReturn PROVE TypeOK'
  <2>0. IsWrite(SetWrite(loaded))
    BY DEF IsWrite, SetWrite
  <2>01. writes' = writes \/ writes' = writes (+) SetToBag({SetWrite(loaded)})
    BY <1>22 DEF LoadReturn
  <2>02. \A x \in BagToSet(writes) : IsWrite(x)
    BY DEF IsWrite
  <2>03. \A x \in BagToSet(writes') : IsWrite(x)
    BY <2>0, <2>01, <2>02, WritesPlus
  <2>1. \A w \in BagToSet(writes') : w.kind \in {"set", "deduct"} /\ w.value \in Int
    BY <2>03 DEF IsWrite
  <2>2. pc' \in [Requests -> {"start", "checked", "seen", "serving", "returning",
                              "done", "rejected"}]
    BY <1>22 DEF LoadReturn
  <2>3. seen' \in [Requests -> Int]
    BY <1>22 DEF LoadReturn
  <2>4. /\ waiting' = {} /\ load' = "idle" /\ loaded' = 0
        /\ UNCHANGED <<handleVars, res, taskVars, stopped, dbVars, cache>>
    BY <1>22 DEF LoadReturn
  <2>. QED BY <2>1, <2>2, <2>3, <2>4
<1>23. ASSUME LoadFail PROVE TypeOK'
  BY <1>23 DEF LoadFail
<1>24. ASSUME ExpireCache PROVE TypeOK'
  BY <1>24 DEF ExpireCache
<1>25. ASSUME StopPool PROVE TypeOK'
  BY <1>25 DEF StopPool
<1>26. ASSUME NEW w \in BagToSet(writes), WriteCache(w) PROVE TypeOK'
  <2>1. \A x \in BagToSet(writes') : x.kind \in {"set", "deduct"} /\ x.value \in Int
    BY <1>26, BagMinus DEF WriteCache
  <2>2. cache' \in Int \cup {None}
    BY <1>26 DEF WriteCache
  <2>. QED BY <1>26, <2>1, <2>2 DEF WriteCache
<1>27. ASSUME UNCHANGED vars PROVE TypeOK'
  BY <1>27 DEF vars, handlerVars, handleVars, taskVars, dbVars, cacheVars
<1>. QED BY <1>1, <1>2, <1>3, <1>4, <1>5, <1>6, <1>7, <1>8, <1>9,
           <1>10, <1>11, <1>12, <1>13, <1>14, <1>15, <1>16, <1>17, <1>18,
           <1>19, <1>20, <1>21, <1>22, <1>23, <1>24, <1>25, <1>26, <1>27
         DEF Next, HandlerNext, ReservationNext, SubmitNext, WorkerNext, CacheNext

\* A request that was not admitted has no handle, one that is served has not
\* given it back, and a reference is taken by a submitted task of a handle.
LEMMA FreshStep ==
  ASSUME TypeOK, Fresh, [Next]_vars
  PROVE  Fresh'
<1>. USE InflightAssumption
<1>. USE DEF TypeOK, Fresh, handlerVars, handleVars, taskVars, dbVars, cacheVars
<1>1. ASSUME NEW r \in Requests, ReadCached(r) PROVE Fresh'
  BY <1>1 DEF ReadCached, Given, Reading
<1>2. ASSUME NEW r \in Requests, JoinLoad(r) PROVE Fresh'
  BY <1>2 DEF JoinLoad, Reading
<1>3. ASSUME NEW r \in Requests, ReserveAdmitted(r) PROVE Fresh'
  BY <1>3 DEF ReserveAdmitted, Purged
<1>4. ASSUME NEW r \in Requests, ReserveRefused(r) PROVE Fresh'
  BY <1>4 DEF ReserveRefused, Purged
<1>5. ASSUME NEW r \in Requests, ReserveFails(r) PROVE Fresh'
  <2>1. res' = res \/ res' = [Purged EXCEPT ![r] = "live"] \/ res' = Purged
    BY <1>5 DEF ReserveFails
  <2>2. \A q \in Requests : res'[q] = "live" => q = r \/ res[q] = "live"
    BY <2>1, PurgedKeeps
  <2>3. \A q \in Requests : q # r /\ res[q] = "none" => res'[q] = "none"
    BY <2>1, PurgedKeeps
  <2>4. \A q \in Requests : res'[q] = "released" => res[q] = "released"
    BY <2>1, PurgedKeeps
  <2>5. \A q \in Requests : res[q] # "none" => res'[q] # "none"
    BY <2>1, PurgedKeeps
  <2>. QED BY <1>5, <2>2, <2>3, <2>4, <2>5 DEF ReserveFails
<1>6. ASSUME NEW r \in Requests, HandlerReturns(r) PROVE Fresh'
  BY <1>6 DEF HandlerReturns
<1>7. ASSUME NEW r \in Requests, HandlerDone(r) PROVE Fresh'
  BY <1>7 DEF HandlerDone, DecRef
<1>8. ASSUME NEW r \in Requests, Renew(r) PROVE Fresh'
  BY <1>8 DEF Renew
<1>9. ASSUME NEW r \in Requests, RenewalEnds(r) PROVE Fresh'
  BY <1>9 DEF RenewalEnds
<1>10. ASSUME NEW r \in Requests, Expire(r) PROVE Fresh'
  BY <1>10 DEF Expire
<1>11. ASSUME NEW r \in Requests, ReleaseCall(r) PROVE Fresh'
  BY <1>11 DEF ReleaseCall
<1>12. ASSUME NEW t \in Tasks, SubmitQueued(t) PROVE Fresh'
  BY <1>12 DEF SubmitQueued, Submit, Acquire
<1>13. ASSUME NEW t \in Tasks, SubmitInline(t) PROVE Fresh'
  BY <1>13 DEF SubmitInline, Submit, Acquire
<1>14. ASSUME NEW t \in Tasks, SubmitDropped(t) PROVE Fresh'
  BY <1>14 DEF SubmitDropped, Submit
<1>15. ASSUME NEW t \in Tasks, StartTask(t) PROVE Fresh'
  BY <1>15 DEF StartTask
<1>16. ASSUME NEW t \in Tasks, ChargeApplied(t) PROVE Fresh'
  BY <1>16 DEF ChargeApplied, Commit, Claimable
<1>17. ASSUME NEW t \in Tasks, ChargeNotApplied(t) PROVE Fresh'
  BY <1>17 DEF ChargeNotApplied
<1>18. ASSUME NEW t \in Tasks, ChargeFails(t) PROVE Fresh'
  BY <1>18 DEF ChargeFails, Commit, Claimable
<1>19. ASSUME NEW t \in Tasks, SyncCache(t) PROVE Fresh'
  BY <1>19 DEF SyncCache, Deduct
<1>20. ASSUME NEW t \in Tasks, FinishTask(t) PROVE Fresh'
  BY <1>20 DEF FinishTask, DecRef
<1>21. ASSUME LoadRead PROVE Fresh'
  BY <1>21 DEF LoadRead
<1>22. ASSUME LoadReturn PROVE Fresh'
  BY <1>22 DEF LoadReturn
<1>23. ASSUME LoadFail PROVE Fresh'
  BY <1>23 DEF LoadFail
<1>24. ASSUME ExpireCache PROVE Fresh'
  BY <1>24 DEF ExpireCache
<1>25. ASSUME StopPool PROVE Fresh'
  BY <1>25 DEF StopPool
<1>26. ASSUME NEW w \in BagToSet(writes), WriteCache(w) PROVE Fresh'
  BY <1>26 DEF WriteCache
<1>27. ASSUME UNCHANGED vars PROVE Fresh'
  BY <1>27 DEF vars, handlerVars, handleVars, taskVars, dbVars, cacheVars
<1>. QED BY <1>1, <1>2, <1>3, <1>4, <1>5, <1>6, <1>7, <1>8, <1>9,
           <1>10, <1>11, <1>12, <1>13, <1>14, <1>15, <1>16, <1>17, <1>18,
           <1>19, <1>20, <1>21, <1>22, <1>23, <1>24, <1>25, <1>26, <1>27
         DEF Next, HandlerNext, ReservationNext, SubmitNext, WorkerNext, CacheNext

-----------------------------------------------------------------------------
(* Which steps move a reference. *)

\* a step that moves no reference and releases nothing
Quiet ==
    /\ UNCHANGED <<handle, refs, release>>
    /\ \A r \in handle : HandlerHolds(r)' = HandlerHolds(r)
    /\ \A t \in Tasks : HoldsRef(t)' = HoldsRef(t)
    /\ \A r \in Requests : res'[r] = "released" => res[r] = "released"

\* a step that moves one
Moves ==
    \/ \E r \in Requests : ReserveAdmitted(r) \/ ReleaseCall(r) \/ HandlerDone(r)
    \/ \E t \in Tasks : SubmitQueued(t) \/ SubmitInline(t) \/ FinishTask(t)

\* Every other step is quiet.
LEMMA QuietOrMoves ==
  ASSUME TypeOK, Fresh, [Next]_vars
  PROVE  Quiet \/ Moves
<1>. USE DEF TypeOK, Fresh, Quiet, HandlerHolds, HoldsRef, handlerVars, handleVars, taskVars, dbVars, cacheVars
<1>1. ASSUME NEW r \in Requests, ReadCached(r) PROVE Quiet \/ Moves
  BY <1>1 DEF ReadCached, Given, Reading
<1>2. ASSUME NEW r \in Requests, JoinLoad(r) PROVE Quiet \/ Moves
  BY <1>2 DEF JoinLoad, Reading
<1>3. ASSUME NEW r \in Requests, ReserveAdmitted(r) PROVE Quiet \/ Moves
  BY <1>3 DEF Moves
<1>4. ASSUME NEW r \in Requests, ReserveRefused(r) PROVE Quiet \/ Moves
  BY <1>4 DEF ReserveRefused, Purged
<1>5. ASSUME NEW r \in Requests, ReserveFails(r) PROVE Quiet \/ Moves
  <2>1. res' = res \/ res' = [Purged EXCEPT ![r] = "live"] \/ res' = Purged
    BY <1>5 DEF ReserveFails
  <2>2. \A q \in Requests : res'[q] = "live" => q = r \/ res[q] = "live"
    BY <2>1, PurgedKeeps
  <2>3. \A q \in Requests : q # r /\ res[q] = "none" => res'[q] = "none"
    BY <2>1, PurgedKeeps
  <2>4. \A q \in Requests : res'[q] = "released" => res[q] = "released"
    BY <2>1, PurgedKeeps
  <2>. QED BY <1>5, <2>2, <2>3, <2>4 DEF ReserveFails
<1>6. ASSUME NEW r \in Requests, HandlerReturns(r) PROVE Quiet \/ Moves
  BY <1>6 DEF HandlerReturns
<1>7. ASSUME NEW r \in Requests, HandlerDone(r) PROVE Quiet \/ Moves
  BY <1>7 DEF Moves
<1>8. ASSUME NEW r \in Requests, Renew(r) PROVE Quiet \/ Moves
  BY <1>8 DEF Renew
<1>9. ASSUME NEW r \in Requests, RenewalEnds(r) PROVE Quiet \/ Moves
  BY <1>9 DEF RenewalEnds
<1>10. ASSUME NEW r \in Requests, Expire(r) PROVE Quiet \/ Moves
  BY <1>10 DEF Expire
<1>11. ASSUME NEW r \in Requests, ReleaseCall(r) PROVE Quiet \/ Moves
  BY <1>11 DEF Moves
<1>12. ASSUME NEW t \in Tasks, SubmitQueued(t) PROVE Quiet \/ Moves
  BY <1>12 DEF Moves
<1>13. ASSUME NEW t \in Tasks, SubmitInline(t) PROVE Quiet \/ Moves
  BY <1>13 DEF Moves
<1>14. ASSUME NEW t \in Tasks, SubmitDropped(t) PROVE Quiet \/ Moves
  BY <1>14 DEF SubmitDropped, Submit
<1>15. ASSUME NEW t \in Tasks, StartTask(t) PROVE Quiet \/ Moves
  BY <1>15 DEF StartTask
<1>16. ASSUME NEW t \in Tasks, ChargeApplied(t) PROVE Quiet \/ Moves
  BY <1>16 DEF ChargeApplied, Commit, Claimable
<1>17. ASSUME NEW t \in Tasks, ChargeNotApplied(t) PROVE Quiet \/ Moves
  BY <1>17 DEF ChargeNotApplied
<1>18. ASSUME NEW t \in Tasks, ChargeFails(t) PROVE Quiet \/ Moves
  BY <1>18 DEF ChargeFails, Commit, Claimable
<1>19. ASSUME NEW t \in Tasks, SyncCache(t) PROVE Quiet \/ Moves
  BY <1>19 DEF SyncCache, Deduct
<1>20. ASSUME NEW t \in Tasks, FinishTask(t) PROVE Quiet \/ Moves
  BY <1>20 DEF Moves
<1>21. ASSUME LoadRead PROVE Quiet \/ Moves
  BY <1>21 DEF LoadRead
<1>22. ASSUME LoadReturn PROVE Quiet \/ Moves
  BY <1>22 DEF LoadReturn
<1>23. ASSUME LoadFail PROVE Quiet \/ Moves
  BY <1>23 DEF LoadFail
<1>24. ASSUME ExpireCache PROVE Quiet \/ Moves
  BY <1>24 DEF ExpireCache
<1>25. ASSUME StopPool PROVE Quiet \/ Moves
  BY <1>25 DEF StopPool
<1>26. ASSUME NEW w \in BagToSet(writes), WriteCache(w) PROVE Quiet \/ Moves
  BY <1>26 DEF WriteCache
<1>27. ASSUME UNCHANGED vars PROVE Quiet \/ Moves
  BY <1>27 DEF vars, handlerVars, handleVars, taskVars, dbVars, cacheVars
<1>. QED BY <1>1, <1>2, <1>3, <1>4, <1>5, <1>6, <1>7, <1>8, <1>9,
           <1>10, <1>11, <1>12, <1>13, <1>14, <1>15, <1>16, <1>17, <1>18,
           <1>19, <1>20, <1>21, <1>22, <1>23, <1>24, <1>25, <1>26, <1>27
         DEF Next, HandlerNext, ReservationNext, SubmitNext, WorkerNext, CacheNext

LEMMA HoldersFinite ==
  ASSUME NEW r \in Requests
  PROVE  /\ IsFiniteSet(Holders(r)) /\ Cardinality(Holders(r)) \in Nat
         /\ (Cardinality(Holders(r)) = 0) <=> (Holders(r) = {})
<1>1. IsFiniteSet(Holders(r))
  BY InflightAssumption, FS_Subset DEF Holders, TasksOf
<1>. QED BY <1>1, FS_CardinalityType, FS_EmptySet

\* nobody holds a reference when the count is zero
LEMMA OpenIsCounted ==
  ASSUME NEW r \in handle, handle \subseteq Requests
  PROVE  Open(r) <=> Cardinality(Holders(r)) + HandlerShare(r) > 0
<1>1. Open(r) <=> HandlerHolds(r) \/ Holders(r) # {}
  BY DEF Open, Holders
<1>. QED BY <1>1, HoldersFinite DEF HandlerShare

\* a quiet step keeps the count and what is given back
LEMMA QuietStep ==
  ASSUME TypeOK, TypeOK', Fresh, Fresh', Counted, GivenBack, Quiet
  PROVE  Counted' /\ GivenBack'
<1>. USE DEF TypeOK, Quiet
<1>1. \A r \in handle : Holders(r)' = Holders(r) /\ HandlerShare(r)' = HandlerShare(r)
  BY DEF Holders, TasksOf, HandlerShare
<1>2. \A r \in handle : Open(r)' = Open(r)
  BY DEF Open, TasksOf
<1>3. Counted'
  BY <1>1 DEF Counted
<1>4. GivenBack'
  BY <1>2 DEF GivenBack, Fresh
<1>. QED BY <1>3, <1>4

\* the steps that touch one request leave the others' references alone
LEMMA Others ==
  ASSUME TypeOK, TypeOK', Fresh, Fresh', Counted, GivenBack, NEW q \in Requests,
         \A r \in Requests \ {q} :
            /\ refs'[r] = refs[r] /\ release'[r] = release[r]
            /\ r \in handle' <=> r \in handle
            /\ res'[r] = "released" => res[r] = "released"
            /\ r \in handle => /\ HandlerHolds(r)' = HandlerHolds(r)
                               /\ Holders(r)' = Holders(r)
  PROVE  /\ \A r \in handle' \ {q} : release'[r] = "no" =>
                /\ refs'[r] = Cardinality(Holders(r)') + HandlerShare(r)'
                /\ refs'[r] > 0
         /\ \A r \in Requests \ {q} : /\ release'[r] # "no" => ~Open(r)'
                                      /\ res'[r] = "released" => release'[r] = "done"
<1>. USE DEF TypeOK
<1>1. \A r \in Requests \ {q} : r \in handle => HandlerShare(r)' = HandlerShare(r)
  BY DEF HandlerShare
<1>2. \A r \in Requests \ {q} : r \in handle => Open(r)' = Open(r)
  BY DEF Open, Holders
<1>3. \A r \in handle' \ {q} : release'[r] = "no" =>
        /\ refs'[r] = Cardinality(Holders(r)') + HandlerShare(r)'
        /\ refs'[r] > 0
  BY <1>1 DEF Counted
<1>4. \A r \in Requests \ {q} : /\ release'[r] # "no" => ~Open(r)'
                                /\ res'[r] = "released" => release'[r] = "done"
  BY <1>2 DEF GivenBack, Fresh
<1>. QED BY <1>3, <1>4

-----------------------------------------------------------------------------
(* The steps that move a reference. *)

LEMMA AdmittedStep ==
  ASSUME TypeOK, TypeOK', Fresh, Fresh', Counted, GivenBack, NEW q \in Requests, ReserveAdmitted(q)
  PROVE  Counted' /\ GivenBack'
<1>. USE DEF TypeOK, ReserveAdmitted, taskVars
<1>1. \A t \in Tasks : HoldsRef(t)' = HoldsRef(t)
  BY DEF HoldsRef
<1>2. \A r \in Requests : Holders(r)' = Holders(r)
  BY <1>1 DEF Holders, TasksOf
<1>3. Holders(q) = {}
  BY DEF Holders, TasksOf, HoldsRef, Fresh
<1>4. q \in handle' /\ refs'[q] = 1 /\ release'[q] = "no" /\ res'[q] = "live"
  BY DEF Fresh, Purged
<1>5. HandlerShare(q)' = 1
  BY <1>4 DEF HandlerShare, HandlerHolds
<1>6. \A r \in Requests \ {q} :
        /\ refs'[r] = refs[r] /\ release'[r] = release[r]
        /\ r \in handle' <=> r \in handle
        /\ res'[r] = "released" => res[r] = "released"
        /\ r \in handle => /\ HandlerHolds(r)' = HandlerHolds(r)
                           /\ Holders(r)' = Holders(r)
  BY <1>2 DEF HandlerHolds, Purged
<1>7. Cardinality(Holders(q)') = 0
  BY <1>2, <1>3, FS_EmptySet
<1>. QED BY <1>4, <1>5, <1>6, <1>7, Others DEF Counted, GivenBack

LEMMA ReleaseStep ==
  ASSUME TypeOK, TypeOK', Fresh, Fresh', Counted, GivenBack, NEW q \in Requests, ReleaseCall(q)
  PROVE  Counted' /\ GivenBack'
<1>. USE DEF TypeOK, ReleaseCall, taskVars, handlerVars
<1>1. \A t \in Tasks : HoldsRef(t)' = HoldsRef(t)
  BY DEF HoldsRef
<1>2. \A r \in Requests : Holders(r)' = Holders(r) /\ HandlerHolds(r)' = HandlerHolds(r)
  BY <1>1 DEF Holders, TasksOf, HandlerHolds
<1>3. Open(q)' = Open(q) /\ ~Open(q) /\ release'[q] = "done"
  BY <1>2 DEF Open, Holders, GivenBack
<1>4. \A r \in Requests \ {q} :
        /\ refs'[r] = refs[r] /\ release'[r] = release[r]
        /\ r \in handle' <=> r \in handle
        /\ res'[r] = "released" => res[r] = "released"
        /\ r \in handle => /\ HandlerHolds(r)' = HandlerHolds(r)
                           /\ Holders(r)' = Holders(r)
  BY <1>2
<1>. QED BY <1>3, <1>4, Others DEF Counted, GivenBack

LEMMA HandlerDoneStep ==
  ASSUME TypeOK, TypeOK', Fresh, Fresh', Counted, GivenBack, NEW q \in Requests, HandlerDone(q)
  PROVE  Counted' /\ GivenBack'
<1>. USE DEF TypeOK, HandlerDone, DecRef, taskVars
<1>1. \A t \in Tasks : HoldsRef(t)' = HoldsRef(t)
  BY DEF HoldsRef
<1>2. \A r \in Requests : Holders(r)' = Holders(r)
  BY <1>1 DEF Holders, TasksOf
<1>3. \A r \in Requests \ {q} :
        /\ refs'[r] = refs[r] /\ release'[r] = release[r]
        /\ r \in handle' <=> r \in handle
        /\ res'[r] = "released" => res[r] = "released"
        /\ r \in handle => /\ HandlerHolds(r)' = HandlerHolds(r)
                           /\ Holders(r)' = Holders(r)
  BY <1>2 DEF HandlerHolds
<1>4. HandlerShare(q)' = 0 /\ release[q] = "no" /\ refs'[q] = refs[q] - 1
      /\ res'[q] # "released" /\ q \in handle
  BY DEF HandlerShare, HandlerHolds, Open, Fresh, GivenBack
<1>6. CASE q \in handle
  <2>1. refs[q] = Cardinality(Holders(q)) + 1
    BY <1>4, <1>6 DEF Counted, HandlerShare, HandlerHolds
  <2>2. refs'[q] = Cardinality(Holders(q)') + HandlerShare(q)' /\ Cardinality(Holders(q)) \in Nat
    BY <1>2, <1>4, <2>1, HoldersFinite
  <2>3. release'[q] = IF refs'[q] <= 0 THEN "todo" ELSE "no"
    BY <1>4
  <2>4. refs'[q] <= 0 => Holders(q)' = {} /\ ~HandlerHolds(q)'
    BY <1>2, <1>4, <2>2, HoldersFinite DEF HandlerHolds
  <2>5. release'[q] # "no" => ~Open(q)'
    BY <2>3, <2>4 DEF Open, Holders
  <2>6. release'[q] = "no" => refs'[q] > 0
    BY <2>2, <2>3
  <2>. QED BY <1>3, <1>4, <2>2, <2>5, <2>6, Others DEF Counted, GivenBack
<1>. QED BY <1>4, <1>6

\* a submission that takes a reference, or none
LEMMA SubmitStep ==
  ASSUME TypeOK, TypeOK', Fresh, Fresh', Counted, GivenBack, NEW u \in Tasks,
         SubmitQueued(u) \/ SubmitInline(u)
  PROVE  Counted' /\ GivenBack'
<1>. USE DEF TypeOK
<1>. DEFINE q == OwnerOf[u]
<1>0. q \in Requests
  BY InflightAssumption
<1>1. /\ pc[q] = "serving" /\ task[u] = "none" /\ Acquire(u)
      /\ UNCHANGED <<handlerVars, handle, renewal, release, res, newBalance, stopped, dbVars, cacheVars>>
      /\ \E s \in {"queued", "running"} : task' = [task EXCEPT ![u] = s]
  BY DEF SubmitQueued, SubmitInline, Submit
<1>2. u \notin held
  BY <1>1 DEF Fresh
<1>3. \A t \in Tasks \ {u} : HoldsRef(t)' = HoldsRef(t)
  BY <1>1 DEF HoldsRef, Acquire
<1>4. \A r \in Requests : HandlerHolds(r)' = HandlerHolds(r)
  BY <1>1 DEF HandlerHolds, handlerVars
<1>5. \A r \in Requests \ {q} : Holders(r)' = Holders(r)
  BY <1>3 DEF Holders, TasksOf
<1>6. \A r \in Requests \ {q} :
        /\ refs'[r] = refs[r] /\ release'[r] = release[r]
        /\ r \in handle' <=> r \in handle
        /\ res'[r] = "released" => res[r] = "released"
        /\ r \in handle => /\ HandlerHolds(r)' = HandlerHolds(r)
                           /\ Holders(r)' = Holders(r)
  BY <1>0, <1>1, <1>4, <1>5 DEF Acquire
<1>7. CASE q \notin handle
  <2>1. q \notin handle' /\ release'[q] = "no" /\ res'[q] # "released"
    BY <1>0, <1>1, <1>7 DEF Fresh, GivenBack
  <2>. QED BY <1>0, <1>6, <2>1, Others DEF Counted, GivenBack
<1>8. CASE q \in handle
  <2>1. HandlerHolds(q) /\ Open(q)
    BY <1>1, <1>8 DEF HandlerHolds, Open
  <2>2. release[q] = "no" /\ release'[q] = "no" /\ res'[q] # "released"
    BY <1>0, <1>1, <2>1 DEF GivenBack
  <2>3. refs[q] = Cardinality(Holders(q)) + HandlerShare(q) /\ refs[q] > 0
    BY <1>8, <2>2 DEF Counted
  <2>4. refs' = [refs EXCEPT ![q] = @ + 1] /\ held' = held \cup {u}
    BY <1>1, <1>8, <2>3 DEF Acquire
  <2>5. HoldsRef(u)' /\ ~HoldsRef(u)
    BY <1>1, <1>2, <2>4 DEF HoldsRef
  <2>6. Holders(q)' = Holders(q) \cup {u} /\ u \notin Holders(q)
    BY <1>3, <2>5 DEF Holders, TasksOf
  <2>7. Cardinality(Holders(q)') = Cardinality(Holders(q)) + 1
    <3>1. IsFiniteSet(Holders(q))
      BY <1>0, HoldersFinite
    <3>2. Cardinality(Holders(q) \cup {u}) = Cardinality(Holders(q)) + 1
      BY <2>6, <3>1, FS_AddElement
    <3>. QED BY <2>6, <3>2
  <2>8. HandlerShare(q)' = HandlerShare(q)
    BY <1>0, <1>4 DEF HandlerShare
  <2>9. refs'[q] = Cardinality(Holders(q)') + HandlerShare(q)' /\ refs'[q] > 0
    BY <1>0, <2>3, <2>4, <2>7, <2>8, HoldersFinite DEF HandlerShare
  <2>. QED BY <1>0, <1>6, <2>2, <2>9, Others DEF Counted, GivenBack
<1>. QED BY <1>7, <1>8

LEMMA FinishStep ==
  ASSUME TypeOK, TypeOK', Fresh, Fresh', Counted, GivenBack, NEW u \in Tasks, FinishTask(u)
  PROVE  Counted' /\ GivenBack'
<1>. USE DEF TypeOK
<1>. DEFINE q == OwnerOf[u]
<1>0. q \in Requests
  BY InflightAssumption
<1>1. /\ task[u] = "end" /\ task' = [task EXCEPT ![u] = "finished"]
      /\ UNCHANGED <<pc, handle, res, held>>
  BY DEF FinishTask, handlerVars
<1>2. \A t \in Tasks \ {u} : HoldsRef(t)' = HoldsRef(t)
  BY <1>1 DEF HoldsRef
<1>3. \A r \in Requests : HandlerHolds(r)' = HandlerHolds(r) /\ HandlerShare(r)' = HandlerShare(r)
  BY <1>1 DEF HandlerHolds, HandlerShare
<1>4. \A r \in Requests \ {q} : Holders(r)' = Holders(r)
  BY <1>2 DEF Holders, TasksOf
<1>5. \A r \in Requests \ {q} :
        /\ refs'[r] = refs[r] /\ release'[r] = release[r]
        /\ r \in handle' <=> r \in handle
        /\ res'[r] = "released" => res[r] = "released"
        /\ r \in handle => /\ HandlerHolds(r)' = HandlerHolds(r)
                           /\ Holders(r)' = Holders(r)
  BY <1>0, <1>1, <1>3, <1>4 DEF FinishTask, DecRef
<1>6. CASE u \notin held
  <2>1. UNCHANGED <<refs, release>>
    BY <1>6 DEF FinishTask
  <2>2. HoldsRef(u)' = HoldsRef(u)
    BY <1>1, <1>6 DEF HoldsRef
  <2>3. Quiet
    BY <1>0, <1>1, <1>2, <1>3, <2>1, <2>2 DEF Quiet
  <2>. QED BY <2>3, QuietStep
<1>7. CASE u \in held
  <2>1. q \in handle /\ HoldsRef(u) /\ ~HoldsRef(u)'
    BY <1>1, <1>7 DEF HoldsRef, Fresh
  <2>2. release[q] = "no" /\ res'[q] # "released"
    BY <1>0, <1>1, <2>1 DEF GivenBack, Open, TasksOf
  <2>3. refs[q] = Cardinality(Holders(q)) + HandlerShare(q)
    BY <2>1, <2>2 DEF Counted
  <2>4. Holders(q)' = Holders(q) \ {u} /\ u \in Holders(q)
    BY <1>2, <2>1 DEF Holders, TasksOf
  <2>5. Cardinality(Holders(q)') = Cardinality(Holders(q)) - 1
    <3>1. IsFiniteSet(Holders(q))
      BY <1>0, HoldersFinite
    <3>2. Cardinality(Holders(q) \ {u}) = Cardinality(Holders(q)) - 1
      BY <2>4, <3>1, FS_RemoveElement
    <3>. QED BY <2>4, <3>2
  <2>6. /\ refs' = [refs EXCEPT ![q] = @ - 1]
        /\ release' = [release EXCEPT ![q] = IF refs[q] - 1 <= 0 /\ @ = "no" THEN "todo" ELSE @]
    BY <1>7 DEF FinishTask, DecRef
  <2>7. refs'[q] = Cardinality(Holders(q)') + HandlerShare(q)'
    BY <1>0, <1>3, <2>3, <2>5, <2>6, HoldersFinite DEF HandlerShare
  <2>8. release'[q] = IF refs'[q] <= 0 THEN "todo" ELSE "no"
    BY <1>0, <2>2, <2>6
  <2>9. IsFiniteSet(Holders(q)') /\ Cardinality(Holders(q)') \in Nat
        /\ (Cardinality(Holders(q)') = 0 => Holders(q)' = {})
    <3>1. IsFiniteSet(Holders(q))
      BY <1>0, HoldersFinite
    <3>2. IsFiniteSet(Holders(q) \ {u})
      BY <3>1, FS_Subset, Holders(q) \ {u} \subseteq Holders(q)
    <3>3. /\ Cardinality(Holders(q) \ {u}) \in Nat
          /\ Cardinality(Holders(q) \ {u}) = 0 => Holders(q) \ {u} = {}
      BY <3>2, FS_CardinalityType, FS_EmptySet
    <3>. QED BY <2>4, <3>2, <3>3
  <2>10. HandlerShare(q)' \in {0, 1} /\ (HandlerShare(q)' = 0 => ~HandlerHolds(q)')
    BY DEF HandlerShare
  <2>11. refs'[q] <= 0 => Holders(q)' = {} /\ ~HandlerHolds(q)'
    BY <2>7, <2>9, <2>10
  <2>12. release'[q] # "no" => ~Open(q)'
    BY <2>8, <2>11 DEF Open, Holders
  <2>13. release'[q] = "no" => refs'[q] > 0
    BY <2>7, <2>8, <2>9, <2>10
  <2>. QED BY <1>0, <1>5, <2>2, <2>7, <2>12, <2>13, Others DEF Counted, GivenBack
<1>. QED BY <1>6, <1>7

-----------------------------------------------------------------------------
THEOREM InvInit == Init => Inv
<1>. SUFFICES ASSUME Init PROVE Inv
  OBVIOUS
<1>1. TypeOK
  <2>1. \A w \in BagToSet(writes) : w.kind \in {"set", "deduct"} /\ w.value \in Int
    BY BagNone DEF Init
  <2>2. opening \in Nat /\ db \in Int
    BY InflightAssumption DEF Init
  <2>3. dedup \in [Ids -> Tasks \cup {None}] /\ cache \in Int \cup {None}
    BY DEF Init
  <2>4. /\ seen \in [Requests -> Int] /\ refs \in [Requests -> Int]
        /\ newBalance \in [Tasks -> Int]
    BY DEF Init
  <2>6. /\ pc \in [Requests -> {"start", "checked", "seen", "serving", "returning",
                                "done", "rejected"}]
        /\ renewal \in [Requests -> {"off", "on", "stopping"}]
        /\ release \in [Requests -> {"no", "todo", "done"}]
        /\ res \in [Requests -> {"none", "live", "expired", "purged", "released"}]
        /\ task \in [Tasks -> {"none", "queued", "running", "charged", "end",
                               "dropped", "finished"}]
    BY DEF Init
  <2>5. waiting = {} /\ handle = {} /\ held = {} /\ inline = {}
        /\ load = "idle" /\ loaded = 0
    BY DEF Init
  <2>7. stopped \in BOOLEAN
    BY DEF Init
  <2>. QED BY <2>1, <2>2, <2>3, <2>4, <2>5, <2>6, <2>7 DEF TypeOK
<1>2. Fresh /\ Counted /\ GivenBack
  BY DEF Init, Fresh, Counted, GivenBack
<1>. QED BY <1>1, <1>2 DEF Inv

THEOREM InvStep == Inv /\ [Next]_vars => Inv'
<1>. SUFFICES ASSUME Inv, [Next]_vars PROVE Inv'
  OBVIOUS
<1>1. TypeOK /\ Fresh /\ Counted /\ GivenBack
  BY DEF Inv
<1>2. TypeOK' /\ Fresh'
  BY <1>1, TypeStep, FreshStep
<1>3. CASE Quiet
  BY <1>1, <1>2, <1>3, QuietStep DEF Inv
<1>4. CASE Moves
  BY <1>1, <1>2, <1>4, AdmittedStep, ReleaseStep, HandlerDoneStep, SubmitStep, FinishStep
     DEF Inv, Moves
<1>. QED BY <1>1, <1>3, <1>4, QuietOrMoves

THEOREM InvHolds == Spec => []Inv
  BY InvInit, InvStep, PTL DEF Spec

\* The type invariant holds for every set of requests and tasks.
THEOREM TypeCorrect == Spec => []TypeOK
<1>1. Inv => TypeOK
  BY DEF Inv
<1>. QED BY <1>1, InvHolds, PTL

\* A reservation is not released while its handler runs or one of its billing
\* tasks has not yet charged and dealt with the cached balance.
THEOREM ReservationCovers == Spec => []ReservationCoversBilling
<1>1. Inv => ReservationCoversBilling
  BY DEF Inv, GivenBack, ReservationCoversBilling, TypeOK
<1>. QED BY <1>1, InvHolds, PTL

\* No path of submission, dropping, shutdown or failure leaves a reference
\* behind: with the handler gone and no task under way the reservation has
\* been given back.
THEOREM NoReferenceLeftHolds == Spec => []NoReferenceLeft
<1>1. ASSUME Inv PROVE NoReferenceLeft
  <2>. SUFFICES ASSUME NEW r \in handle, pc[r] = "done", ~Open(r), release[r] = "no" PROVE FALSE
    BY <1>1 DEF NoReferenceLeft, Inv, TypeOK
  <2>1. refs[r] = Cardinality(Holders(r)) + HandlerShare(r) /\ refs[r] > 0
    BY <1>1 DEF Inv, Counted
  <2>. QED BY <1>1, <2>1, OpenIsCounted DEF Inv, TypeOK
<1>. QED BY <1>1, InvHolds, PTL

\* what a step may do to the requests in flight and to those whose time is over
Keeps == Live' = Live /\ Over' = Over
Enters == \E r \in Requests :
    r \notin Live \cup Over /\ Admits(r) /\ Live' = Live \cup {r} /\ Over' = Over
Leaves == \E r \in Live : Live' = Live \ {r} /\ Over' = Over \cup {r}

\* A request enters flight once, when the script admits it, leaves it by its
\* deadline or its release, and nothing else moves it.
LEMMA BudgetStep ==
  ASSUME TypeOK, Fresh, [Next]_vars
  PROVE  Keeps \/ Enters \/ Leaves
<1>. USE DEF TypeOK, Fresh, handlerVars, handleVars, taskVars, dbVars, cacheVars
<1>1. ASSUME NEW r \in Requests, ReadCached(r) PROVE Keeps \/ Enters \/ Leaves
  BY <1>1 DEF ReadCached, Given, Reading, Keeps, Live, Over
<1>2. ASSUME NEW r \in Requests, JoinLoad(r) PROVE Keeps \/ Enters \/ Leaves
  BY <1>2 DEF JoinLoad, Reading, Keeps, Live, Over
<1>3. ASSUME NEW r \in Requests, ReserveAdmitted(r) PROVE Keeps \/ Enters \/ Leaves
  <2>1. pc[r] = "seen" /\ Admits(r) /\ res' = [Purged EXCEPT ![r] = "live"]
    BY <1>3 DEF ReserveAdmitted
  <2>2. r \notin Live \cup Over /\ Live' = Live \cup {r} /\ Over' = Over
    BY <2>1, PurgedKeeps DEF Live, Over
  <2>. QED BY <2>1, <2>2 DEF Enters
<1>4. ASSUME NEW r \in Requests, ReserveRefused(r) PROVE Keeps \/ Enters \/ Leaves
  <2>1. res' = Purged
    BY <1>4 DEF ReserveRefused
  <2>. QED BY <2>1, PurgedKeeps DEF Keeps, Live, Over
<1>5. ASSUME NEW r \in Requests, ReserveFails(r) PROVE Keeps \/ Enters \/ Leaves
  <2>1. pc[r] = "seen"
    BY <1>5 DEF ReserveFails
  <2>2. CASE res' = res \/ res' = Purged
    BY <2>2, PurgedKeeps DEF Keeps, Live, Over
  <2>3. CASE Admits(r) /\ res' = [Purged EXCEPT ![r] = "live"]
    <3>1. r \notin Live \cup Over /\ Live' = Live \cup {r} /\ Over' = Over
      BY <2>1, <2>3, PurgedKeeps DEF Live, Over
    <3>. QED BY <2>3, <3>1 DEF Enters
  <2>. QED BY <1>5, <2>2, <2>3 DEF ReserveFails
<1>6. ASSUME NEW r \in Requests, HandlerReturns(r) PROVE Keeps \/ Enters \/ Leaves
  BY <1>6 DEF HandlerReturns, Keeps, Live, Over
<1>7. ASSUME NEW r \in Requests, HandlerDone(r) PROVE Keeps \/ Enters \/ Leaves
  BY <1>7 DEF HandlerDone, DecRef, Keeps, Live, Over
<1>8. ASSUME NEW r \in Requests, Renew(r) PROVE Keeps \/ Enters \/ Leaves
  BY <1>8 DEF Renew, Keeps, Live, Over
<1>9. ASSUME NEW r \in Requests, RenewalEnds(r) PROVE Keeps \/ Enters \/ Leaves
  BY <1>9 DEF RenewalEnds, Keeps, Live, Over
<1>10. ASSUME NEW r \in Requests, Expire(r) PROVE Keeps \/ Enters \/ Leaves
  <2>1. r \in Live /\ Live' = Live \ {r} /\ Over' = Over \cup {r}
    BY <1>10 DEF Expire, Live, Over
  <2>. QED BY <2>1 DEF Leaves
<1>11. ASSUME NEW r \in Requests, ReleaseCall(r) PROVE Keeps \/ Enters \/ Leaves
  <2>1. r \in handle /\ res[r] # "none"
    BY <1>11 DEF ReleaseCall
  <2>2. CASE res[r] = "live" /\ res' # res
    <3>1. r \in Live /\ Live' = Live \ {r} /\ Over' = Over \cup {r}
      BY <1>11, <2>2 DEF ReleaseCall, Live, Over
    <3>. QED BY <3>1 DEF Leaves
  <2>3. CASE res[r] # "live" \/ res' = res
    BY <1>11, <2>1, <2>3 DEF ReleaseCall, Keeps, Live, Over
  <2>. QED BY <2>2, <2>3
<1>12. ASSUME NEW t \in Tasks, SubmitQueued(t) PROVE Keeps \/ Enters \/ Leaves
  BY <1>12 DEF SubmitQueued, Submit, Acquire, Keeps, Live, Over
<1>13. ASSUME NEW t \in Tasks, SubmitInline(t) PROVE Keeps \/ Enters \/ Leaves
  BY <1>13 DEF SubmitInline, Submit, Acquire, Keeps, Live, Over
<1>14. ASSUME NEW t \in Tasks, SubmitDropped(t) PROVE Keeps \/ Enters \/ Leaves
  BY <1>14 DEF SubmitDropped, Submit, Keeps, Live, Over
<1>15. ASSUME NEW t \in Tasks, StartTask(t) PROVE Keeps \/ Enters \/ Leaves
  BY <1>15 DEF StartTask, Keeps, Live, Over
<1>16. ASSUME NEW t \in Tasks, ChargeApplied(t) PROVE Keeps \/ Enters \/ Leaves
  BY <1>16 DEF ChargeApplied, Keeps, Live, Over
<1>17. ASSUME NEW t \in Tasks, ChargeNotApplied(t) PROVE Keeps \/ Enters \/ Leaves
  BY <1>17 DEF ChargeNotApplied, Keeps, Live, Over
<1>18. ASSUME NEW t \in Tasks, ChargeFails(t) PROVE Keeps \/ Enters \/ Leaves
  BY <1>18 DEF ChargeFails, Keeps, Live, Over
<1>19. ASSUME NEW t \in Tasks, SyncCache(t) PROVE Keeps \/ Enters \/ Leaves
  BY <1>19 DEF SyncCache, Keeps, Live, Over
<1>20. ASSUME NEW t \in Tasks, FinishTask(t) PROVE Keeps \/ Enters \/ Leaves
  BY <1>20 DEF FinishTask, DecRef, Keeps, Live, Over
<1>21. ASSUME LoadRead PROVE Keeps \/ Enters \/ Leaves
  BY <1>21 DEF LoadRead, Keeps, Live, Over
<1>22. ASSUME LoadReturn PROVE Keeps \/ Enters \/ Leaves
  BY <1>22 DEF LoadReturn, Keeps, Live, Over
<1>23. ASSUME LoadFail PROVE Keeps \/ Enters \/ Leaves
  BY <1>23 DEF LoadFail, Keeps, Live, Over
<1>24. ASSUME ExpireCache PROVE Keeps \/ Enters \/ Leaves
  BY <1>24 DEF ExpireCache, Keeps, Live, Over
<1>25. ASSUME StopPool PROVE Keeps \/ Enters \/ Leaves
  BY <1>25 DEF StopPool, Keeps, Live, Over
<1>26. ASSUME NEW w \in BagToSet(writes), WriteCache(w) PROVE Keeps \/ Enters \/ Leaves
  BY <1>26 DEF WriteCache, Keeps, Live, Over
<1>27. ASSUME UNCHANGED vars PROVE Keeps \/ Enters \/ Leaves
  BY <1>27 DEF vars, Keeps, Live, Over
<1>. QED BY <1>1, <1>2, <1>3, <1>4, <1>5, <1>6, <1>7, <1>8, <1>9,
           <1>10, <1>11, <1>12, <1>13, <1>14, <1>15, <1>16, <1>17, <1>18,
           <1>19, <1>20, <1>21, <1>22, <1>23, <1>24, <1>25, <1>26, <1>27
         DEF Next, HandlerNext, ReservationNext, SubmitNext, WorkerNext, CacheNext

\* A reservation whose time is over never counts again.
THEOREM NeverRevivedHolds == Spec => NeverRevived
<1>1. ASSUME Inv, [Next]_vars
      PROVE  [\A r \in Requests :
                res[r] \in {"expired", "purged", "released"} => res'[r] # "live"]_vars
  <2>1. Over \subseteq Over'
    BY <1>1, BudgetStep DEF Inv, Keeps, Enters, Leaves
  <2>. QED BY <2>1 DEF Over
<1>. QED BY <1>1, InvHolds, PTL DEF Spec, NeverRevived

-----------------------------------------------------------------------------
(* Money: what is reserved and what is charged. *)

\* nobody has read more than the user began with
Bounded ==
    /\ db <= opening
    /\ cache # None => cache <= opening
    /\ loaded <= opening
    /\ \A r \in Requests : seen[r] <= opening
    /\ \A w \in BagToSet(writes) : IF w.kind = "set" THEN w.value <= opening ELSE w.value >= 0

FitsBound(w) == IF w.kind = "set" THEN w.value <= opening ELSE w.value >= 0

LEMMA BoundedWrites ==
  ASSUME NEW B, NEW w, FitsBound(w), \A x \in BagToSet(B) : FitsBound(x)
  PROVE  \A x \in BagToSet(B (+) SetToBag({w})) : FitsBound(x)
<1>1. BagToSet(B (+) SetToBag({w})) = BagToSet(B) \cup {w}
  BY BagPlus
<1>. QED BY <1>1

\* No step makes a balance that was read, cached or pending larger than the one
\* at the start: what may be written is a balance read or a cost to deduct.
LEMMA BoundedStep ==
  ASSUME TypeOK, Bounded, [Next]_vars
  PROVE  Bounded'
<1>. USE InflightAssumption
<1>. USE DEF TypeOK, Bounded, handlerVars, handleVars, taskVars, dbVars, cacheVars
<1>1. ASSUME NEW r \in Requests, ReadCached(r) PROVE Bounded'
  BY <1>1 DEF ReadCached, Given, Reading
<1>2. ASSUME NEW r \in Requests, JoinLoad(r) PROVE Bounded'
  BY <1>2 DEF JoinLoad, Reading
<1>3. ASSUME NEW r \in Requests, ReserveAdmitted(r) PROVE Bounded'
  BY <1>3 DEF ReserveAdmitted, Purged
<1>4. ASSUME NEW r \in Requests, ReserveRefused(r) PROVE Bounded'
  BY <1>4 DEF ReserveRefused, Purged
<1>5. ASSUME NEW r \in Requests, ReserveFails(r) PROVE Bounded'
  BY <1>5 DEF ReserveFails, Purged
<1>6. ASSUME NEW r \in Requests, HandlerReturns(r) PROVE Bounded'
  BY <1>6 DEF HandlerReturns
<1>7. ASSUME NEW r \in Requests, HandlerDone(r) PROVE Bounded'
  BY <1>7 DEF HandlerDone, DecRef
<1>8. ASSUME NEW r \in Requests, Renew(r) PROVE Bounded'
  BY <1>8 DEF Renew
<1>9. ASSUME NEW r \in Requests, RenewalEnds(r) PROVE Bounded'
  BY <1>9 DEF RenewalEnds
<1>10. ASSUME NEW r \in Requests, Expire(r) PROVE Bounded'
  BY <1>10 DEF Expire
<1>11. ASSUME NEW r \in Requests, ReleaseCall(r) PROVE Bounded'
  BY <1>11 DEF ReleaseCall
<1>12. ASSUME NEW t \in Tasks, SubmitQueued(t) PROVE Bounded'
  BY <1>12 DEF SubmitQueued, Submit, Acquire
<1>13. ASSUME NEW t \in Tasks, SubmitInline(t) PROVE Bounded'
  BY <1>13 DEF SubmitInline, Submit, Acquire
<1>14. ASSUME NEW t \in Tasks, SubmitDropped(t) PROVE Bounded'
  BY <1>14 DEF SubmitDropped, Submit
<1>15. ASSUME NEW t \in Tasks, StartTask(t) PROVE Bounded'
  BY <1>15 DEF StartTask
<1>16. ASSUME NEW t \in Tasks, ChargeApplied(t) PROVE Bounded'
  BY <1>16 DEF ChargeApplied, Commit, Claimable
<1>17. ASSUME NEW t \in Tasks, ChargeNotApplied(t) PROVE Bounded'
  BY <1>17 DEF ChargeNotApplied
<1>18. ASSUME NEW t \in Tasks, ChargeFails(t) PROVE Bounded'
  BY <1>18 DEF ChargeFails, Commit, Claimable
<1>19. ASSUME NEW t \in Tasks, SyncCache(t) PROVE Bounded'
  <2>1. FitsBound(DeductWrite(t))
    BY DEF FitsBound, DeductWrite
  <2>2. writes' = writes \/ writes' = writes (+) SetToBag({DeductWrite(t)})
    BY <1>19 DEF SyncCache
  <2>3. \A x \in BagToSet(writes) : FitsBound(x)
    BY DEF FitsBound
  <2>4. \A x \in BagToSet(writes') : FitsBound(x)
    BY <2>1, <2>2, <2>3, BoundedWrites
  <2>5. /\ cache' \in {cache, None} \/ (cache # None /\ \E n \in 0..2 : cache' = cache - n * Cost[t])
        /\ UNCHANGED <<opening, db, loaded, seen>>
    BY <1>19 DEF SyncCache, Deduct
  <2>6. \A n \in 0..2 : n * Cost[t] \in Nat
    OBVIOUS
  <2>7. cache' # None => cache' <= opening
    BY <2>5, <2>6
  <2>. QED BY <2>4, <2>5, <2>7 DEF FitsBound
<1>20. ASSUME NEW t \in Tasks, FinishTask(t) PROVE Bounded'
  BY <1>20 DEF FinishTask, DecRef
<1>21. ASSUME LoadRead PROVE Bounded'
  BY <1>21 DEF LoadRead
<1>22. ASSUME LoadReturn PROVE Bounded'
  <2>1. FitsBound(SetWrite(loaded))
    BY DEF FitsBound, SetWrite
  <2>2. writes' = writes \/ writes' = writes (+) SetToBag({SetWrite(loaded)})
    BY <1>22 DEF LoadReturn
  <2>3. \A x \in BagToSet(writes) : FitsBound(x)
    BY DEF FitsBound
  <2>4. \A x \in BagToSet(writes') : FitsBound(x)
    BY <2>1, <2>2, <2>3, BoundedWrites
  <2>5. /\ \A r \in Requests : seen'[r] \in {seen[r], loaded}
        /\ loaded' = 0 /\ UNCHANGED <<opening, db, cache>>
    BY <1>22 DEF LoadReturn
  <2>. QED BY <2>4, <2>5 DEF FitsBound
<1>23. ASSUME LoadFail PROVE Bounded'
  BY <1>23 DEF LoadFail
<1>24. ASSUME ExpireCache PROVE Bounded'
  BY <1>24 DEF ExpireCache
<1>25. ASSUME StopPool PROVE Bounded'
  BY <1>25 DEF StopPool
<1>26. ASSUME NEW w \in BagToSet(writes), WriteCache(w) PROVE Bounded'
  <2>1. BagToSet(writes') \subseteq BagToSet(writes)
    BY <1>26, BagMinus DEF WriteCache
  <2>2. cache' # None => cache' <= opening
    BY <1>26 DEF WriteCache
  <2>3. UNCHANGED <<opening, db, loaded, seen>>
    BY <1>26 DEF WriteCache
  <2>. QED BY <2>1, <2>2, <2>3
<1>27. ASSUME UNCHANGED vars PROVE Bounded'
  BY <1>27 DEF vars, handlerVars, handleVars, taskVars, dbVars, cacheVars
<1>. QED BY <1>1, <1>2, <1>3, <1>4, <1>5, <1>6, <1>7, <1>8, <1>9,
           <1>10, <1>11, <1>12, <1>13, <1>14, <1>15, <1>16, <1>17, <1>18,
           <1>19, <1>20, <1>21, <1>22, <1>23, <1>24, <1>25, <1>26, <1>27
         DEF Next, HandlerNext, ReservationNext, SubmitNext, WorkerNext, CacheNext

\* a step that charges a task under an id that nobody had claimed
Charges == \E t \in Tasks : Claimable(t) /\ Commit(t)

\* Only a commit changes the balance in the database.
LEMMA ChargeStep ==
  ASSUME [Next]_vars
  PROVE  UNCHANGED dbVars \/ Charges
<1>. USE DEF Charges, dbVars
<1>1. ASSUME NEW r \in Requests, ReadCached(r) PROVE UNCHANGED dbVars \/ Charges
  BY <1>1 DEF ReadCached, Given, Reading
<1>2. ASSUME NEW r \in Requests, JoinLoad(r) PROVE UNCHANGED dbVars \/ Charges
  BY <1>2 DEF JoinLoad, Reading
<1>3. ASSUME NEW r \in Requests, ReserveAdmitted(r) PROVE UNCHANGED dbVars \/ Charges
  BY <1>3 DEF ReserveAdmitted, Purged
<1>4. ASSUME NEW r \in Requests, ReserveRefused(r) PROVE UNCHANGED dbVars \/ Charges
  BY <1>4 DEF ReserveRefused, Purged
<1>5. ASSUME NEW r \in Requests, ReserveFails(r) PROVE UNCHANGED dbVars \/ Charges
  BY <1>5 DEF ReserveFails, Purged
<1>6. ASSUME NEW r \in Requests, HandlerReturns(r) PROVE UNCHANGED dbVars \/ Charges
  BY <1>6 DEF HandlerReturns
<1>7. ASSUME NEW r \in Requests, HandlerDone(r) PROVE UNCHANGED dbVars \/ Charges
  BY <1>7 DEF HandlerDone, DecRef
<1>8. ASSUME NEW r \in Requests, Renew(r) PROVE UNCHANGED dbVars \/ Charges
  BY <1>8 DEF Renew
<1>9. ASSUME NEW r \in Requests, RenewalEnds(r) PROVE UNCHANGED dbVars \/ Charges
  BY <1>9 DEF RenewalEnds
<1>10. ASSUME NEW r \in Requests, Expire(r) PROVE UNCHANGED dbVars \/ Charges
  BY <1>10 DEF Expire
<1>11. ASSUME NEW r \in Requests, ReleaseCall(r) PROVE UNCHANGED dbVars \/ Charges
  BY <1>11 DEF ReleaseCall
<1>12. ASSUME NEW t \in Tasks, SubmitQueued(t) PROVE UNCHANGED dbVars \/ Charges
  BY <1>12 DEF SubmitQueued, Submit, Acquire
<1>13. ASSUME NEW t \in Tasks, SubmitInline(t) PROVE UNCHANGED dbVars \/ Charges
  BY <1>13 DEF SubmitInline, Submit, Acquire
<1>14. ASSUME NEW t \in Tasks, SubmitDropped(t) PROVE UNCHANGED dbVars \/ Charges
  BY <1>14 DEF SubmitDropped, Submit
<1>15. ASSUME NEW t \in Tasks, StartTask(t) PROVE UNCHANGED dbVars \/ Charges
  BY <1>15 DEF StartTask
<1>16. ASSUME NEW t \in Tasks, ChargeApplied(t) PROVE UNCHANGED dbVars \/ Charges
  BY <1>16 DEF ChargeApplied
<1>17. ASSUME NEW t \in Tasks, ChargeNotApplied(t) PROVE UNCHANGED dbVars \/ Charges
  BY <1>17 DEF ChargeNotApplied
<1>18. ASSUME NEW t \in Tasks, ChargeFails(t) PROVE UNCHANGED dbVars \/ Charges
  BY <1>18 DEF ChargeFails
<1>19. ASSUME NEW t \in Tasks, SyncCache(t) PROVE UNCHANGED dbVars \/ Charges
  BY <1>19 DEF SyncCache, Deduct
<1>20. ASSUME NEW t \in Tasks, FinishTask(t) PROVE UNCHANGED dbVars \/ Charges
  BY <1>20 DEF FinishTask, DecRef
<1>21. ASSUME LoadRead PROVE UNCHANGED dbVars \/ Charges
  BY <1>21 DEF LoadRead
<1>22. ASSUME LoadReturn PROVE UNCHANGED dbVars \/ Charges
  BY <1>22 DEF LoadReturn
<1>23. ASSUME LoadFail PROVE UNCHANGED dbVars \/ Charges
  BY <1>23 DEF LoadFail
<1>24. ASSUME ExpireCache PROVE UNCHANGED dbVars \/ Charges
  BY <1>24 DEF ExpireCache
<1>25. ASSUME StopPool PROVE UNCHANGED dbVars \/ Charges
  BY <1>25 DEF StopPool
<1>26. ASSUME NEW w \in BagToSet(writes), WriteCache(w) PROVE UNCHANGED dbVars \/ Charges
  BY <1>26 DEF WriteCache
<1>27. ASSUME UNCHANGED vars PROVE UNCHANGED dbVars \/ Charges
  BY <1>27 DEF vars, handlerVars, handleVars, taskVars, dbVars, cacheVars
<1>. QED BY <1>1, <1>2, <1>3, <1>4, <1>5, <1>6, <1>7, <1>8, <1>9,
           <1>10, <1>11, <1>12, <1>13, <1>14, <1>15, <1>16, <1>17, <1>18,
           <1>19, <1>20, <1>21, <1>22, <1>23, <1>24, <1>25, <1>26, <1>27
         DEF Next, HandlerNext, ReservationNext, SubmitNext, WorkerNext, CacheNext

\* The budget stays within the balance.
LEMMA WithinStep ==
  ASSUME TypeOK, Fresh, Bounded, ReservedWithinBalance, [Next]_vars
  PROVE  ReservedWithinBalance'
<1>. USE InflightAssumption
<1>1. opening' = opening
  BY ChargeStep DEF Charges, Commit, dbVars
<1>2. IsFiniteSet(Live) /\ \A r \in Requests : Estimate[r] \in Nat
  BY FS_Subset DEF Live
<1>3. Reserved \in Nat
  BY <1>2, SumNat DEF Reserved, Live
<1>4. CASE Keeps \/ Leaves
  <2>1. Reserved' <= Reserved /\ Reserved' \in Nat
    <3>1. Live' \in SUBSET Live
      BY <1>4 DEF Keeps, Leaves
    <3>2. SumFunctionOnSet(Estimate, Live') <= SumFunctionOnSet(Estimate, Live)
      BY <1>2, <3>1, SumSubset DEF Live
    <3>3. SumFunctionOnSet(Estimate, Live') \in Nat
      <4>1. IsFiniteSet(Live')
        BY <1>2, <3>1, FS_Subset
      <4>. QED BY <1>2, <4>1, SumNat DEF Live
    <3>. QED BY <3>2, <3>3 DEF Reserved
  <2>. QED BY <1>1, <1>2, <1>3, <2>1 DEF ReservedWithinBalance, TypeOK
<1>5. CASE Enters
  <2>1. PICK r \in Requests : r \notin Live /\ Admits(r) /\ Live' = Live \cup {r}
    BY <1>5 DEF Enters
  <2>2. SumFunctionOnSet(Estimate, Live \cup {r}) = SumFunctionOnSet(Estimate, Live) + Estimate[r]
    <3>1. \A q \in Live \cup {r} : Estimate[q] \in Int
      BY <1>2 DEF Live
    <3>. QED BY <1>2, <2>1, <3>1, SumAdd
  <2>3. Reserved' = Reserved + Estimate[r]
    BY <2>1, <2>2 DEF Reserved
  <2>4. CASE Live = {}
    <3>1. Reserved' = Estimate[r]
      BY <1>2, <2>3, <2>4, SumEmpty DEF Reserved
    <3>. QED BY <1>2, <3>1 DEF ReservedWithinBalance
  <2>5. CASE seen[r] - Reserved >= Estimate[r]
    <3>1. seen[r] <= opening /\ seen[r] \in Int /\ opening \in Int
      BY DEF Bounded, TypeOK
    <3>2. Reserved' <= opening
      BY <1>2, <1>3, <2>3, <2>5, <3>1
    <3>. QED BY <1>1, <3>2 DEF ReservedWithinBalance
  <2>. QED BY <2>1, <2>4, <2>5 DEF Admits
<1>. QED BY <1>4, <1>5, BudgetStep

\* A commit takes the cost of the task that now has the id.
LEMMA ChargedStep ==
  ASSUME TypeOK, ChargedOnce, [Next]_vars
  PROVE  ChargedOnce'
<1>. USE InflightAssumption
<1>. DEFINE Payers == {t \in Tasks : dedup[BillId[t]] = t}
<1>1. CASE UNCHANGED dbVars
  BY <1>1 DEF dbVars, ChargedOnce
<1>2. CASE Charges
  <2>1. PICK t \in Tasks : Claimable(t) /\ Commit(t)
    BY <1>2 DEF Charges
  <2>2. /\ dedup[BillId[t]] = None /\ dedup' = [dedup EXCEPT ![BillId[t]] = t]
        /\ db' = db - Cost[t] /\ opening' = opening
    BY <2>1 DEF Claimable, Commit
  <2>3. \A u \in Tasks : BillId[u] \in Ids
    BY DEF Ids
  <2>4. Payers' = Payers \cup {t} /\ t \notin Payers
    BY <2>2, <2>3 DEF TypeOK
  <2>5. IsFiniteSet(Payers) /\ Payers \subseteq Tasks
    BY FS_Subset
  <2>6. \A u \in Tasks : Cost[u] \in Int
    OBVIOUS
  <2>. HIDE DEF Payers
  <2>7. SumFunctionOnSet(Cost, Payers \cup {t}) = SumFunctionOnSet(Cost, Payers) + Cost[t]
    BY <2>4, <2>5, <2>6, SumAdd
  <2>8. SumFunctionOnSet(Cost, Payers) \in Int
    BY <2>5, <2>6, SumInt
  <2>9. db = opening - SumFunctionOnSet(Cost, Payers)
    BY DEF ChargedOnce, Payers
  <2>10. db' = opening' - SumFunctionOnSet(Cost, Payers')
    BY <2>2, <2>4, <2>6, <2>7, <2>8, <2>9 DEF TypeOK
  <2>. QED BY <2>10 DEF ChargedOnce, Payers
<1>. QED BY <1>1, <1>2, ChargeStep

Money == Bounded /\ ReservedWithinBalance /\ ChargedOnce

LEMMA MoneyInit == Init => Money
<1>. SUFFICES ASSUME Init PROVE Money
  OBVIOUS
<1>. USE InflightAssumption
<1>1. opening \in Nat /\ db = opening
  BY DEF Init
<1>2. \A w \in BagToSet(writes) : IF w.kind = "set" THEN w.value <= opening ELSE w.value >= 0
  BY BagNone DEF Init
<1>3. Bounded
  BY <1>1, <1>2 DEF Init, Bounded
<1>4. ReservedWithinBalance
  <2>1. Live = {}
    BY DEF Init, Live
  <2>2. Reserved = 0
    BY <2>1, SumEmpty DEF Reserved
  <2>. QED BY <1>1, <2>2 DEF ReservedWithinBalance
<1>5. ChargedOnce
  <2>. DEFINE Payers == {t \in Tasks : dedup[BillId[t]] = t}
  <2>1. Payers = {}
    BY DEF Init, Ids
  <2>. HIDE DEF Payers
  <2>2. SumFunctionOnSet(Cost, Payers) = 0
    BY <2>1, SumEmpty
  <2>3. db = opening - SumFunctionOnSet(Cost, Payers)
    BY <1>1, <2>2
  <2>. QED BY <2>3 DEF ChargedOnce, Payers
<1>. QED BY <1>3, <1>4, <1>5 DEF Money

\* No request reads more than the user began with, and what is charged is
\* what the claimed ids cost.
THEOREM MoneyHolds == Spec => []Money
<1>1. Inv /\ Money /\ [Next]_vars => Money'
  BY BoundedStep, WithinStep, ChargedStep DEF Inv, Money
<1>. QED BY <1>1, MoneyInit, InvHolds, PTL DEF Spec

\* The requests in flight reserve together no more than the user had, or than
\* the one request that is always let in, whatever balances they read.
THEOREM ReservedWithin == Spec => []ReservedWithinBalance
<1>1. Money => ReservedWithinBalance
  BY DEF Money
<1>. QED BY <1>1, MoneyHolds, PTL

\* Every billing id is charged once.
THEOREM ChargedOnceHolds == Spec => []ChargedOnce
<1>1. Money => ChargedOnce
  BY DEF Money
<1>. QED BY <1>1, MoneyHolds, PTL
-----------------------------------------------------------------------------
(* The abstract budget. *)

\* both modules take the sum from the library
LEMMA SameSum ==
  ASSUME NEW F, NEW S
  PROVE  Budget!SumFunctionOnSet(F, S) = SumFunctionOnSet(F, S)
  BY DEF Budget!SumFunctionOnSet, Budget!FoldFunctionOnSet, Budget!MapThenFoldSet,
         SumFunctionOnSet, FoldFunctionOnSet, MapThenFoldSet

\* What the script admits is covered by the balance the user began with, since
\* no request read more than that.
LEMMA AdmittedCovered ==
  ASSUME TypeOK, Bounded, NEW r \in Requests, Admits(r)
  PROVE  Budget!Covered(r)
<1>. SUFFICES ASSUME Live # {}
              PROVE  SumFunctionOnSet(Estimate, Live) + Estimate[r] <= opening
  BY SameSum DEF Budget!Covered
<1>1. IsFiniteSet(Live) /\ \A q \in Live : Estimate[q] \in Int
  BY InflightAssumption, FS_Subset DEF Live
<1>2. SumFunctionOnSet(Estimate, Live) \in Int
  BY <1>1, SumInt
<1>3. seen[r] - SumFunctionOnSet(Estimate, Live) >= Estimate[r]
  BY DEF Admits, Reserved
<1>4. seen[r] <= opening /\ seen[r] \in Int /\ opening \in Int /\ Estimate[r] \in Int
  BY InflightAssumption DEF Bounded, TypeOK
<1>. QED BY <1>2, <1>3, <1>4

\* Every step is a step of the budget or leaves it alone.
LEMMA BudgetRefined ==
  ASSUME TypeOK, Fresh, Bounded, [Next]_vars
  PROVE  [Budget!BudgetNext]_(Budget!budgetVars)
<1>1. opening' = opening
  BY ChargeStep DEF Charges, Commit, dbVars
<1>2. CASE Keeps
  BY <1>1, <1>2 DEF Keeps, Budget!budgetVars
<1>3. CASE Enters
  <2>1. PICK r \in Requests :
          r \notin Live \cup Over /\ Admits(r) /\ Live' = Live \cup {r} /\ Over' = Over
    BY <1>3 DEF Enters
  <2>2. Budget!Enter(r)
    BY <1>1, <2>1, AdmittedCovered DEF Budget!Enter
  <2>. QED BY <2>2 DEF Budget!BudgetNext
<1>4. CASE Leaves
  <2>1. PICK r \in Live : Live' = Live \ {r} /\ Over' = Over \cup {r}
    BY <1>4 DEF Leaves
  <2>2. Budget!Leave(r) /\ r \in Requests
    BY <1>1, <2>1 DEF Budget!Leave, Live
  <2>. QED BY <2>2 DEF Budget!BudgetNext
<1>. QED BY <1>2, <1>3, <1>4, BudgetStep

\* The reservation script, its renewals, late answers, deadlines and releases
\* implement the budget: a request flies at most once, and beside others only
\* if the balance at the start covers all of them.
THEOREM BudgetImplemented == Spec => ImplementsBudget
<1>1. Init => Budget!BudgetInit
  BY InflightAssumption DEF Init, Live, Over, Budget!BudgetInit
<1>2. Inv /\ Money /\ [Next]_vars => [Budget!BudgetNext]_(Budget!budgetVars)
  BY BudgetRefined DEF Inv, Money
<1>. QED BY <1>1, <1>2, InvHolds, MoneyHolds, PTL DEF Spec, ImplementsBudget, Budget!BudgetSpec
=============================================================================
