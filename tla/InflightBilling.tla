--------------------------- MODULE InflightBilling ---------------------------
(***************************************************************************)
(* Admission and billing of balance-mode requests of ONE user: the cached  *)
(* balance, the in-flight reservation that a request holds in Redis from   *)
(* its admission until its billing tasks have run, the usage worker pool   *)
(* that runs those tasks, and the charge in the database.                  *)
(*                                                                         *)
(* A request reads the balance twice (CheckBillingEligibility, then        *)
(* ReserveInflight), registers a reservation, is served, submits billing   *)
(* tasks that each take a reference to the reservation, and gives its own  *)
(* reference back when the handler returns.  The reservation is renewed    *)
(* while the handler runs, and expires by its TTL afterwards.              *)
(*                                                                         *)
(* Money is an integer.  Redis calls and commits may fail, or succeed with *)
(* the answer lost, when Faults is TRUE.                                   *)
(***************************************************************************)
EXTENDS Integers, FiniteSets, Bags, FiniteSetsExt

CONSTANTS
    Requests,     \* balance-mode requests of the user
    Tasks,        \* billing tasks the handlers submit
    OwnerOf,      \* the request that submits a task
    BillId,       \* the billing id a task charges under (request id)
    Mandatory,    \* the tasks that are never dropped (media, search, voice)
    Estimate,     \* what a request reserves
    Cost,         \* what a task charges
    Openings,     \* the balances the user may start with
    MinReserve,   \* MinimumBalanceReserve of the configuration
    QueueSize,    \* bound of the worker pool's queue
    WriteSize,    \* bound of the cache writer's queue
    Faults,       \* may Redis calls and commits fail?
    None

ASSUME InflightAssumption ==
    /\ IsFiniteSet(Requests) /\ IsFiniteSet(Tasks)
    /\ OwnerOf \in [Tasks -> Requests]
    /\ Mandatory \subseteq Tasks
    /\ Estimate \in [Requests -> Nat \ {0}]
    /\ Cost \in [Tasks -> Nat \ {0}]
    /\ Openings \subseteq Nat /\ MinReserve \in Nat
    /\ QueueSize \in Nat /\ WriteSize \in Nat
    /\ Faults \in BOOLEAN
    /\ None \notin Int /\ None \notin Tasks

VARIABLES
    pc,        \* where the handler of a request is
    waiting,   \* the requests that wait for the shared load of the balance
    seen,      \* the balance a request read before it reserves
    handle,    \* the requests that hold an InflightReservation
    refs,      \* its reference count
    renewal,   \* its renewal goroutine
    release,   \* its releaseOnce
    res,       \* the reservation in Redis (the sorted set and the hash)
    task,      \* where a billing task is
    held,      \* the tasks that took a reference
    inline,    \* the tasks that run in the handler's goroutine
    newBalance,\* the balance the charge of a task returned
    stopped,   \* the worker pool was stopped
    opening,   \* users.balance at the start
    db,        \* users.balance
    dedup,     \* usage_billing_dedup: the task that claimed a billing id
    cache,     \* the cached balance
    load,      \* the singleflight load of the balance: "idle", "open", "read"
    loaded,    \* the balance it read
    writes     \* the cache writer's queue (many workers: a bag)

handlerVars == <<pc, waiting, seen>>
handleVars  == <<handle, refs, renewal, release>>
taskVars    == <<task, held, inline, newBalance>>
dbVars      == <<opening, db, dedup>>
cacheVars   == <<cache, load, loaded, writes>>
vars == <<handlerVars, handleVars, res, taskVars, stopped, dbVars, cacheVars>>

Ids == {BillId[t] : t \in Tasks}
TasksOf(r) == {t \in Tasks : OwnerOf[t] = r}
SetWrite(v) == [kind |-> "set", value |-> v]
DeductWrite(t) == [kind |-> "deduct", value |-> Cost[t]]

TypeOK ==
    /\ pc \in [Requests -> {"start", "checked", "seen", "serving", "returning",
                            "done", "rejected"}]
    /\ waiting \subseteq Requests
    /\ seen \in [Requests -> Int]
    /\ handle \subseteq Requests
    /\ refs \in [Requests -> Int]
    /\ renewal \in [Requests -> {"off", "on", "stopping"}]
    /\ release \in [Requests -> {"no", "todo", "done"}]
    /\ res \in [Requests -> {"none", "live", "expired", "purged", "released"}]
    /\ task \in [Tasks -> {"none", "queued", "running", "charged", "end",
                           "dropped", "finished"}]
    /\ held \subseteq Tasks
    /\ inline \subseteq Tasks
    /\ newBalance \in [Tasks -> Int]
    /\ stopped \in BOOLEAN
    /\ opening \in Nat
    /\ db \in Int
    /\ dedup \in [Ids -> Tasks \cup {None}]
    /\ cache \in Int \cup {None}
    /\ load \in {"idle", "open", "read"}
    /\ loaded \in Int
    /\ \A w \in BagToSet(writes) : w.kind \in {"set", "deduct"} /\ w.value \in Int

Init ==
    /\ pc = [r \in Requests |-> "start"]
    /\ waiting = {}
    /\ seen = [r \in Requests |-> 0]
    /\ handle = {}
    /\ refs = [r \in Requests |-> 0]
    /\ renewal = [r \in Requests |-> "off"]
    /\ release = [r \in Requests |-> "no"]
    /\ res = [r \in Requests |-> "none"]
    /\ task = [t \in Tasks |-> "none"]
    /\ held = {}
    /\ inline = {}
    /\ newBalance = [t \in Tasks |-> 0]
    /\ stopped = FALSE
    /\ opening \in Openings
    /\ db = opening
    /\ dedup = [i \in Ids |-> None]
    /\ cache = None
    /\ load = "idle"
    /\ loaded = 0
    /\ writes = EmptyBag

-----------------------------------------------------------------------------
(* Reading the balance: GetUserBalance.                                    *)

BelowThreshold(b) == b <= 0 \/ (MinReserve > 0 /\ b < MinReserve)

\* what a request does with a balance it was given: the eligibility check of
\* a first read, the value kept for the reservation of a second one
Given(r, v) ==
    /\ pc' = [pc EXCEPT ![r] =
                IF pc[r] = "checked" THEN "seen"
                ELSE IF BelowThreshold(v) THEN "rejected" ELSE "checked"]
    /\ seen' = [seen EXCEPT ![r] = IF pc[r] = "checked" THEN v ELSE @]

Reading(r) == pc[r] \in {"start", "checked"} /\ r \notin waiting

ReadCached(r) ==
    /\ Reading(r) /\ cache # None
    /\ Given(r, cache)
    /\ UNCHANGED <<waiting, handleVars, res, taskVars, stopped, dbVars, cacheVars>>

\* a miss (or an error of Redis) joins the singleflight load, which the first
\* caller starts
JoinLoad(r) ==
    /\ Reading(r) /\ (cache = None \/ Faults)
    /\ waiting' = waiting \cup {r}
    /\ load' = IF load = "idle" THEN "open" ELSE load
    /\ UNCHANGED <<pc, seen, handleVars, res, taskVars, stopped, dbVars, cache, loaded, writes>>

LoadRead ==
    /\ load = "open"
    /\ load' = "read"
    /\ loaded' = db
    /\ UNCHANGED <<handlerVars, handleVars, res, taskVars, stopped, dbVars, cache, writes>>

CanEnqueueWrite == BagCardinality(writes) < WriteSize

\* the loader queues the write of the cache (dropped when the queue is full)
\* and the value goes to everyone who joined
LoadReturn ==
    /\ load = "read"
    /\ writes' = IF CanEnqueueWrite THEN writes (+) SetToBag({SetWrite(loaded)}) ELSE writes
    /\ pc' = [r \in Requests |->
                IF r \notin waiting THEN pc[r]
                ELSE IF pc[r] = "checked" THEN "seen"
                ELSE IF BelowThreshold(loaded) THEN "rejected" ELSE "checked"]
    /\ seen' = [r \in Requests |->
                IF r \in waiting /\ pc[r] = "checked" THEN loaded ELSE seen[r]]
    /\ waiting' = {}
    /\ load' = "idle"
    /\ loaded' = 0
    /\ UNCHANGED <<handleVars, res, taskVars, stopped, dbVars, cache>>

\* the database read fails: the eligibility check refuses, the reservation
\* lets the request through without one
LoadFail ==
    /\ Faults /\ load = "open"
    /\ pc' = [r \in Requests |->
                IF r \notin waiting THEN pc[r]
                ELSE IF pc[r] = "checked" THEN "serving" ELSE "rejected"]
    /\ waiting' = {}
    /\ load' = "idle"
    /\ UNCHANGED <<seen, handleVars, res, taskVars, stopped, dbVars, cache, loaded, writes>>

\* a worker of the cache writer
WriteCache(w) ==
    /\ BagIn(w, writes)
    /\ writes' = writes (-) SetToBag({w})
    /\ \/ cache' = IF w.kind = "set" THEN w.value
                   ELSE IF cache = None THEN None ELSE cache - w.value
       \/ Faults /\ cache' = cache
    /\ UNCHANGED <<handlerVars, handleVars, res, taskVars, stopped, dbVars, load, loaded>>

\* the TTL of the cached balance
ExpireCache ==
    /\ cache # None
    /\ cache' = None
    /\ UNCHANGED <<handlerVars, handleVars, res, taskVars, stopped, dbVars, load, loaded, writes>>

-----------------------------------------------------------------------------
(* The reservation.                                                        *)

Live == {r \in Requests : res[r] = "live"}
Reserved == SumFunctionOnSet(Estimate, Live)
\* Mutant: the script removes every member, whatever its deadline.
PurgedAll == [r \in Requests |-> IF res[r] \in {"live", "expired"} THEN "purged" ELSE res[r]]

\* the members whose time is over are removed by whoever runs the script next
Purged == [r \in Requests |-> IF res[r] = "expired" THEN "purged" ELSE res[r]]

\* Mutant: the other reservations are not counted.
AdmitsAlone(r) == seen[r] >= Estimate[r]

\* reserveInflightBalanceScript lets the first reservation in, and a further
\* one when the balance the caller read covers it beside the others
Admits(r) == Live = {} \/ seen[r] - Reserved >= Estimate[r]

ReserveAdmitted(r) ==
    /\ pc[r] = "seen" /\ Admits(r)
    /\ res' = [Purged EXCEPT ![r] = "live"]
    /\ handle' = handle \cup {r}
    /\ refs' = [refs EXCEPT ![r] = 1]
    /\ renewal' = [renewal EXCEPT ![r] = "on"]
    /\ pc' = [pc EXCEPT ![r] = "serving"]
    /\ seen' = [seen EXCEPT ![r] = 0]
    /\ UNCHANGED <<waiting, release, taskVars, stopped, dbVars, cacheVars>>

\* Mutant: the refusal is a status that the handler does not know.
ReserveRefusedUnknown(r) ==
    /\ pc[r] = "seen" /\ ~Admits(r)
    /\ res' = Purged
    /\ pc' = [pc EXCEPT ![r] = "refused"]
    /\ seen' = [seen EXCEPT ![r] = 0]
    /\ UNCHANGED <<waiting, handleVars, taskVars, stopped, dbVars, cacheVars>>

ReserveRefused(r) ==
    /\ pc[r] = "seen" /\ ~Admits(r)
    /\ res' = Purged
    /\ pc' = [pc EXCEPT ![r] = "rejected"]
    /\ seen' = [seen EXCEPT ![r] = 0]
    /\ UNCHANGED <<waiting, handleVars, taskVars, stopped, dbVars, cacheVars>>

\* the call fails: the request is served without a handle, whether or not the
\* script ran
ReserveFails(r) ==
    /\ Faults /\ pc[r] = "seen"
    /\ \/ UNCHANGED res
       \/ Admits(r) /\ res' = [Purged EXCEPT ![r] = "live"]
       \/ ~Admits(r) /\ res' = Purged
    /\ pc' = [pc EXCEPT ![r] = "serving"]
    /\ seen' = [seen EXCEPT ![r] = 0]
    /\ UNCHANGED <<waiting, handleVars, taskVars, stopped, dbVars, cacheVars>>

\* Mutant: the script renews a member without looking at its deadline.
RenewRevives(r) ==
    /\ renewal[r] # "off" /\ res[r] # "live"
    /\ res' = IF res[r] = "expired" THEN [res EXCEPT ![r] = "live"] ELSE res
    /\ renewal' = IF res[r] = "expired" THEN renewal ELSE [renewal EXCEPT ![r] = "off"]
    /\ UNCHANGED <<handlerVars, handle, refs, release, taskVars, stopped, dbVars, cacheVars>>

\* one tick of the renewal goroutine: a live member gets a new deadline, one
\* whose time is over is removed and the goroutine ends
Renew(r) ==
    /\ renewal[r] # "off" /\ res[r] # "live"
    /\ res' = IF res[r] = "expired" THEN [res EXCEPT ![r] = "purged"] ELSE res
    /\ renewal' = [renewal EXCEPT ![r] = "off"]
    /\ UNCHANGED <<handlerVars, handle, refs, release, taskVars, stopped, dbVars, cacheVars>>

\* the goroutine sees that stopRenew is closed
RenewalEnds(r) ==
    /\ renewal[r] = "stopping"
    /\ renewal' = [renewal EXCEPT ![r] = "off"]
    /\ UNCHANGED <<handlerVars, handle, refs, release, res, taskVars, stopped, dbVars, cacheVars>>

\* the deadline of a member passes: no renewal came in time (none runs, or
\* its calls fail or are late)
Expire(r) ==
    /\ res[r] = "live" /\ (renewal[r] = "off" \/ Faults)
    /\ res' = [res EXCEPT ![r] = "expired"]
    /\ UNCHANGED <<handlerVars, handleVars, taskVars, stopped, dbVars, cacheVars>>

\* Mutant: the count is compared before it is lowered.
DecRefEarly(r) ==
    /\ refs' = [refs EXCEPT ![r] = @ - 1]
    /\ release' = [release EXCEPT ![r] =
                     IF refs[r] - 1 <= 1 /\ @ = "no" THEN "todo" ELSE @]

\* decRef: the last reference calls Release, whose body runs once
DecRef(r) ==
    /\ refs' = [refs EXCEPT ![r] = @ - 1]
    /\ release' = [release EXCEPT ![r] =
                     IF refs[r] - 1 <= 0 /\ @ = "no" THEN "todo" ELSE @]

\* the body of Release
ReleaseCall(r) ==
    /\ release[r] = "todo" /\ renewal[r] = "off"
    /\ release' = [release EXCEPT ![r] = "done"]
    /\ refs' = [refs EXCEPT ![r] = 0]
    /\ \/ res' = [res EXCEPT ![r] = IF @ = "live" THEN "released" ELSE "purged"]
       \/ Faults /\ UNCHANGED res
    /\ UNCHANGED <<handlerVars, handle, renewal, taskVars, stopped, dbVars, cacheVars>>

\* the handler returns: HandlerDone stops the renewal ...
HandlerReturns(r) ==
    /\ pc[r] = "serving"
    /\ \A t \in TasksOf(r) \cap inline : task[t] = "finished"
    /\ pc' = [pc EXCEPT ![r] = IF r \in handle THEN "returning" ELSE "done"]
    /\ renewal' = [renewal EXCEPT ![r] = IF @ = "on" THEN "stopping" ELSE @]
    /\ UNCHANGED <<waiting, seen, handle, refs, release, res, taskVars, stopped, dbVars, cacheVars>>

\* ... waits for it to end, and gives the handler's reference back
HandlerDone(r) ==
    /\ pc[r] = "returning" /\ renewal[r] = "off"
    /\ pc' = [pc EXCEPT ![r] = "done"]
    /\ DecRef(r)
    /\ UNCHANGED <<waiting, seen, handle, renewal, res, taskVars, stopped, dbVars, cacheVars>>

-----------------------------------------------------------------------------
(* Billing tasks: submitUsageRecordTask and the worker pool.               *)

Queued == {t \in Tasks : task[t] = "queued"}

\* Acquire by a task of a request that holds a handle (a count of 0 would
\* give a no-op)
Acquire(t) ==
    LET r == OwnerOf[t] IN
    IF r \in handle /\ refs[r] > 0
    THEN /\ refs' = [refs EXCEPT ![r] = @ + 1]
         /\ held' = held \cup {t}
    ELSE UNCHANGED <<refs, held>>

Submit(t) ==
    /\ pc[OwnerOf[t]] = "serving" /\ task[t] = "none"
    /\ \A u \in TasksOf(OwnerOf[t]) \cap inline : task[u] = "finished"
    /\ UNCHANGED <<handlerVars, handle, renewal, release, res, newBalance, stopped, dbVars, cacheVars>>

SubmitQueued(t) ==
    /\ Submit(t)
    /\ ~stopped /\ Cardinality(Queued) < QueueSize
    /\ task' = [task EXCEPT ![t] = "queued"]
    /\ Acquire(t)
    /\ UNCHANGED inline

\* the pool is stopped, or it is full and the overflow policy says sync or the
\* task is mandatory: the handler runs the task itself
SubmitInline(t) ==
    /\ Submit(t)
    /\ stopped \/ Cardinality(Queued) >= QueueSize
    /\ task' = [task EXCEPT ![t] = "running"]
    /\ inline' = inline \cup {t}
    /\ Acquire(t)

\* Mutant: the reference of a dropped task is not given back.
SubmitDroppedHolding(t) ==
    /\ Submit(t)
    /\ ~stopped /\ Cardinality(Queued) >= QueueSize /\ t \notin Mandatory
    /\ task' = [task EXCEPT ![t] = "dropped"]
    /\ Acquire(t)
    /\ UNCHANGED inline

\* the pool is full and the policy drops the task: the reference is given
\* back at once (abandon)
SubmitDropped(t) ==
    /\ Submit(t)
    /\ ~stopped /\ Cardinality(Queued) >= QueueSize /\ t \notin Mandatory
    /\ task' = [task EXCEPT ![t] = "dropped"]
    /\ UNCHANGED <<refs, held, inline>>

StopPool ==
    /\ ~stopped
    /\ stopped' = TRUE
    /\ UNCHANGED <<handlerVars, handleVars, res, taskVars, dbVars, cacheVars>>

StartTask(t) ==
    /\ task[t] = "queued"
    /\ task' = [task EXCEPT ![t] = "running"]
    /\ UNCHANGED <<handlerVars, handleVars, res, held, inline, newBalance, stopped, dbVars, cacheVars>>

\* Mutant: a second charge under the same id is applied as well.
ClaimableAlways(t) == t \in Tasks

Claimable(t) == dedup[BillId[t]] = None
Commit(t) ==
    /\ dedup' = [dedup EXCEPT ![BillId[t]] = t]
    /\ db' = db - Cost[t]
    /\ UNCHANGED opening

\* usage_billing Apply: the id is claimed and the balance charged in one
\* transaction
ChargeApplied(t) ==
    /\ task[t] = "running" /\ Claimable(t)
    /\ Commit(t)
    /\ newBalance' = [newBalance EXCEPT ![t] = db']
    /\ task' = [task EXCEPT ![t] = "charged"]
    /\ UNCHANGED <<handlerVars, handleVars, res, held, inline, stopped, cacheVars>>

\* nothing is charged: the id was claimed before, with the same fingerprint
\* (not applied) or with another (an error); the caller ends the same way
ChargeNotApplied(t) ==
    /\ task[t] = "running" /\ ~Claimable(t)
    /\ task' = [task EXCEPT ![t] = "end"]
    /\ UNCHANGED <<handlerVars, handleVars, res, held, inline, newBalance, stopped, dbVars, cacheVars>>

\* the transaction fails, or commits and the answer is lost: the caller
\* leaves the cache alone
ChargeFails(t) ==
    /\ Faults /\ task[t] = "running"
    /\ \/ UNCHANGED dbVars
       \/ Claimable(t) /\ Commit(t)
    /\ task' = [task EXCEPT ![t] = "end"]
    /\ UNCHANGED <<handlerVars, handleVars, res, held, inline, newBalance, stopped, cacheVars>>

Deduct(t, times) == cache' = IF cache = None THEN None ELSE cache - times * Cost[t]

\* syncBalanceCacheAfterDeduction: below the threshold the cached balance is
\* deleted, otherwise the charge is deducted from it; a call that fails, with
\* or without effect, is repeated through the queue, or at once when that is full
SyncCache(t) ==
    /\ task[t] = "charged"
    /\ task' = [task EXCEPT ![t] = "end"]
    /\ IF BelowThreshold(newBalance[t])
       THEN /\ cache' = None \/ (Faults /\ UNCHANGED cache)
            /\ UNCHANGED writes
       ELSE \/ Deduct(t, 1) /\ UNCHANGED writes
            \/ /\ Faults /\ CanEnqueueWrite
               /\ writes' = writes (+) SetToBag({DeductWrite(t)})
               /\ \E n \in 0..1 : Deduct(t, n)
            \/ /\ Faults /\ ~CanEnqueueWrite
               /\ \E n \in 0..2 : Deduct(t, n)
               /\ UNCHANGED writes
    /\ newBalance' = [newBalance EXCEPT ![t] = 0]
    /\ UNCHANGED <<handlerVars, handleVars, res, held, inline, stopped, dbVars, load, loaded>>

\* the task returns (or panics): its reference is given back
FinishTask(t) ==
    /\ task[t] = "end"
    /\ task' = [task EXCEPT ![t] = "finished"]
    /\ IF t \in held THEN DecRef(OwnerOf[t]) ELSE UNCHANGED <<refs, release>>
    /\ UNCHANGED <<handlerVars, handle, renewal, res, held, inline, newBalance, stopped, dbVars, cacheVars>>

-----------------------------------------------------------------------------

HandlerNext(r) ==
    \/ ReadCached(r) \/ JoinLoad(r)
    \/ ReserveAdmitted(r) \/ ReserveRefused(r) \/ ReserveFails(r)
    \/ HandlerReturns(r) \/ HandlerDone(r)
ReservationNext(r) == Renew(r) \/ RenewalEnds(r) \/ Expire(r) \/ ReleaseCall(r)
SubmitNext(t) == SubmitQueued(t) \/ SubmitInline(t) \/ SubmitDropped(t)
WorkerNext(t) ==
    \/ StartTask(t) \/ ChargeApplied(t) \/ ChargeNotApplied(t) \/ ChargeFails(t)
    \/ SyncCache(t) \/ FinishTask(t)
CacheNext ==
    \/ LoadRead \/ LoadReturn \/ LoadFail \/ ExpireCache
    \/ \E w \in BagToSet(writes) : WriteCache(w)

Next ==
    \/ \E r \in Requests : HandlerNext(r) \/ ReservationNext(r)
    \/ \E t \in Tasks : SubmitNext(t) \/ WorkerNext(t)
    \/ CacheNext
    \/ StopPool

Spec == Init /\ [][Next]_vars

-----------------------------------------------------------------------------
(* Properties.                                                             *)

\* a task that took a reference and has not given it back
HoldsRef(t) == t \in held /\ task[t] \notin {"none", "dropped", "finished"}
HandlerHolds(r) == r \in handle /\ pc[r] \in {"serving", "returning"}
Open(r) == HandlerHolds(r) \/ \E t \in TasksOf(r) : HoldsRef(t)

\* A reservation is not released while its handler runs or while one of its
\* billing tasks has not yet charged and dealt with the cached balance, in
\* whatever order handler, tasks, renewal and pool shutdown take their steps.
ReservationCoversBilling == \A r \in handle : Open(r) => res[r] # "released"

\* However stale the balances are that requests read, the requests in flight
\* never reserve together more than the balance the user had, or than the one
\* request that is always let in.
ReservedWithinBalance ==
    \/ Reserved <= opening
    \/ \E r \in Requests : Reserved <= Estimate[r]

\* Every billing id is charged once, however many tasks carry it and whatever
\* answers are lost: what the user has is what he had less the cost of the
\* task that claimed each id (usage_billing Apply).
ChargedOnce == db = opening - SumFunctionOnSet(Cost, {t \in Tasks : dedup[BillId[t]] = t})

\* A reservation whose time is over never counts again: the budget may have
\* gone to another request (the renewal script's check of the deadline).
NeverRevived ==
    [][\A r \in Requests :
        res[r] \in {"expired", "purged", "released"} => res'[r] # "live"]_vars

\* The reservation implements AdmissionBudget, whose budget is the balance the
\* user began with: no request enters flight twice, through a late call or a
\* renewal, and none enters beside others that the balance does not cover.
Over == {r \in Requests : res[r] \in {"expired", "purged", "released"}}
Budget == INSTANCE AdmissionBudget
            WITH budget <- opening, inFlight <- Live, over <- Over
ImplementsBudget == Budget!BudgetSpec

\* No reference is left behind: once the handler has returned and none of its
\* tasks is under way, the reservation has been (or is being) given back,
\* whichever of them was last and however a task was queued, run in place,
\* dropped, refused by the database or met by a stopped pool.
NoReferenceLeft ==
    \A r \in handle : pc[r] = "done" /\ ~Open(r) => release[r] # "no"

\* The source says of the balance cache that once a billing task has ended and
\* released its reservation, the balance that admission reads reflects the
\* charge (syncBalanceCacheAfterDeduction).
Settled == {t \in Tasks : /\ task[t] = "finished" /\ res[OwnerOf[t]] = "released"
                          /\ dedup[BillId[t]] = t}
AdmissionSeesCharges ==
    cache # None => cache <= opening - SumFunctionOnSet(Cost, Settled)
=============================================================================
