# Verification of sakrylle-api

Sakrylle-api is a gateway that sells access to language models: users pay for a balance or a
subscription, call the gateway with API keys, and the gateway schedules their requests over upstream
accounts, counts what they use and charges for it. Most of the code converts requests and responses
between providers. The part that has to be right under concurrency is smaller: money comes in
(payment orders), goes back (refunds), is spent (billing), and a number of leases, caches, outboxes
and workers keep several server processes from doing the same thing twice.

This directory holds TLA+ modules for that part, TLC configurations that check them on small
instances, and TLAPS proofs. `PROJECT.json` says, for each definition, which lines of the repository
it models, and lists runs, mutants (a plausible bug for each property, which TLC must detect), findings,
hazards and theorems.

## 1. Inventory

S is `src/backend/internal/service`, R is `src/backend/internal/repository`.

| Component | State | Operations | What is hard | Correct means |
|---|---|---|---|---|
| Payment orders and fulfilment (S/payment_fulfillment, payment_order_lifecycle, payment_order, redeem_service) | order row, redeem code, audit rows, provider's payment | create, webhook, cancel, sweep, verify, reconcile, admin retry, fulfilment | any number of webhooks, sweeps and retries at once; leases that expire; crashes between statements | delivered once, for money, before COMPLETED; a notification is acknowledged only when nothing is left to do |
| Payment refunds (S/payment_refund) | order row, balance, audit rows, provider's refund | request, prepare, execute, gateway, rollback, pending, query, finalize | several administrators, pending answers, failed rollbacks | balance taken once, for a refund, apart from lost answers; REFUNDED means paid out |
| Idempotent requests (S/idempotency, R/idempotency_repo) | one record per key: status, fingerprint, lease, expiry | claim, read, replay, takeover, execute, store, renew, clean up | clock read once, records deleted and taken over under their owner | one owner, one effect until the expiry, fitting answers |
| System operation lock (S/system_operation_lock_service) | a record of the above | acquire, renew, release | as above | one system operation at a time |
| In-flight balance reservation (S/billing_inflight_reservation) | reserved cost per user in Redis, a counter per request | acquire, handler done, release, renew | handler, billing tasks and renewal end in any order | released once, after the last |
| Usage billing and its cache (S/usage_billing, billing_cache_service, usage_record_worker_pool, user_platform_quota_flusher) | balance, cached balance, queues, dirty sets | charge, cache write, flush, grow and stop of pools | queues at their limit, stop during submission | charged once; no task lost in silence |
| Concurrency slots and message queue (S/concurrency_service, R/concurrency_cache) | sorted sets of slots with a lease | acquire, refresh, release, wait | expiry while a request runs | limit kept; a lost slot stays lost |
| Batch images (S/batch_image_*) | job, hold, queue | submit, settle, recover, release | workers that stop between charge and note | charged once; hold released or captured, not both |
| OAuth and OIDC provider (S/oauth_provider_service, oauth_device_service, oidc_key_rotation) | codes, token families, keys | exchange, rotate, revoke, poll | a rotated token presented twice at once | one exchange wins; reuse revokes the family |
| Upstream token refresh (S/oauth_refresh_api, token_refresh_service, R/gemini_token_cache) | refresh lock, credentials | lock, refresh, persist | lock without an owner; no lock when Redis fails | a rotated token is used once and not lost |
| API-key auth cache (S/api_key_auth_cache_impl, auth_cache_invalidation_outbox) | two cache levels, outbox | load, invalidate in two passes | a load that started before the invalidation | no stale record stays |
| Scheduler snapshot (S/scheduler_snapshot_service, scheduler_outbox) | buckets, versions, outbox position | rebuild, apply event | rebuild against later events | the snapshot catches up |
| OpenAI WebSocket pool (S/openai_ws_pool, openai_ws_session_preemption) | pooled connections, waiters | lease, prewarm, evict, preempt | waiters against eviction | no connection leased twice |
| Circuits and breakers (S/openai_proxy_stream_circuit, openai_apikey_health_breaker) | counters under a mutex | record, trip, reset | boundaries | trip and recover as configured |
| Background jobs, leader lock (S/leader_lock, subscription_maintenance_queue, deferred_service) | queues, lock | enqueue, stop, run | stop against enqueue | no send to a closed queue |

Payment configuration and providers, async image tasks, backup, plugins, gateway forwarding and
protocol conversion, accounts and settings, users and authentication, monitoring, and the frontend are
listed in `PROJECT.json` with the reason why they are not modelled: they are I/O, conversions of
data, or single statements on rows.

Interactions. Everything meets in the database and in Redis. The sweep and the webhook handler call
the same `toPaid` and `executeFulfillment`; fulfilment calls the redeem service, the subscription
service and the affiliate service; refunds take over a row that fulfilment completed, and fulfilment
treats every refund status as done; write endpoints run under the idempotency coordinator, on whose
record the system operation lock is built as well.

## 2. Modules

| Module | What it is |
|---|---|
| `PaymentOrder` | orders from creation to delivery, with crashes and failing statements |
| `PaymentLedger` | the abstract promise: money, then one delivery, then closed |
| `PaymentOrderLive` | what must eventually happen once faults end |
| `PaymentRefund` | the refund of one order |
| `Idempotency` | the record of one Idempotency-Key, with an explicit clock |
| `InflightBilling` | admission and billing of one user's requests: cached balance, reservation, worker pool, charge |
| `AdmissionBudget` | the abstract promise of admission: each request flies once, beside others only within the budget |
| `BatchImage` | batch image jobs of one user and the balance that is frozen for them |
| `TokenRefresh` | the refresh of one upstream account whose provider rotates refresh tokens |
| `SumTheorems` | lemmas about the sum of a function over a finite set |
| `...Proofs` | theorems and proofs about the module of that name |
| `MC...` | instances for TLC |

In all of them a step is one database statement, one transaction or one call of a provider, because
that is what another process can come between. A worker is a goroutine: `pc` is the statement that it
executes next, and `task`, `plan` or `req` holds the local variables that later statements use.
A process that stops, and a statement that fails, are steps too (`Abort`, `FulfilmentError`,
`LookupError`, `DeductError`, `RollbackError`, ...), from each step where the code has them.

### PaymentOrder

`status`, `kind`, `paidAt`, `tradeNo` and `due` are columns of `payment_orders`; `code` is the redeem
code whose status makes a recharge a once-only operation; `audit` holds the audit rows that the code reads
back (assigned subscription, rebate, success); `credits`, `rebates` and `mails` count effects.

The code compares `updated_at` in two ways: with "five minutes ago" (`stale`), for the grace of an
expired order and for a lease that may be taken over, and with a value remembered earlier (`holders`,
the workers whose remembered lease version is still the row's). Each update of the row sets
`updated_at` and resets both (`Save`). This is what lets the model find that writing the trade number
of an expired order prolongs its grace.

`Webhook`, `Cancel`, `Expire`, `Verify`, `Reconcile` and `RetryFulfillment` start a worker. Query and
close of the provider's payment follow `checkPaidWithOptions`; `ToPaid`, `AlreadyProcessed` and
`ExecuteFulfillment` the path that all of them share; `AcquireLease` to `MarkCompleted` the fulfilment.
`RefundUpdate` stands for PaymentRefund, whose statuses are one here (`REFUND`).

### PaymentRefund

`taken` is the balance taken for the refund and not given back, `lost` the part of it that deductions
took whose answer was lost: the statement commits by itself, so its error does not say that nothing
happened. `channel` is how the payer is refunded, fixed when the order is paid: over a provider that
finds a repeated refund by its order and amount and can be asked for it ("keyed"), over one that does
neither ("unkeyed": Alipay's request number is the clock, EasyPay sends none), or not at all ("none":
the order has no trade number). `paidOut` remembers that a provider paid. Steps follow `PrepareRefund`,
`ExecuteRefund` (claim, deduct, gateway), `handleGwFail` and `RollbackRefund`, `markRefundPending`,
`markRefundOk`, and `QueryAndFinalizeRefund`; `SkipGateway` is the branch of `gwRefund` for an order
without a trade number, which reports success without a call. The two audit rows the code decides by,
and the writes of them that may be lost, are steps of their own. The history variable `mishaps` notes
that a rollback failed or that the provider declared the refund failed: the code promises less then, and
three properties hold only without.

### Idempotency

`row` is the record; `known` are the callers that hold its id, so that an update by id finds nothing
after the record was deleted and inserted again. A caller reads the clock once, when its request
begins (`now`), compares deadlines with that value and derives the deadlines it writes from it;
`MarkFailedRetryable` and the renewal read it again. `effects` counts the effects of the operation
since the record was last claimed new or after its expiry. `mishaps` notes a claim whose deadlines had
passed when it was written (`lateClaim`), an owner at work past the record's expiry (`overrun`), and a
takeover of an expired record that was renewed since it was read (`staleReclaim`).

### InflightBilling

Two components that only make sense together: a reservation bridges the time between admission, which
reads a cached balance, and the charge, which a pool of workers makes later. `pc`, `waiting` and
`seen` are the handler of a request; `handle`, `refs`, `renewal` and `release` its
`InflightReservation` (the counter, the renewal goroutine, `releaseOnce`); `res` is the member of the
sorted set in Redis, which is `expired` when its deadline has passed and `purged` when a script found
it so. `load` and `loaded` are the shared (singleflight) load of the balance, `writes` the queue of the
cache writer. It is a bag: several workers take writes from one channel, so they land in any order.

`ReadCached`, `JoinLoad`, `LoadRead`, `LoadReturn` and `WriteCache` follow `GetUserBalance`;
`ReserveAdmitted`, `ReserveRefused`, `Renew` and `ReleaseCall` the four scripts and their callers;
`SubmitQueued`, `SubmitInline`, `SubmitDropped` and `StopPool` the worker pool with its overflow
policies; `ChargeApplied`, `ChargeNotApplied`, `ChargeFails` and `SyncCache` the billing task. With
`Faults`, each call of Redis and each commit may fail, or succeed with its answer lost.

`AdmissionBudget` is what all of this promises the user's balance. It is implemented with the balance
the user began with as the budget, the `live` reservations as the requests in flight (`Live`), and
the expired, purged and released ones as those that are over (`Over`); reads, caches, charges, queues
and the steps of tasks are stutters.

### BatchImage

The jobs of one user share one frozen balance, so a release too many is paid by another job: that is why
there are two jobs. `claims` are the request ids in `usage_billing_dedup` under which hold, capture and
release move money, each once. `sub` is where `Submit` is, `clean` where `Cancel` or the recovery is
with a job, `wpc` and `wjob` where a worker is; each of their steps is one transaction or one call. The
queue in Redis is the set of jobs whose in-flight key is set: ready, delayed or active, such a job comes
back to a worker until it is acknowledged. A worker that loses its lock while it works is `overlap`;
`misjudged` and `cut` note the failures after which the code promises less: a failed settlement recorded
after the capture (or a settlement code that a failed enqueue overwrote), and a lost follow-up of a
failed job. `prov` is the job at the provider, and `orphan` are the jobs that go on there though the
service does not know or wait for them: `provider.Submit` failed after it had created the job, `Submit`
stopped before it recorded it, the abort failed, or a cancel had read the row before. `phantom` are jobs
whose release was claimed when there was no hold yet. `Rank` orders the statuses, for the property that
no late step takes a job back; the one exception in the code is the blind write of a failed submission,
which turns a job that was cancelled meanwhile into a failed one.

### TokenRefresh

A credential document is a record of the grant it belongs to, the number of rotations since, and its
other configuration. `live` are the refresh tokens the provider accepts: a refresh consumes one and adds
its successor, so a successor that is not stored is lost with the account. `worker` holds the local
state of `RefreshIfNeeded` and its callers: `snap` is the row read again under the lock, `held` the row
the caller had, `owns` whether it set the key in Redis, `then` what follows the deferred calls.
`Acquire`, `Reread`, `Refresh`, `Recover`, `Persist` and `Release` are the protocol, `Retry`, `Mark`,
`Cool` and `PostRefresh` what the background cycle or a request does with the outcome. `admin[a]` is
operation `a` of an administrator, who edits, reauthorizes or refreshes by hand: these are independent
requests without a lock, so up to `MaxAdmin` of them overlap. Each reads the row (`AdminBegin`), a
refresh by hand calls the provider (`AdminCall`), and the whole row is written back (`AdminWrite`); a
reauthorization, whose new document does not depend on the row, reads when `UpdateAccount` does, and
clears the error in a later statement (`AdminClear`). `overtaken` are the operations during which
another one changed the grant of the row. Grok accounts compare the document before they write
(`PersistGrok`, `Mark`), the others do not; both are checked in one run, since `platform` is chosen
initially. `blame` notes what the code does not defend against (a lock skipped or outlived, an answer or
write lost, a stale row written back, a late mark, an error that was not cleared or that an edit wrote
back), and the properties say which of these they need absent.

## 3. Runs

| Run | Bounds | Shows |
|---|---|---|
| `payment_order` | one order of either kind, two workers | the seven safety properties and the refinement of PaymentLedger |
| `payment_order_live` | one balance order, two workers | a recorded payment settles; PENDING ends |
| `payment_late_verify` (violation) | as `payment_order` | an order whose grace has ended is accepted again |
| `payment_failed_lookup_acked` (violation) | as `payment_order` | a failed lookup is acknowledged |
| `payment_refund` | two administrators, amount 2, balance up to 4, the three channels | apart from lost answers the balance is taken once, for a refund; REFUNDED means paid out where there is a trade number, and stays |
| `payment_refund_retry` (violation) | one administrator | a retry that skipped the deduction is finalized with a second one |
| `idempotency` | two callers, two fingerprints, clock to 5, lease and backoff 1, lifetime 2 | one owner, one effect, fitting answers, a stored result untouched until the expiry |
| `idempotency_stale_takeover` (violation) | as `idempotency` | two requests that read one expired record both execute |
| `inflight_billing` | two requests, two billing tasks under one id, balance 2 or 3, queues of 1, failures | a reservation covers its billing, is given back, never revived, no more is reserved than the user has, a billing id is charged once, and the refinement of AdmissionBudget |
| `inflight_stale_cache` (violation) | the same without failures | a queued write of an old balance undoes a charge in the cache |
| `batch_image` | a new job and one at the provider, holds of 2, costs 3 and 1, two workers, one settlement retry, one failure | each hold is settled once, matches the job's end, and is frozen while the provider works for the job; a lost job's hold is given back, apart from the named exceptions; no money is made, and no status goes back |
| `token_refresh` | two background cycles in two processes, a request, two attempts, two events (failures, expiries, operations) | one refresher, no grant lost by interleaving, none taken back by a refresh, no sound account out of service, every due account served |

Why the bounds are enough. Orders share no state and keys share no state, so one of each shows every
behaviour. Two workers are the pair that a race needs, and since a worker that returned starts again
without a limit, the first owner of a lease, the one that takes over and a later caller all appear.
Amount 2 lets the balance cover a refund in part, and 4 twice. With a lifetime of 2 a clock up to 5 lets
a record be claimed, expire, be taken over, and expire again, and the lease may end before the record
does. For `inflight_billing`, two requests are the fewest that compete for a balance, two tasks the
fewest that share a reservation and a billing id, and queues of 1 are both empty and full. In
`batch_image` one cost exceeds its hold and one does not, and the one failure falls at any step, while
the other worker, a caller or the recovery goes on (1.4 million states); that two failures meet is left
to the theorems, which hold for any number. In `token_refresh` two events let a failure meet a second
one or an operation of an administrator, or two operations overlap (490 thousand states). The safety
properties were also checked on one background cycle and one request with three overlapping operations
and a failure (and with two, a failure or two, and credentials that come due again), four events in all,
which takes too long for a routine run; the theorems hold for any number. `payment_refund` has 7.6
million states. The counters (`credits`, `mails`, `effects`) have no bound of their own: the guards keep
them small. Symmetry is used between workers, administrators and callers in the runs of safety
properties, never in the run that checks liveness.

The runs do not check for deadlock: a finished order, a refunded one, or a clock at its bound may
have nothing left to do. That orders do not get stuck is a liveness property.

Fairness. In `PaymentOrderLive`: Until `calm` everything may go wrong; afterwards no process stops, no
statement fails, and five minutes do not pass for a worker that fulfils. `WF` on `Handle(w)`: goroutines run.
`WF` on `CalmAge` and `ReachDeadline`: the clock advances. `SF` on the sweep and on redelivery of an
unacknowledged notification: both come again and again (a ticker; the provider's retries), but compete
for the two workers of the model, which a server of unbounded goroutines never lacks. Failed lookups are left
out of this run, because they end the redelivery (that is the third finding).

In `TokenRefresh`: `WF` on a background worker's `Start` (a ticker lists due accounts again and again),
`SF` on its `Acquire` (a Go channel serves those who wait for the mutex in order, and requests may take it
in between without end), `WF` on the steps of code in progress, and `WF` on the expiry of a key and of
a cooldown (both have a TTL in Redis and in the row). There is none on requests, on failures, on
administrators or on the clock that makes credentials due.

`InflightBilling` and `BatchImage` have no liveness property. A reservation has a TTL and a request
that is never charged is the pool's choice to drop; what must not happen, a reference or a hold that
nobody will give back, is stated as safety (`NoReferenceLeft`, `HoldFollowed`).

## 4. What is proved

For any orders, workers, administrators, callers, requests, tasks, jobs, amounts and durations. The
assumptions are the named ASSUMEs of the modules: order types, positive amounts and durations,
finite sets of requests, tasks and jobs (their reservations and holds are summed), a "no record" value
that is no record, and, in `BatchAssumption`, that the frozen balance at the beginning is the sum of
the holds of the jobs that are already under way. TLC evaluates them on every run.

* `PaymentOrderProofs`: `TypeCorrect`, `AtMostOnce`, `CompletedDelivered`, `PaidDelivered`,
  `NotifiedDelivery`, `AckedSettled`, and `LedgerRefined` (the refinement). The inductive invariant
  has three parts. *Booking*: every credit is covered by a used code or an assignment row and every
  rebate by its audit row, so a second booking finds the cover; the lease is not part of the argument,
  since a slow worker loses it. *Payment*: whoever is past `toPaid` works on an order that was paid and
  says so. *Settling*: a worker that is about to report success to the provider has seen the order
  settled, and one that is about to notify the user is the one whose guarded update completed it.
* `PaymentRefundProofs`: `TypeCorrect`, `RefundedPaidOut`, `AtMostOnce`, `OnlyForRefund`, `RefundStays`.
  `PaidOut` is about the steps that will write REFUNDED: they are reached by a payout, or without a
  trade number. Without a mishap, REFUNDING is a lock (`Exclusive`) and the step of its holder
  determines what is taken beyond what lost answers took (`Accounted`); `NoMishap` keeps the steps that
  follow a mishap out. The action property `RefundedStays` follows: the writes that do not look at the
  status belong to the holder of the lock, so none of them finds the order REFUNDED.
* `IdempotencyProofs`: `TypeCorrect`, `SingleOwner`, `SingleEffect`, `AnswersFit`, `ResultsKept`. An id
  stands for a record of the caller's own fingerprint (`Ident`). That no record is taken over while its
  owner works needs `Outlived`: a caller that saw the record expired began before the present lease ends,
  so the guard on the lock refuses it. `Effects` says what each step tells about the effects so far.
  `ResultsKept` follows: nobody works on a record that has a result, so that only a stale takeover
  could touch it before it expires.
* `InflightBillingProofs`: `TypeCorrect`, `ReservationCovers`, `NoReferenceLeftHolds`,
  `NeverRevivedHolds`, `ReservedWithin`, `ChargedOnceHolds`, `BudgetImplemented`. The invariant counts:
  until a handle is given back, `refs` is the number of tasks that hold a reference plus one for the
  handler; afterwards nobody holds one. Hence the step that brings the count to zero is the last user's.
  About money there is a second invariant (`MoneyHolds`): no value on its way, in the
  cache, in the shared load, with a handler or in the writer's queue, is more than the user began with
  (`Bounded`), live reservations fit in that or are a single one, and the balance is the opening less
  the cost of the task that claimed each id. `BudgetImplemented` is the refinement of
  `AdmissionBudget`: a step lets one request in (`Enters`), ends one (`Leaves`) or keeps both sets
  (`Keeps`), and one that was let in was covered by what it had read, hence by the budget
  (`AdmittedCovered`).
* `BatchImageProofs`: `TypeCorrect`, `OnceSettled`, `OutcomesMatch`, `CoveredWork`, `FollowedHolds`,
  `MoneyKept`, `ForwardOnly`. The invariant says where Submit, Cancel, the recovery and a worker may be
  with a job of each status (*places*), which ids are then claimed (*booked*), that a settlement which
  gives up has counted its failures (*counted*), that a lost job's hold has somebody on the way to it
  (*followed*), and that a job which runs at the provider is being recorded, is recorded and under way,
  or was lost sight of, and that a job lost sight of is not being settled (*sighted*). Jobs with a lost
  lock or a misjudged failure are exempt, as in the properties. `MoneyKept` adds what the claims say
  about the holds (`Ledger`); each transaction moves one job in or out of the two sums. For
  `ForwardOnly`, the writes that look at the status go forward by their guard, and the one that does not
  is reached only while the job was not submitted or has ended.
* `TokenRefreshProofs`: `TypeCorrect`, `RefreshersExclude`, `ReauthorizationKept`, `StoredStaysUsable`
  and `QuarantineHolds`. *Locked*: unless a lock was skipped or outlived, whoever is inside owns the
  key, alone. *Grants*: what an operation is about to write to a grok row belongs to the row's grant or
  a later one, unless another operation changed that grant meanwhile. *Interleaved*: no document around
  is newer than what the provider accepts, two workers never carry the same token's successors, what an
  operation is about to write is nowhere else (`Own`) and is accepted unless a newer grant revoked it
  (`Held`), and a carried successor follows the stored token or a newer one; this holds even of
  refreshers that overlap, so `StoredUsable` does not need the lock. *Judged*, for every platform: a
  worker that looks into a refusal, or is about to put the account out of service, holds a token which
  the provider will never accept again (`Refused`, `Dead`), and, unless a lock was skipped, nobody
  carries that token's successor (`Uncarried`, `Apart`); hence an account in error holds such a token
  and nobody is about to replace it (`Errors`), apart from the exceptions the property names; and a grok
  account is only marked for the document that was refused (`Compared`). The steps are first reduced to
  a few shapes (`StepShape`), each of which is then shown to preserve the invariant.
* `SumTheorems`: a sum over a finite set grows by one summand when the set does, depends only on the
  summands of the set, and is monotone. The community modules define the sum by a recursive function
  that takes out a chosen element; that the chosen element does not matter is an induction. It is
  carried out without an operator as a parameter: a set of bad subsets has a minimal element, because
  strict inclusion on the finite subsets is well-founded (`SubsetInduction`).

Each invariant was checked with TLC before it was proved. Only model-checked are `PaidSettles`,
`PendingResolves` and `DueServed`, which are liveness under fairness. The five properties of the
findings are refuted by TLC, and there is nothing to prove about them.

## 5. Findings

1. `LatePaymentRefused`: verifying an EXPIRED order writes its trade number, the update moves
   `updated_at`, and `toPaid` measures the five minutes of grace from there.
2. `RetrySkipsDeduction`: a retry that skipped the deduction, because an earlier rollback failed, and
   that ends pending, notes the rollback of nothing as a success; finalizing deducts again.
3. `FailureNotAcked`: when the order or provider lookup fails, the notification is acknowledged.
4. `SingleSideEffect`: of two requests that read the same expired record, the second may take over the
   result that the first has just stored, because the update compares status and lock, not expiry.
5. `AdmissionSeesCharges`: the cached balance is filled from a queue, so a value read before a charge may
   be written after the charge was deducted from the cache and its reservation released.

Met while modelling, in behaviours which the modules contain and the properties exclude by name or by
a history variable:

* A cancel or the recovery that runs between the creation of a batch job and its reservation claims the
  release of a hold that is not there yet; the hold that is made afterwards stays frozen (`phantom`).
* A capture whose answers are lost until the retries are used up is followed by a release of the same
  hold (`misjudged`). A failed enqueue of a resubmission overwrites a settlement code with one of the queue,
  which restarts that count.
* A cancel that read a job before it was submitted cancels it afterwards without telling the provider.
* A reservation whose answer is lost leaves the job failed and hidden with its hold frozen (`hidden`).
* An order without a trade number becomes REFUNDED although nothing was paid out: `gwRefund` reports success
  without a call (payment_refund.go:351-354; `channel = "none"`).
* A deduction for a refund that commits though its answer is lost leaves the balance taken when the
  status is restored, and the retry takes it again (payment_refund.go:310-313; `lost`).
* Alipay takes the clock as the request number of a refund (alipay.go:345) and EasyPay sends none, so
  a refund that is asked for again after its answer was lost may be paid twice (`unkeyed`). The properties
  say that an order was paid out, not how often.
* `provider.Submit` may fail after it created the job, and the abort of an unrecorded job may fail: the
  provider then works for a job whose hold was released (`orphan`).
* `UpdateAccount` writes the whole row back, credentials and status included (`clobbered`); on grok an
  edit during a refresh makes the guarded write miss, and the rotated token is lost (`lost`).
* Nothing orders the requests of administrators: an edit or a refresh by hand that was under way during
  a reauthorization stores the earlier grant again, on grok too (`overtaken`), and an edit that read an
  account in error writes the error back after it was cleared (`stale error`).
* On the platforms other than grok `SetError` and the storing of credentials are unconditional
  (`stale mark`, `clobbered`); an administrator's refresh takes no lock, and the lock's key is
  deleted without a look at its owner (`unlocked`).
* The error of an account is cleared after a reauthorization on a best effort (`not cleared`).
* `enqueueCacheWrite` looks at the stopped flag before it takes the lock, and `Stop` closes the channel: a
  write in between sends to a closed channel. The model does not stop the cache writer.

## 6. Not modelled, and the plan

In the modelled components. Payments: input validation, limits, amounts and currencies, partial refunds
and subscription refunds (the same steps with other data), audit rows that nothing reads.
Idempotency: the text of stored answers and its truncation. Billing: subscriptions, limits of API keys
and platform quotas (other columns of the same transaction), the quota flusher, stopping the cache
writer. Batch images: the queue's three sets and the TTL of the in-flight key, downloads, the cleanup of
outputs. Token refresh: the access-token cache, a request's temporary exclusion of an account, circuits and
rate gates of providers, and providers that keep their refresh token.

Not modelled, in the order in which they would come next:

1. Concurrency slots: each operation is one Redis script, so what remains is a slot that expires under a
   request which does not refresh it.
2. OAuth token families: a rotation consumes the old refresh token in one transaction and mints the new
   pair in a later one (`oauth_provider_service.go`, RefreshAccessToken), so that a revocation or the
   cascade on reuse in between finds nothing to revoke and the minted pair outlives it; RevokeGrant looks
   for ownership among active access tokens only, which an unused family no longer has. A module would
   state that a family has at most one usable refresh token, and what may outlive its revocation.
3. The API-key auth cache: its second invalidation pass comes a fixed delay after the first, so a model
   needs a clock against loads of bounded length.
4. The system operation lock, which is an instance of the idempotency record.
5. The scheduler snapshot and the quota flusher: a stale snapshot or a late flush delays, and charges nobody.

Most of the repository is of no interest to a model checker: generated data access (ent), conversions
between the formats of providers, configuration, SQL text, administration of single rows, and the user
interface. The modules cover the code in which several actors meet over shared state, which is a small
share of its lines.
