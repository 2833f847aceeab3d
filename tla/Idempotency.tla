---------------------------- MODULE Idempotency ----------------------------
(***************************************************************************)
(* Requests that carry an Idempotency-Key.  The first request with a key   *)
(* inserts a record and executes; the others find the record and replay    *)
(* its answer, wait, or take it over once it has expired or failed.        *)
(* idempotency.go under src/backend/internal/service and                   *)
(* idempotency_repo.go under src/backend/internal/repository.              *)
(*                                                                         *)
(* One key: keys share nothing.  Every statement on the record is a step,  *)
(* and the clock is explicit, because a request reads it once, when it     *)
(* begins, and compares and writes deadlines with that value later.        *)
(***************************************************************************)
EXTENDS Integers

CONSTANTS Callers,       \* requests in progress
          Fingerprints,  \* hashes of method, route, actor and payload
          Lease,         \* ProcessingTimeout
          Backoff,       \* FailedRetryBackoff
          TTL,           \* lifetime of a record
          MaxTime,       \* bound of the clock
          NoRow,         \* there is no record
          NoRequest      \* the request of an idle caller

ASSUME DurationsAssumption ==
  Lease \in Nat \ {0} /\ TTL \in Nat \ {0} /\ Backoff \in Nat /\ MaxTime \in Nat

ASSUME NoRowAssumption == NoRow \notin [status : {"processing", "succeeded", "failed_retryable"},
                                        fp : Fingerprints, answers : Fingerprints,
                                        lockedUntil : Nat, expiresAt : Nat]

VARIABLES
  time,     \* the clock
  row,      \* the record of the key
  known,    \* callers that hold the id of that record
  effects,  \* how often the operation took effect for the live record
  mishaps,  \* history: what the timing of the callers did to the record
  pc,       \* next step of each caller
  req       \* request of each caller

vars == <<time, row, known, effects, mishaps, pc, req>>

\* answers: whose request the stored answer is for, once the operation succeeded.
\* lockedUntil: 0 when it is NULL, which no comparison tells from a passed deadline.
Row == [status : {"processing", "succeeded", "failed_retryable"}, fp : Fingerprints,
        answers : Fingerprints, lockedUntil : Nat, expiresAt : Nat]

\* now: the clock when the request began; seen: the status it read; renewal: a request
\* with an ExecutionTimeout renews the lease while it runs, all others do not.
Request == [fp : Fingerprints, now : Nat, seen : {"processing", "succeeded", "failed_retryable"},
            renewal : {"none", "running", "ended"}]

Working == {"execute", "succeed", "fail"}
Steps == Working \cup {"idle", "create", "get", "takeExpired", "getLatest", "takeFailed"}

TypeOK ==
  /\ time \in Nat
  /\ row \in Row \cup {NoRow}
  /\ known \subseteq Callers
  /\ effects \in Nat
  /\ mishaps \subseteq {"lateClaim", "overrun", "staleReclaim"}
  /\ pc \in [Callers -> Steps]
  /\ req \in [Callers -> Request \cup {NoRequest}]
  /\ \A c \in Callers : pc[c] # "idle" => req[c] \in Request /\ req[c].now <= time

Init ==
  /\ time = 0
  /\ row = NoRow
  /\ known = {}
  /\ effects = 0
  /\ mishaps = {}
  /\ pc = [c \in Callers |-> "idle"]
  /\ req = [c \in Callers |-> NoRequest]

-----------------------------------------------------------------------------
At(c, step) == pc[c] = step

Go(c, step) == /\ pc' = [pc EXCEPT ![c] = step]
               /\ UNCHANGED req

Return(c) == /\ pc' = [pc EXCEPT ![c] = "idle"]
             /\ req' = [req EXCEPT ![c] = NoRequest]
             /\ known' = known \ {c}

\* The record is claimed by c, with deadlines that count from the beginning of its
\* request: a caller that slow may write deadlines that have passed.
Deadlines(c) == [lockedUntil |-> req[c].now + Lease, expiresAt |-> req[c].now + TTL]

NoteLateClaim(c) ==
  IF Deadlines(c).lockedUntil <= time \/ Deadlines(c).expiresAt <= time
  THEN {"lateClaim"} ELSE {}

\* With ExecutionTimeout the deadline of the result counts from its end.
ResultExpiry(c) == IF req[c].renewal = "none" THEN req[c].now + TTL ELSE time + TTL

-----------------------------------------------------------------------------
Execute(c) ==
  /\ At(c, "idle")
  /\ \E fp \in Fingerprints, renewal \in {"none", "running"} :
       req' = [req EXCEPT ![c] = [fp |-> fp, now |-> time, seen |-> "processing",
                                  renewal |-> renewal]]
  /\ pc' = [pc EXCEPT ![c] = "create"]
  /\ UNCHANGED <<time, row, known, effects, mishaps>>

\* INSERT ... ON CONFLICT DO NOTHING.
CreateProcessing(c) ==
  /\ At(c, "create")
  /\ \/ /\ row = NoRow
        /\ row' = [status |-> "processing", fp |-> req[c].fp, answers |-> req[c].fp,
                   lockedUntil |-> Deadlines(c).lockedUntil, expiresAt |-> Deadlines(c).expiresAt]
        /\ known' = {c}
        /\ effects' = 0
        /\ mishaps' = mishaps \cup NoteLateClaim(c)
        /\ Go(c, "execute")
     \/ /\ row # NoRow
        /\ Go(c, "get")
        /\ UNCHANGED <<row, known, effects, mishaps>>
  /\ UNCHANGED time

\* Mutant: the lock of a record is all that protects it.
MayRetryLeased(c) == row.status # "succeeded" /\ row.lockedUntil <= req[c].now

\* What a caller does with a record that is not its own: a failed one is taken over
\* after its backoff; all else (a replay, a conflict) ends the request.
MayRetry(c) == row.status = "failed_retryable" /\ row.lockedUntil <= req[c].now

\* The id and the status of the record are remembered for the takeover.
Remember(c, step) == /\ known' = known \cup {c}
                     /\ pc' = [pc EXCEPT ![c] = step]
                     /\ req' = [req EXCEPT ![c].seen = row.status]

GetExisting(c) ==
  /\ At(c, "get")
  /\ \/ row = NoRow /\ Return(c)
     \/ row # NoRow /\ row.fp # req[c].fp /\ Return(c)
     \/ /\ row # NoRow /\ row.fp = req[c].fp
        /\ \/ row.expiresAt <= req[c].now /\ Remember(c, "takeExpired")
           \/ row.expiresAt > req[c].now /\ MayRetry(c) /\ Remember(c, "takeFailed")
           \/ row.expiresAt > req[c].now /\ ~MayRetry(c) /\ Return(c)
  /\ UNCHANGED <<time, row, effects, mishaps>>

\* The record is read again after a failed takeover; its expiry is not looked at.
GetLatest(c) ==
  /\ At(c, "getLatest")
  /\ \/ row # NoRow /\ row.fp = req[c].fp /\ MayRetry(c) /\ Remember(c, "takeFailed")
     \/ ~(row # NoRow /\ row.fp = req[c].fp /\ MayRetry(c)) /\ Return(c)
  /\ UNCHANGED <<time, row, effects, mishaps>>

\* Mutant: the update does not compare the status.
ReclaimableAnyStatus(c) == /\ row # NoRow
                           /\ c \in known
                           /\ row.lockedUntil <= req[c].now

\* The guard of TryReclaim's update: the id, the status that was read, and the lock.
Reclaimable(c) == /\ row # NoRow
                  /\ c \in known
                  /\ row.status = req[c].seen
                  /\ row.lockedUntil <= req[c].now

TryReclaim(c) ==
  /\ pc[c] \in {"takeExpired", "takeFailed"}
  /\ \/ /\ Reclaimable(c)
        /\ row' = [row EXCEPT !.status = "processing",
                              !.lockedUntil = Deadlines(c).lockedUntil,
                              !.expiresAt = Deadlines(c).expiresAt]
        /\ effects' = IF row.expiresAt <= time THEN 0 ELSE effects
        /\ mishaps' = mishaps \cup NoteLateClaim(c) \cup
             (IF At(c, "takeExpired") /\ row.expiresAt > time THEN {"staleReclaim"} ELSE {})
        /\ Go(c, "execute")
        /\ UNCHANGED known
     \/ /\ ~Reclaimable(c)
        /\ \/ At(c, "takeExpired") /\ Go(c, "getLatest") /\ UNCHANGED known
           \/ At(c, "takeFailed") /\ Return(c)
        /\ UNCHANGED <<row, effects, mishaps>>
  /\ UNCHANGED time

\* The operation itself: it takes effect as a whole, or it fails.
Operate(c) ==
  /\ At(c, "execute")
  /\ \/ effects' = effects + 1 /\ Go(c, "succeed")
     \/ UNCHANGED effects /\ Go(c, "fail")
  /\ UNCHANGED <<time, row, known, mishaps>>

\* Mutant: the record is found by its key instead of its id.
MarkSucceededByKey(c) ==
  /\ At(c, "succeed")
  /\ row' = IF row # NoRow
            THEN [row EXCEPT !.status = "succeeded", !.answers = req[c].fp,
                             !.lockedUntil = 0, !.expiresAt = ResultExpiry(c)]
            ELSE row
  /\ Return(c)
  /\ UNCHANGED <<time, effects, mishaps>>

\* The updates of the result are by id only; one that finds no row is no error.
MarkSucceeded(c) ==
  /\ At(c, "succeed")
  /\ row' = IF c \in known
            THEN [row EXCEPT !.status = "succeeded", !.answers = req[c].fp,
                             !.lockedUntil = 0, !.expiresAt = ResultExpiry(c)]
            ELSE row
  /\ Return(c)
  /\ UNCHANGED <<time, effects, mishaps>>

\* Mutant: the backoff is a time in the past.
BackoffIntoPast(c) ==
  /\ At(c, "fail")
  /\ row' = IF c \in known
            THEN [row EXCEPT !.status = "failed_retryable", !.lockedUntil = time - Backoff,
                             !.expiresAt = ResultExpiry(c)]
            ELSE row
  /\ Return(c)
  /\ UNCHANGED <<time, effects, mishaps>>

MarkFailedRetryable(c) ==
  /\ At(c, "fail")
  /\ row' = IF c \in known
            THEN [row EXCEPT !.status = "failed_retryable", !.lockedUntil = time + Backoff,
                             !.expiresAt = ResultExpiry(c)]
            ELSE row
  /\ Return(c)
  /\ UNCHANGED <<time, effects, mishaps>>

\* The renewal goroutine.  The first update that finds nothing to renew ends it.
ExtendProcessingLock(c) ==
  /\ pc[c] \in Working
  /\ req[c].renewal = "running"
  /\ \/ /\ c \in known /\ row.status = "processing"
        /\ row' = [row EXCEPT !.lockedUntil = time + Lease, !.expiresAt = time + TTL]
        /\ UNCHANGED req
     \/ /\ ~(c \in known /\ row.status = "processing")
        /\ req' = [req EXCEPT ![c].renewal = "ended"]
        /\ UNCHANGED row
  /\ UNCHANGED <<time, known, effects, mishaps, pc>>

-----------------------------------------------------------------------------
(* The process stops, or a statement fails and the request ends with an error. *)
Abort(c) ==
  /\ ~At(c, "idle")
  /\ Return(c)
  /\ UNCHANGED <<time, row, effects, mishaps>>

\* Mutant: the cleanup goes by the lock instead of the expiry.
DeleteUnlocked ==
  /\ row # NoRow
  /\ row.lockedUntil <= time
  /\ row' = NoRow
  /\ known' = {}
  /\ UNCHANGED <<time, effects, mishaps, pc, req>>

\* The cleanup service.
DeleteExpired ==
  /\ row # NoRow
  /\ row.expiresAt <= time
  /\ row' = NoRow
  /\ known' = {}
  /\ UNCHANGED <<time, effects, mishaps, pc, req>>

Tick ==
  /\ time < MaxTime
  /\ time' = time + 1
  /\ mishaps' = mishaps \cup
       (IF \E c \in known : pc[c] \in Working /\ row.expiresAt <= time'
        THEN {"overrun"} ELSE {})
  /\ UNCHANGED <<row, known, effects, pc, req>>

Next ==
  \/ \E c \in Callers :
       \/ Execute(c) \/ CreateProcessing(c) \/ GetExisting(c) \/ GetLatest(c)
       \/ TryReclaim(c) \/ Operate(c) \/ MarkSucceeded(c) \/ MarkFailedRetryable(c)
       \/ ExtendProcessingLock(c) \/ Abort(c)
  \/ DeleteExpired \/ Tick

Spec == Init /\ [][Next]_vars

-----------------------------------------------------------------------------
(* Safety. *)

\* The operation never runs twice at the same time for one key, as long as no caller
\* claims the record with deadlines that have passed already, and none works past the
\* record's expiry: a claimed record is protected by its expiry even when its lease
\* has run out (Execute, TryReclaim).
OneOwner ==
  mishaps \subseteq {"staleReclaim"} =>
    \A c, d \in Callers : pc[c] \in Working /\ pc[d] \in Working => c = d

\* As long as, besides, no takeover of an expired record finds it renewed, the
\* operation takes effect at most once until the record expires, whatever statements
\* fail and wherever callers stop (Execute).
OneEffect == mishaps = {} => effects <= 1

\* A replay answers the same request: however late the result of an old execution is
\* stored, and whatever became of its record, a stored answer belongs to the request
\* that the record was made for (MarkSucceeded).
AnswerFits == row # NoRow => row.answers = row.fp

\* Under the same condition a stored result stays as it is until the record expires:
\* no late result of an older request, takeover, renewal or cleanup touches it, so
\* every request in that time has the same answer (Execute, TryReclaim, DeleteExpired).
ResultKept ==
  [][ mishaps' = {} /\ row # NoRow /\ row.status = "succeeded" /\ row.expiresAt > time
        => row' = row ]_vars

\* What a test says of concurrent requests with one key: the operation takes effect
\* once (Execute).  A caller is not slow here, and no record expires under its owner.
SingleSideEffect == mishaps \subseteq {"staleReclaim"} => effects <= 1
=============================================================================
