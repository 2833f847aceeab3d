------------------------------ MODULE BatchImage ------------------------------
(***************************************************************************)
(* Batch image jobs of ONE user and the balance that is frozen for them.   *)
(*                                                                         *)
(* Submit creates a job, freezes its hold, uploads and submits it to the   *)
(* provider and queues it.  Workers take queued jobs, poll the provider,   *)
(* index the result and settle: the hold is captured (the cost is kept,    *)
(* the rest returned) and the job completed.  A job that fails or is       *)
(* cancelled has its hold released.  The recovery fails jobs whose         *)
(* submission died before the provider had them.                           *)
(*                                                                         *)
(* The hold, the capture and the release of a job are transactions under   *)
(* three request ids, each claimed once; they move money between the       *)
(* user's balance and ONE frozen balance that all the user's jobs share.   *)
(*                                                                         *)
(* A call may fail, or take effect with its answer lost, a process may     *)
(* stop and a worker may lose its lock: MaxFaults times in a behaviour.    *)
(* The queue is the set of jobs whose in-flight key is set: such a job is  *)
(* ready, delayed or active, and comes back to a worker until it is acked. *)
(***************************************************************************)
EXTENDS Integers, FiniteSets, FiniteSetsExt

CONSTANTS
    Jobs,        \* batch jobs of the user
    Fresh,       \* those that are submitted in the behaviour (others begin queued)
    Workers,
    Hold,        \* HoldAmount of a job
    Costs,       \* what the successful images of each job may cost
    Opening,     \* the user's balance at the start
    OpeningFrozen, \* his frozen balance at the start: the holds of the others
    MaxRetries,  \* batchImageSettlementMaxRetries
    MaxFaults,   \* bound on the failures in a behaviour
    None

ASSUME BatchAssumption ==
    /\ IsFiniteSet(Jobs) /\ Fresh \subseteq Jobs
    /\ Hold \in [Jobs -> Nat \ {0}] /\ Costs \in [Jobs -> SUBSET Nat]
    /\ Opening \in Nat /\ MaxRetries \in Nat \ {0} /\ MaxFaults \in Nat
    /\ OpeningFrozen \in Nat /\ OpeningFrozen = SumFunctionOnSet(Hold, Jobs \ Fresh)
    /\ None \notin Jobs

VARIABLES
    status,     \* batch_image_jobs.status
    submitted,  \* the jobs whose provider_job_name is set
    retries,    \* retry_count, counted up to MaxRetries
    settleCode, \* the jobs whose last_error_code is a SETTLEMENT_ code
    stale,      \* the jobs whose updated_at is before the recovery's cutoff
    claims,     \* the request ids of a job that usage_billing_dedup holds
    phantom,    \* the jobs whose release was claimed when there was no hold
    balance,    \* users.balance
    frozen,     \* users.frozen_balance
    queued,     \* the jobs in the Redis queue
    prov,       \* the job at the provider
    cost,       \* successful images (success_count) times unit price
    sub,        \* where the Submit call of a job is
    clean,      \* where a Cancel call, or the recovery, is with a job
    wpc, wjob,  \* where a worker is, and with which job
    overlap,    \* history: jobs that two workers had at the same time
    misjudged,  \* history: a settlement failure was recorded after the capture,
                \* or its code was overwritten
    cut,        \* history: the follow-up of a failed job was lost
    orphan,     \* history: jobs that the service lost sight of at the provider
    faults

jobVars   == <<status, submitted, retries, settleCode, stale>>
moneyVars == <<claims, phantom, balance, frozen>>
procVars  == <<sub, clean>>
workVars  == <<wpc, wjob>>
extVars   == <<prov, cost>>
histVars  == <<overlap, misjudged, cut, orphan>>
vars == <<jobVars, moneyVars, queued, procVars, workVars, extVars, histVars, faults>>

Cleaners == {"cancel", "recovery"}
Unsubmitted == {"created", "uploading"}
Lost == {"failed", "cancelled"}
Terminal == Lost \cup {"completed"}

TypeOK ==
    /\ status \in [Jobs -> {"none", "created", "uploading", "submitted", "running",
                            "indexing", "settling", "completed", "failed", "cancelled"}]
    /\ submitted \subseteq Jobs /\ settleCode \subseteq Jobs /\ stale \subseteq Jobs
    /\ retries \in [Jobs -> 0..MaxRetries]
    /\ claims \in [Jobs -> SUBSET {"hold", "capture", "release"}]
    /\ phantom \subseteq Jobs
    /\ balance \in Nat /\ frozen \in Nat
    /\ queued \subseteq Jobs
    /\ prov \in [Jobs -> {"none", "running", "succeeded", "failed", "cancelled"}]
    /\ cost \in [Jobs -> Nat] /\ \A j \in Jobs : cost[j] \in Costs[j] \cup {0}
    /\ sub \in [Jobs -> {"idle", "reserve", "items", "upload", "submit", "record",
                         "enqueue", "release", "back", "giveup", "mark", "done", "hidden"}]
    /\ clean \in [Cleaners ->
                   [Jobs -> {"idle", "transition", "enqueue", "release", "retry"}]]
    /\ wpc \in [Workers -> {"idle", "process", "poll", "running", "indexing", "failed",
                            "cancelled", "index", "settling", "settle", "capture", "mark",
                            "note", "exhausted", "fail", "reread", "release", "ack"}]
    /\ wjob \in [Workers -> Jobs \cup {None}]
    /\ overlap \subseteq Jobs /\ misjudged \subseteq Jobs /\ cut \subseteq Jobs
    /\ orphan \subseteq Jobs
    /\ faults \in 0..MaxFaults

Init ==
    /\ status = [j \in Jobs |-> IF j \in Fresh THEN "none" ELSE "submitted"]
    /\ submitted = Jobs \ Fresh
    /\ retries = [j \in Jobs |-> 0]
    /\ settleCode = {} /\ stale = {}
    /\ claims = [j \in Jobs |-> IF j \in Fresh THEN {} ELSE {"hold"}]
    /\ phantom = {}
    /\ balance = Opening
    /\ frozen = OpeningFrozen
    /\ queued = Jobs \ Fresh
    /\ prov = [j \in Jobs |-> IF j \in Fresh THEN "none" ELSE "running"]
    /\ cost = [j \in Jobs |-> 0]
    /\ sub = [j \in Jobs |-> IF j \in Fresh THEN "idle" ELSE "done"]
    /\ clean = [c \in Cleaners |-> [j \in Jobs |-> "idle"]]
    /\ wpc = [w \in Workers |-> "idle"]
    /\ wjob = [w \in Workers |-> None]
    /\ overlap = {} /\ misjudged = {} /\ cut = {} /\ orphan = {}
    /\ faults = 0

-----------------------------------------------------------------------------
(* Failures, and writes of a job row.                                      *)

Fault == faults < MaxFaults /\ faults' = faults + 1
NoFault == faults' = faults

\* CanTransitionBatchImageJob
CanTransition(from, to) ==
    /\ from \notin Terminal \cup {"none"}
    /\ \/ to = "failed"
       \/ to = "uploading" /\ from = "created"
       \/ to = "submitted" /\ from \in Unsubmitted
       \/ to = "running" /\ from \in {"submitted", "running"}
       \/ to = "indexing" /\ from \in {"submitted", "running"}
       \/ to = "settling" /\ from = "indexing"
       \/ to = "cancelled" /\ from \in Unsubmitted \cup {"submitted", "running"}

\* an UPDATE of the row also moves updated_at
SetStatus(j, s) ==
    /\ status' = [status EXCEPT ![j] = s]
    /\ stale' = stale \ {j}
KeepStatus == UNCHANGED <<status, stale>>

-----------------------------------------------------------------------------
(* The three transactions (applyBatchImageBalanceHold).                    *)

Claim(j, id) == claims' = [claims EXCEPT ![j] = @ \cup {id}]

ReserveTx(j) ==
    /\ balance >= Hold[j]
    /\ Claim(j, "hold")
    /\ balance' = balance - Hold[j]
    /\ frozen' = frozen + Hold[j]
    /\ UNCHANGED phantom

CanCapture(j) == "capture" \in claims[j] \/ frozen >= Hold[j]

\* Mutant: only the cost leaves the frozen balance.
CaptureCost(j) ==
    /\ CanCapture(j)
    /\ IF "capture" \in claims[j]
       THEN UNCHANGED <<claims, balance, frozen>>
       ELSE /\ Claim(j, "capture")
            /\ balance' = balance + (Hold[j] - cost[j])
            /\ frozen' = frozen - cost[j]
    /\ UNCHANGED phantom

CaptureTx(j) ==
    /\ CanCapture(j)
    /\ IF "capture" \in claims[j]
       THEN UNCHANGED <<claims, balance, frozen>>
       ELSE /\ Claim(j, "capture")
            /\ balance' = balance + (Hold[j] - cost[j])
            /\ frozen' = frozen - Hold[j]
    /\ UNCHANGED phantom

\* without the claim of a hold nothing is given back, but the id is used up
CanRelease(j) == "release" \in claims[j] \/ "hold" \notin claims[j] \/ frozen >= Hold[j]

\* Mutant: nobody looks whether there is a hold, and that it is covered.
ReleaseBlind(j) ==
    IF "release" \in claims[j]
    THEN UNCHANGED moneyVars
    ELSE /\ Claim(j, "release")
         /\ balance' = balance + Hold[j]
         /\ frozen' = frozen - Hold[j]
         /\ UNCHANGED phantom

ReleaseTx(j) ==
    /\ CanRelease(j)
    /\ IF "release" \in claims[j]
       THEN UNCHANGED moneyVars
       ELSE /\ Claim(j, "release")
            /\ IF "hold" \in claims[j]
               THEN /\ balance' = balance + Hold[j]
                    /\ frozen' = frozen - Hold[j]
                    /\ UNCHANGED phantom
               ELSE /\ phantom' = phantom \cup {j}
                    /\ UNCHANGED <<balance, frozen>>

ReleaseOk(j) == ReleaseTx(j) /\ NoFault
ReleaseFails(j) ==
    \/ ~CanRelease(j) /\ UNCHANGED moneyVars /\ NoFault
    \/ Fault /\ (UNCHANGED moneyVars \/ ReleaseTx(j))

-----------------------------------------------------------------------------
(* Submit.                                                                 *)

SubGoes(j, to) == sub' = [sub EXCEPT ![j] = to]

Create(j) ==
    /\ sub[j] = "idle"
    /\ SetStatus(j, "created")
    /\ SubGoes(j, "reserve")
    /\ UNCHANGED <<submitted, retries, settleCode, moneyVars, queued, clean, workVars,
                   extVars, histVars, faults>>

\* an error marks the job failed, although the hold may have been taken
Reserve(j) ==
    /\ sub[j] = "reserve"
    /\ \/ ReserveTx(j) /\ SubGoes(j, "items") /\ NoFault /\ UNCHANGED cut
       \/ balance < Hold[j] /\ SubGoes(j, "mark") /\ NoFault /\ UNCHANGED <<moneyVars, cut>>
       \/ /\ Fault /\ SubGoes(j, "mark")
          /\ \/ UNCHANGED <<moneyVars, cut>>
             \/ ReserveTx(j) /\ cut' = cut \cup {j}
    /\ UNCHANGED <<jobVars, queued, clean, workVars, extVars, overlap, misjudged, orphan>>

CreateItems(j) ==
    /\ sub[j] = "items"
    /\ \/ SubGoes(j, "upload") /\ NoFault
       \/ Fault /\ SubGoes(j, "release")
    /\ UNCHANGED <<jobVars, moneyVars, queued, clean, workVars, extVars, histVars>>

\* a job that was cancelled or failed meanwhile is released and left as it is
StartUpload(j) ==
    /\ sub[j] = "upload"
    /\ IF CanTransition(status[j], "uploading")
       THEN \/ SetStatus(j, "uploading") /\ SubGoes(j, "submit") /\ NoFault
            \/ Fault /\ SubGoes(j, "release") /\ (SetStatus(j, "uploading") \/ KeepStatus)
       ELSE KeepStatus /\ SubGoes(j, "back") /\ NoFault
    /\ UNCHANGED <<submitted, retries, settleCode, moneyVars, queued, clean, workVars,
                   extVars, histVars>>

\* provider.Submit; after an error the provider may have the job all the same
ProviderSubmit(j) ==
    /\ sub[j] = "submit"
    /\ \/ /\ prov' = [prov EXCEPT ![j] = "running"] /\ SubGoes(j, "record")
          /\ NoFault /\ UNCHANGED orphan
       \/ UNCHANGED <<prov, orphan>> /\ SubGoes(j, "release") /\ NoFault
       \/ /\ prov' = [prov EXCEPT ![j] = "running"] /\ SubGoes(j, "release")
          /\ Fault /\ orphan' = orphan \cup {j}
    /\ UNCHANGED <<jobVars, moneyVars, queued, clean, workVars, cost, overlap, misjudged, cut>>

\* the heartbeat during provider.Submit
TouchSubmitting(j) ==
    /\ sub[j] = "submit" /\ status[j] \in Unsubmitted /\ j \in stale
    /\ stale' = stale \ {j}
    /\ UNCHANGED <<status, submitted, retries, settleCode, moneyVars, queued, procVars,
                   workVars, extVars, histVars, faults>>

\* provider.Cancel, as far as it succeeds
CancelAtProvider(j) ==
    \/ UNCHANGED prov
    \/ prov[j] = "running" /\ prov' = [prov EXCEPT ![j] = "cancelled"]

\* Mutant: the transition to submitted is not checked.
RecordSubmitUnchecked(j) ==
    /\ sub[j] = "record"
    /\ SetStatus(j, "submitted") /\ submitted' = submitted \cup {j}
    /\ SubGoes(j, "enqueue") /\ NoFault /\ UNCHANGED prov
    /\ UNCHANGED <<retries, settleCode, moneyVars, queued, clean, workVars, cost, histVars>>

\* UpdateBatchImageJobProviderSubmit; an error aborts the job at the provider, as
\* far as the provider lets it
RecordSubmit(j) ==
    /\ sub[j] = "record"
    /\ \/ /\ CanTransition(status[j], "submitted")
          /\ SetStatus(j, "submitted") /\ submitted' = submitted \cup {j}
          /\ \/ SubGoes(j, "enqueue") /\ NoFault /\ UNCHANGED prov
             \/ SubGoes(j, "done") /\ Fault /\ CancelAtProvider(j)
          /\ UNCHANGED orphan
       \/ /\ KeepStatus /\ UNCHANGED submitted
          /\ IF CanTransition(status[j], "submitted") THEN Fault ELSE NoFault
          /\ SubGoes(j, "done") /\ CancelAtProvider(j)
          /\ orphan' = IF prov'[j] = "running" THEN orphan \cup {j} ELSE orphan
    /\ UNCHANGED <<retries, settleCode, moneyVars, queued, clean, workVars, cost, overlap,
                   misjudged, cut>>

\* the failure is recorded as QUEUE_FAILED, whatever the row said before
EnqueueFails(j) ==
    /\ Fault
    /\ settleCode' = settleCode \ {j}
    /\ misjudged' = IF status[j] = "settling" THEN misjudged \cup {j} ELSE misjudged
    /\ UNCHANGED queued

SubEnqueue(j) ==
    /\ sub[j] = "enqueue"
    /\ SubGoes(j, "done")
    /\ \/ queued' = queued \cup {j} /\ NoFault /\ UNCHANGED <<settleCode, misjudged>>
       \/ EnqueueFails(j)
    /\ UNCHANGED <<status, submitted, retries, stale, moneyVars, clean, workVars, extVars,
                   overlap, cut, orphan>>

\* releaseFailedSubmitHold
SubRelease(j) ==
    /\ sub[j] \in {"release", "back"}
    /\ \/ ReleaseOk(j) /\ SubGoes(j, IF sub[j] = "back" THEN "done" ELSE "mark")
       \/ ReleaseFails(j) /\ SubGoes(j, "giveup")
    /\ UNCHANGED <<jobVars, queued, clean, workVars, extVars, histVars>>

\* its release failed: the job is marked failed and queued for another try
GiveUp(j) ==
    /\ sub[j] = "giveup"
    /\ SubGoes(j, "done")
    /\ \/ SetStatus(j, "failed") /\ queued' = queued \cup {j} /\ NoFault /\ UNCHANGED cut
       \/ Fault /\ SetStatus(j, "failed") /\ UNCHANGED queued /\ cut' = cut \cup {j}
       \/ Fault /\ KeepStatus /\ queued' = queued \cup {j} /\ UNCHANGED cut
    /\ settleCode' = IF status' # status THEN settleCode \ {j} ELSE settleCode
    /\ UNCHANGED <<submitted, retries, moneyVars, clean, workVars, extVars, overlap, misjudged,
                   orphan>>

\* RecordBatchImageJobSubmitFailure, whatever the status is, and hiding the
\* record from its owner
MarkFailed(j) ==
    /\ sub[j] = "mark"
    /\ \/ SetStatus(j, "failed") /\ NoFault
       \/ Fault /\ KeepStatus
    /\ SubGoes(j, IF status'[j] \in Terminal THEN "hidden" ELSE "done")
    /\ UNCHANGED <<submitted, retries, settleCode, moneyVars, queued, clean, workVars,
                   extVars, histVars>>

SubStops(j) ==
    /\ sub[j] \notin {"idle", "done", "hidden"}
    /\ Fault
    /\ SubGoes(j, "done")
    /\ orphan' = IF sub[j] = "record" THEN orphan \cup {j} ELSE orphan
    /\ UNCHANGED <<jobVars, moneyVars, queued, clean, workVars, extVars, overlap, misjudged, cut>>

\* Submit again with the idempotency key of a job that was submitted when it
\* was read; a job that is queued stays so (ErrBatchImageAlreadyQueued)
Resubmit(j) ==
    /\ j \in submitted
    /\ \/ queued' = queued \cup {j} /\ NoFault /\ UNCHANGED <<settleCode, misjudged>>
       \/ EnqueueFails(j)
    /\ UNCHANGED <<status, submitted, retries, stale, moneyVars, procVars, workVars, extVars,
                   overlap, cut, orphan>>

Age(j) ==
    /\ status[j] \in Unsubmitted /\ j \notin stale
    /\ stale' = stale \cup {j}
    /\ UNCHANGED <<status, submitted, retries, settleCode, moneyVars, queued, procVars,
                   workVars, extVars, histVars, faults>>

-----------------------------------------------------------------------------
(* Cancel and the recovery.                                                *)

CleanGoes(c, j, to) == clean' = [clean EXCEPT ![c][j] = to]

\* what a Cancel call reads decides what it does; a settling or completed job
\* is left alone
CancelRead(j) ==
    /\ clean["cancel"][j] = "idle" /\ status[j] # "none" /\ sub[j] # "hidden"
    /\ status[j] \notin {"settling", "completed"}
    /\ IF status[j] \in Lost
       THEN CleanGoes("cancel", j, "release") /\ UNCHANGED prov
       ELSE IF j \in submitted
       THEN CleanGoes("cancel", j, "enqueue") /\ CancelAtProvider(j)
       ELSE CleanGoes("cancel", j, "transition") /\ UNCHANGED prov
    /\ UNCHANGED <<jobVars, moneyVars, queued, sub, workVars, cost, histVars, faults>>

\* the row may have been submitted since it was read; nobody tells the provider then
CancelTransition(j) ==
    /\ clean["cancel"][j] = "transition"
    /\ IF CanTransition(status[j], "cancelled")
       THEN \/ /\ SetStatus(j, "cancelled") /\ CleanGoes("cancel", j, "release")
               /\ NoFault /\ UNCHANGED cut
            \/ /\ Fault /\ CleanGoes("cancel", j, "idle")
               /\ \/ KeepStatus /\ UNCHANGED cut
                  \/ SetStatus(j, "cancelled") /\ cut' = cut \cup {j}
       ELSE KeepStatus /\ CleanGoes("cancel", j, "idle") /\ NoFault /\ UNCHANGED cut
    /\ orphan' = IF status' # status /\ j \in submitted THEN orphan \cup {j} ELSE orphan
    /\ UNCHANGED <<submitted, retries, settleCode, moneyVars, queued, sub, workVars, extVars,
                   overlap, misjudged>>

CancelEnqueue(j) ==
    /\ clean["cancel"][j] = "enqueue"
    /\ CleanGoes("cancel", j, "idle")
    /\ \/ queued' = queued \cup {j} /\ NoFault
       \/ Fault /\ UNCHANGED queued
    /\ UNCHANGED <<jobVars, moneyVars, sub, workVars, extVars, histVars>>

\* FailStaleUnsubmittedBatchImageJob looks at the row again: the list that the
\* recovery read before does not matter
RecoverFail(j) ==
    /\ clean["recovery"][j] = "idle"
    /\ status[j] \in Unsubmitted /\ j \notin submitted /\ j \in stale
    /\ SetStatus(j, "failed")
    /\ \/ CleanGoes("recovery", j, "release") /\ NoFault /\ UNCHANGED cut
       \/ Fault /\ UNCHANGED clean /\ cut' = cut \cup {j}
    /\ UNCHANGED <<submitted, retries, settleCode, moneyVars, queued, sub, workVars, extVars,
                   overlap, misjudged, orphan>>

CleanRelease(c, j) ==
    /\ clean[c][j] = "release"
    /\ \/ ReleaseOk(j) /\ CleanGoes(c, j, "idle")
       \/ ReleaseFails(j) /\ CleanGoes(c, j, "retry")
    /\ UNCHANGED <<jobVars, queued, sub, workVars, extVars, histVars>>

\* Mutant: the job of a failed release is not queued.
CleanForgets(c, j) ==
    /\ clean[c][j] = "retry"
    /\ CleanGoes(c, j, "idle") /\ NoFault
    /\ UNCHANGED <<jobVars, moneyVars, queued, sub, workVars, extVars, histVars>>

\* enqueueBillingRetry, enqueueReleaseRetry
CleanRetry(c, j) ==
    /\ clean[c][j] = "retry"
    /\ CleanGoes(c, j, "idle")
    /\ \/ queued' = queued \cup {j} /\ NoFault /\ UNCHANGED cut
       \/ Fault /\ cut' = cut \cup {j} /\ UNCHANGED queued
    /\ UNCHANGED <<jobVars, moneyVars, sub, workVars, extVars, overlap, misjudged, orphan>>

CleanStops(c, j) ==
    /\ clean[c][j] # "idle"
    /\ Fault
    /\ CleanGoes(c, j, "idle")
    /\ cut' = IF clean[c][j] \in {"release", "retry"} THEN cut \cup {j} ELSE cut
    /\ UNCHANGED <<jobVars, moneyVars, queued, sub, workVars, extVars, overlap, misjudged, orphan>>

-----------------------------------------------------------------------------
(* A worker with a job.  Whatever goes wrong, it requeues the job: the      *)
(* worker is idle and the job still queued.                                 *)

WorkGoes(w, to) ==
    /\ wpc' = [wpc EXCEPT ![w] = to]
    /\ wjob' = [wjob EXCEPT ![w] = IF to = "idle" THEN None ELSE @]

\* Reserve, TryAcquireJobLock and the pipeline's read of the job; a job that
\* another worker has is taken only if that one's lock was lost
Take(w, j) ==
    /\ wpc[w] = "idle" /\ j \in queued
    /\ wjob' = [wjob EXCEPT ![w] = j]
    /\ wpc' = [wpc EXCEPT ![w] = IF status[j] = "settling" THEN "settle" ELSE "process"]
    /\ IF \E v \in Workers : wjob[v] = j
       THEN Fault /\ overlap' = overlap \cup {j}
       ELSE NoFault /\ UNCHANGED overlap
    /\ UNCHANGED <<jobVars, moneyVars, queued, procVars, extVars, misjudged, cut, orphan>>

\* Mutant: the hold of every job that is over is released.
ProcessReleasesDone(w) ==
    LET j == wjob[w] IN
    /\ wpc[w] = "process"
    /\ WorkGoes(w, IF status[j] \in Terminal THEN "release"
                   ELSE IF j \notin submitted THEN "idle"
                   ELSE IF status[j] = "indexing" THEN "index" ELSE "poll")
    /\ UNCHANGED <<jobVars, moneyVars, queued, procVars, extVars, histVars, faults>>

\* the provider processor reads the job again: settling counts as done here
Process(w) ==
    LET j == wjob[w] IN
    /\ wpc[w] = "process"
    /\ WorkGoes(w, IF status[j] \in Lost THEN "release"
                   ELSE IF status[j] \in {"settling", "completed"} THEN "ack"
                   ELSE IF j \notin submitted THEN "idle"
                   ELSE IF status[j] = "indexing" THEN "index" ELSE "poll")
    /\ UNCHANGED <<jobVars, moneyVars, queued, procVars, extVars, histVars, faults>>

\* provider.Get
Poll(w) ==
    LET j == wjob[w] IN
    /\ wpc[w] = "poll"
    /\ \/ WorkGoes(w, "idle")
       \/ prov[j] = "running" /\ WorkGoes(w, IF status[j] = "running" THEN "idle" ELSE "running")
       \/ prov[j] = "succeeded" /\ WorkGoes(w, "indexing")
       \/ prov[j] \in {"failed", "cancelled"} /\ WorkGoes(w, prov[j])
    /\ UNCHANGED <<jobVars, moneyVars, queued, procVars, extVars, histVars, faults>>

\* Mutant: the status is written without looking at the row.
WorkTransitionBlind(w) ==
    LET to == wpc[w] IN
    /\ to \in {"running", "indexing", "settling", "failed", "cancelled"}
    /\ SetStatus(wjob[w], to) /\ NoFault
    /\ WorkGoes(w, IF to = "indexing" THEN "index" ELSE IF to \in Lost THEN "release" ELSE "idle")
    /\ UNCHANGED <<submitted, retries, settleCode, moneyVars, queued, procVars, extVars, histVars>>

\* TransitionBatchImageJobStatus: the row is locked and its status checked
WorkTransition(w) ==
    LET j == wjob[w]
        to == wpc[w]
        after == IF to = "indexing" THEN "index" ELSE IF to \in Lost THEN "release" ELSE "idle" IN
    /\ to \in {"running", "indexing", "settling", "failed", "cancelled"}
    /\ IF CanTransition(status[j], to)
       THEN \/ SetStatus(j, to) /\ WorkGoes(w, after) /\ NoFault
            \/ (SetStatus(j, to) \/ KeepStatus) /\ WorkGoes(w, "idle") /\ Fault
       ELSE KeepStatus /\ WorkGoes(w, "idle") /\ NoFault
    /\ settleCode' = IF to = "failed" /\ status' # status THEN settleCode \ {j} ELSE settleCode
    /\ UNCHANGED <<submitted, retries, moneyVars, queued, procVars, extVars, histVars>>

\* the result is missing, cannot be parsed, or replaces the items: the last
\* only while the job is indexing
Index(w) ==
    LET j == wjob[w] IN
    /\ wpc[w] = "index"
    /\ \/ WorkGoes(w, "idle") /\ UNCHANGED <<cost, stale>>
       \/ WorkGoes(w, "failed") /\ UNCHANGED <<cost, stale>>
       \/ /\ status[j] = "indexing" /\ WorkGoes(w, "settling")
          /\ \E c \in Costs[j] : cost' = [cost EXCEPT ![j] = c]
          /\ stale' = stale \ {j}
    /\ UNCHANGED <<status, submitted, retries, settleCode, moneyVars, queued, procVars, prov,
                   histVars, faults>>

\* isBatchImageSettlementRetryExhausted
Exhausted(j) == retries[j] >= MaxRetries /\ j \in settleCode

\* Settle, up to the capture
Settle(w) ==
    LET j == wjob[w] IN
    /\ wpc[w] = "settle"
    /\ WorkGoes(w, IF status[j] = "completed" THEN "ack"
                   ELSE IF status[j] # "settling" THEN "idle"
                   ELSE IF Exhausted(j) THEN "exhausted"
                   ELSE IF cost[j] > Hold[j] THEN "note" ELSE "capture")
    /\ UNCHANGED <<jobVars, moneyVars, queued, procVars, extVars, histVars, faults>>

\* Mutant: a failed capture is not noticed.
CaptureIgnored(w) ==
    /\ wpc[w] = "capture"
    /\ WorkGoes(w, "mark")
    /\ (CaptureTx(wjob[w]) /\ NoFault) \/ (UNCHANGED moneyVars /\ Fault)
    /\ UNCHANGED <<jobVars, queued, procVars, extVars, histVars>>

Capture(w) ==
    LET j == wjob[w] IN
    /\ wpc[w] = "capture"
    /\ \/ CaptureTx(j) /\ WorkGoes(w, "mark") /\ NoFault
       \/ /\ WorkGoes(w, "note")
          /\ \/ ~CanCapture(j) /\ UNCHANGED moneyVars /\ NoFault
             \/ Fault /\ (UNCHANGED moneyVars \/ CaptureTx(j))
    /\ UNCHANGED <<jobVars, queued, procVars, extVars, histVars>>

\* MarkBatchImageJobSettled
Mark(w) ==
    LET j == wjob[w] IN
    /\ wpc[w] = "mark"
    /\ IF status[j] = "settling"
       THEN \/ SetStatus(j, "completed") /\ WorkGoes(w, "ack") /\ NoFault
            \/ (SetStatus(j, "completed") \/ KeepStatus) /\ WorkGoes(w, "idle") /\ Fault
       ELSE KeepStatus /\ WorkGoes(w, "idle") /\ NoFault
    /\ UNCHANGED <<submitted, retries, settleCode, moneyVars, queued, procVars, extVars, histVars>>

\* SetBatchImageJobSettlementFailed
CountFailure(j) ==
    /\ retries' = [retries EXCEPT ![j] = IF @ < MaxRetries THEN @ + 1 ELSE @]
    /\ settleCode' = settleCode \cup {j}
    /\ stale' = stale \ {j}
    /\ misjudged' = IF "capture" \in claims[j] THEN misjudged \cup {j} ELSE misjudged
CountNothing == UNCHANGED <<retries, settleCode, stale, misjudged>>

\* recordSettlementFailure: the last failure gives the settlement up
Note(w) ==
    LET j == wjob[w]
        back == IF cost[j] > Hold[j] THEN "idle" ELSE "reread" IN
    /\ wpc[w] = "note"
    /\ \/ /\ CountFailure(j) /\ NoFault
          /\ WorkGoes(w, IF retries'[j] >= MaxRetries THEN "exhausted" ELSE back)
       \/ (CountFailure(j) \/ CountNothing) /\ Fault /\ WorkGoes(w, back)
    /\ UNCHANGED <<status, submitted, moneyVars, queued, procVars, extVars, overlap, cut, orphan>>

\* failExhaustedSettlement
ExhaustRelease(w) ==
    LET j == wjob[w] IN
    /\ wpc[w] = "exhausted"
    /\ \/ ReleaseOk(j) /\ WorkGoes(w, "fail") /\ CountNothing
       \/ ReleaseFails(j) /\ WorkGoes(w, "reread") /\ (CountFailure(j) \/ CountNothing)
    /\ UNCHANGED <<status, submitted, queued, procVars, extVars, overlap, cut, orphan>>

FailExhausted(w) ==
    LET j == wjob[w] IN
    /\ wpc[w] = "fail"
    /\ IF CanTransition(status[j], "failed")
       THEN \/ SetStatus(j, "failed") /\ WorkGoes(w, "reread") /\ NoFault
            \/ (SetStatus(j, "failed") \/ KeepStatus) /\ WorkGoes(w, "idle") /\ Fault
       ELSE KeepStatus /\ WorkGoes(w, "idle") /\ NoFault
    /\ UNCHANGED <<submitted, retries, settleCode, moneyVars, queued, procVars, extVars, histVars>>

\* the pipeline looks whether the failed settlement ended the job
Reread(w) ==
    /\ wpc[w] = "reread"
    /\ WorkGoes(w, IF status[wjob[w]] \in Terminal THEN "ack" ELSE "idle")
    /\ UNCHANGED <<jobVars, moneyVars, queued, procVars, extVars, histVars, faults>>

\* releaseTerminalHold
ReleaseTerminal(w) ==
    LET j == wjob[w] IN
    /\ wpc[w] = "release"
    /\ \/ ReleaseOk(j) /\ WorkGoes(w, "ack")
       \/ ReleaseFails(j) /\ WorkGoes(w, "idle")
    /\ UNCHANGED <<jobVars, queued, procVars, extVars, histVars>>

Ack(w) ==
    /\ wpc[w] = "ack"
    /\ WorkGoes(w, "idle")
    /\ \/ queued' = queued \ {wjob[w]} /\ NoFault
       \/ UNCHANGED queued /\ Fault
    /\ UNCHANGED <<jobVars, moneyVars, procVars, extVars, histVars>>

WorkerStops(w) ==
    /\ wpc[w] # "idle"
    /\ Fault
    /\ WorkGoes(w, "idle")
    /\ UNCHANGED <<jobVars, moneyVars, queued, procVars, extVars, histVars>>

\* the provider ends the job
ProvFinish(j) ==
    /\ prov[j] = "running"
    /\ \E s \in {"succeeded", "failed"} : prov' = [prov EXCEPT ![j] = s]
    /\ UNCHANGED <<jobVars, moneyVars, queued, procVars, workVars, cost, histVars, faults>>

-----------------------------------------------------------------------------

SubmitNext(j) ==
    \/ Create(j) \/ Reserve(j) \/ CreateItems(j) \/ StartUpload(j) \/ ProviderSubmit(j)
    \/ TouchSubmitting(j) \/ RecordSubmit(j) \/ SubEnqueue(j) \/ SubRelease(j) \/ GiveUp(j)
    \/ MarkFailed(j) \/ SubStops(j) \/ Resubmit(j) \/ Age(j)
CleanNext(j) ==
    \/ CancelRead(j) \/ CancelTransition(j) \/ CancelEnqueue(j) \/ RecoverFail(j)
    \/ \E c \in Cleaners : CleanRelease(c, j) \/ CleanRetry(c, j) \/ CleanStops(c, j)
WorkNext(w) ==
    \/ \E j \in Jobs : Take(w, j)
    \/ Process(w) \/ Poll(w) \/ WorkTransition(w) \/ Index(w)
    \/ Settle(w) \/ Capture(w) \/ Mark(w) \/ Note(w) \/ ExhaustRelease(w) \/ FailExhausted(w)
    \/ Reread(w) \/ ReleaseTerminal(w) \/ Ack(w) \/ WorkerStops(w)

Next ==
    \/ \E j \in Jobs : SubmitNext(j) \/ CleanNext(j) \/ ProvFinish(j)
    \/ \E w \in Workers : WorkNext(w)

Spec == Init /\ [][Next]_vars

-----------------------------------------------------------------------------
(* Properties.                                                             *)

Held(j)     == "hold" \in claims[j]
Captured(j) == "capture" \in claims[j]
Released(j) == "release" \in claims[j] /\ j \notin phantom
Disturbed   == overlap \cup misjudged

\* The hold of a job is kept or given back, never both: the frozen balance
\* is shared, so a second settlement would take the money of another job.
\* Only a lost lock, a failure recorded after the capture had taken effect
\* (failExhaustedSettlement), or a settlement code that a failed enqueue
\* overwrote (RecordBatchImageJobSubmitFailure), gets past the request ids.
SettledOnce == \A j \in Jobs : Captured(j) /\ Released(j) => j \in Disturbed

\* A completed job was paid for; a failed or cancelled one was not.
OutcomeMatches == \A j \in Jobs :
    /\ status[j] = "completed" => Captured(j)
    /\ status[j] \in Lost /\ Captured(j) => j \in Disturbed

\* A job that the row says is with the provider has its hold frozen, and a
\* settling job loses it only after the last retry.  And while the provider
\* does work for a job, its hold is frozen: the recovery and Cancel look at the
\* row again and return no money of a job that goes on.  The exceptions are a
\* Submit they overtook, until it is refused and aborts the provider's job, and
\* the provider's jobs that the service lost sight of: provider.Submit failed
\* although it had created the job, Submit stopped before it was recorded, the
\* abort failed, or a Cancel had read the row before it was submitted.
WorkCovered == \A j \in Jobs :
    /\ status[j] \in {"submitted", "running", "indexing"} =>
         Held(j) /\ claims[j] \cap {"capture", "release"} = {}
    /\ status[j] = "settling" => /\ Held(j) /\ j \notin phantom
                                 /\ Released(j) => retries[j] = MaxRetries
    /\ prov[j] = "running" => \/ Held(j) /\ claims[j] \cap {"capture", "release"} = {}
                              \/ sub[j] = "record"
                              \/ j \in orphan

\* somebody will still release the hold of the job
ReleaseComing(j) ==
    \/ j \in queued
    \/ \E c \in Cleaners : clean[c][j] \in {"release", "retry"}

\* The hold of a failed or cancelled job is not forgotten: the job stays
\* queued, or with a caller that releases it, until the hold is given back.
\* The exceptions are the ones of the code: a release that was claimed before
\* the hold, a follow-up that was lost, and a worker that lost its lock.
HoldFollowed == \A j \in Jobs :
    status[j] \in Lost /\ Held(j) /\ claims[j] \cap {"capture", "release"} = {} =>
        ReleaseComing(j) \/ j \in cut \cup overlap

\* No money is made or lost: what the user has, frozen or not, is what he had
\* less the cost of the captured jobs; and while no job was settled twice,
\* the frozen balance is what the open holds add up to.
MoneyAccounted ==
    /\ balance + frozen + SumFunctionOnSet(cost, {j \in Jobs : Captured(j)})
         = Opening + OpeningFrozen
    /\ Disturbed = {} =>
         frozen = SumFunctionOnSet(Hold,
                    {j \in Jobs : Held(j) /\ ~Captured(j) /\ ~Released(j)})

\* how far a job is
Rank(s) == IF s \in Terminal THEN 7 ELSE
    [none |-> 0, created |-> 1, uploading |-> 2, submitted |-> 3, running |-> 4,
     indexing |-> 5, settling |-> 6][s]

\* No late poll, cancel, recovery or failed submission takes a job back: its
\* status only goes forward, and what has ended stays as it ended.  Only the
\* blind write of a failed submission may turn a cancelled job into a failed
\* one (RecordBatchImageJobSubmitFailure does not look at the status).
Advances(from, to) ==
    from = to \/ Rank(from) < Rank(to) \/ (from = "cancelled" /\ to = "failed")
StatusForward == [][\A j \in Jobs : Advances(status[j], status'[j])]_vars
=============================================================================
