--------------------------- MODULE BatchImageProofs ---------------------------
(***************************************************************************)
(* Proofs about batch image jobs for every set of jobs and workers, every  *)
(* hold and cost and any number of failures: the type invariant, that a    *)
(* hold is settled once, that the end of a job matches its claims, that    *)
(* provider work is covered, that the hold of a lost job is followed, and  *)
(* that no money is made or lost, and that a status only goes forward.     *)
(*                                                                         *)
(* The inductive invariant says what each Submit call, cleaner and worker  *)
(* knows of its job: what is true whoever else has the job, what only a    *)
(* worker that has it alone may rely on, and what the three claims of a    *)
(* job say about its status and its retries.                               *)
(***************************************************************************)
EXTENDS BatchImage, SumTheorems

EarlyPcs == {"poll", "running", "indexing", "failed", "cancelled", "index", "settling"}
SettlePcs == {"capture", "mark", "note", "exhausted", "fail"}
Going == {"submitted", "running", "indexing", "settling", "completed"}
Settled == {"settling"} \cup Terminal

\* where a job's Submit call and its cleaners are, and what the row says
Places ==
    /\ \A j \in Jobs :
          /\ status[j] = "none" => /\ sub[j] = "idle" /\ claims[j] = {}
                                   /\ j \notin submitted \cup queued
                                   /\ \A c \in Cleaners : clean[c][j] = "idle"
          /\ sub[j] = "idle" => status[j] = "none"
          /\ sub[j] \notin {"enqueue", "done"} => j \notin submitted
          /\ status[j] \in Unsubmitted => j \notin submitted
          /\ status[j] \in Going => j \in submitted
    /\ \A c \in Cleaners, j \in Jobs :
          clean[c][j] \in {"release", "retry"} => status[j] \in Lost

\* what a worker knows of its job, whoever else has it
Working ==
    /\ \A w \in Workers : wpc[w] = "idle" <=> wjob[w] = None
    /\ \A w \in Workers : wpc[w] # "idle" =>
          /\ status[wjob[w]] # "none"
          /\ wpc[w] = "release" => status[wjob[w]] \in Lost
          /\ wpc[w] \in SettlePcs \cup {"reread"} => status[wjob[w]] \in Settled /\ wjob[w] \in submitted
          /\ wpc[w] = "capture" => cost[wjob[w]] <= Hold[wjob[w]]
          /\ wpc[w] = "mark" => Captured(wjob[w])
          /\ wpc[w] = "fail" => "release" \in claims[wjob[w]]
          /\ wpc[w] = "exhausted" => retries[wjob[w]] = MaxRetries
    /\ \A v, w \in Workers : v # w /\ wpc[w] # "idle" /\ wjob[v] = wjob[w] => wjob[w] \in overlap

\* what it knows as long as nobody else has it
Alone == \A w \in Workers : wpc[w] # "idle" /\ wjob[w] \notin overlap =>
    /\ wjob[w] \in queued
    /\ wpc[w] = "process" => status[wjob[w]] # "settling"
    /\ wpc[w] \in EarlyPcs => status[wjob[w]] \notin {"settling", "completed"}
    /\ wpc[w] \in SettlePcs \cup {"settle"} => status[wjob[w]] = "settling"
    /\ wpc[w] = "reread" /\ status[wjob[w]] \in Lost => "release" \in claims[wjob[w]]
    /\ wpc[w] = "ack" => \/ status[wjob[w]] = "completed"
                         \/ status[wjob[w]] \in Lost /\ "release" \in claims[wjob[w]]

\* what the claims say about a job
Booked == \A j \in Jobs :
    /\ sub[j] = "reserve" => "hold" \notin claims[j]
    /\ sub[j] = "reserve" /\ status[j] \in Unsubmitted => claims[j] = {}
    /\ sub[j] \in {"items", "upload", "submit", "record", "release", "back", "giveup"} => Held(j)
    /\ sub[j] \in {"items", "upload", "submit", "record"} /\ status[j] \in Unsubmitted =>
          claims[j] = {"hold"}
    /\ status[j] \in {"submitted", "running", "indexing"} => claims[j] = {"hold"}
    /\ status[j] \in {"settling", "completed"} => Held(j)
    /\ Captured(j) => status[j] \in Settled /\ j \in submitted
    /\ j \in phantom => status[j] \in Lost

\* the retries, and who may still capture or release
Counted ==
    /\ \A j \in Jobs :
          /\ retries[j] > 0 => status[j] \in Settled
          /\ status[j] = "settling" /\ "release" \in claims[j] => retries[j] = MaxRetries
          /\ status[j] = "settling" /\ j \notin Disturbed =>
                /\ retries[j] = MaxRetries => j \in settleCode
                /\ Captured(j) => retries[j] < MaxRetries
    /\ \A w \in Workers : wpc[w] # "idle" /\ wjob[w] \notin Disturbed =>
          /\ wpc[w] = "capture" => retries[wjob[w]] < MaxRetries
          /\ wpc[w] \in {"exhausted", "fail"} => ~Captured(wjob[w])

\* somebody will release the hold of a lost job, even before it is frozen
Followed == \A j \in Jobs :
    /\ status[j] \in Lost /\ (Held(j) \/ sub[j] = "reserve")
         /\ claims[j] \cap {"capture", "release"} = {} =>
            ReleaseComing(j) \/ j \in cut \cup overlap
    /\ sub[j] = "mark" /\ Held(j) => "release" \in claims[j] \/ j \in cut

\* where a job is that still runs at the provider, and that an orphan is not submitted any more
\* or is lost
JobsSighted ==
    /\ \A j \in orphan :
          /\ sub[j] \in {"enqueue", "release", "giveup", "mark", "done", "hidden"}
          /\ j \in submitted => status[j] \in Lost
    /\ \A j \in Jobs : prov[j] = "running" =>
          \/ sub[j] = "record"
          \/ j \in orphan
          \/ j \in submitted /\ status[j] \in {"submitted", "running"}

\* what a worker knows of a job once it has seen it end
WorkersSighted ==
    \A w \in Workers :
       /\ wpc[w] \in EarlyPcs => wjob[w] \in submitted
       /\ wpc[w] \in EarlyPcs \ {"poll", "running"} => prov[wjob[w]] # "running"

Sighted == JobsSighted /\ WorkersSighted

Inv ==
    /\ TypeOK /\ Places /\ Working /\ Alone /\ Booked /\ Counted
    /\ SettledOnce /\ OutcomeMatches /\ Followed /\ Sighted

-----------------------------------------------------------------------------

LEMMA AtLimit ==
  ASSUME NEW n \in 0..MaxRetries, n >= MaxRetries
  PROVE  n = MaxRetries
  BY BatchAssumption

\* Every step keeps the types.
LEMMA TypeStep ==
  ASSUME TypeOK, Working, [Next]_vars
  PROVE  TypeOK'
<1>. USE BatchAssumption
<1>. USE DEF TypeOK, Working, SettlePcs, Cleaners, jobVars, moneyVars, procVars, workVars, extVars, histVars
<1>1. ASSUME NEW i \in Jobs, Create(i) PROVE TypeOK'
  BY <1>1 DEF Create, SubGoes, SetStatus, KeepStatus, Fault, NoFault
<1>2. ASSUME NEW i \in Jobs, Reserve(i) PROVE TypeOK'
  BY <1>2 DEF Reserve, ReserveTx, Claim, SubGoes, Fault, NoFault
<1>3. ASSUME NEW i \in Jobs, CreateItems(i) PROVE TypeOK'
  BY <1>3 DEF CreateItems, SubGoes, Fault, NoFault
<1>4. ASSUME NEW i \in Jobs, StartUpload(i) PROVE TypeOK'
  BY <1>4, SMTT(30) DEF StartUpload, SubGoes, SetStatus, KeepStatus, CanTransition, Fault, NoFault
<1>5. ASSUME NEW i \in Jobs, ProviderSubmit(i) PROVE TypeOK'
  BY <1>5 DEF ProviderSubmit, SubGoes, Fault, NoFault
<1>6. ASSUME NEW i \in Jobs, TouchSubmitting(i) PROVE TypeOK'
  BY <1>6 DEF TouchSubmitting, Fault, NoFault
<1>7. ASSUME NEW i \in Jobs, RecordSubmit(i) PROVE TypeOK'
  BY <1>7, SMTT(30) DEF RecordSubmit, CancelAtProvider, SubGoes, SetStatus, KeepStatus, CanTransition, Fault, NoFault
<1>8. ASSUME NEW i \in Jobs, SubEnqueue(i) PROVE TypeOK'
  BY <1>8 DEF SubEnqueue, EnqueueFails, SubGoes, Fault, NoFault
<1>9. ASSUME NEW i \in Jobs, SubRelease(i) PROVE TypeOK'
  BY <1>9 DEF SubRelease, ReleaseOk, ReleaseFails, ReleaseTx, CanRelease, Claim, SubGoes, Fault, NoFault
<1>10. ASSUME NEW i \in Jobs, GiveUp(i) PROVE TypeOK'
  BY <1>10 DEF GiveUp, SubGoes, SetStatus, KeepStatus, Fault, NoFault
<1>11. ASSUME NEW i \in Jobs, MarkFailed(i) PROVE TypeOK'
  BY <1>11 DEF MarkFailed, SubGoes, SetStatus, KeepStatus, Fault, NoFault
<1>12. ASSUME NEW i \in Jobs, SubStops(i) PROVE TypeOK'
  BY <1>12 DEF SubStops, SubGoes, Fault, NoFault
<1>13. ASSUME NEW i \in Jobs, Resubmit(i) PROVE TypeOK'
  BY <1>13 DEF Resubmit, EnqueueFails, Fault, NoFault
<1>14. ASSUME NEW i \in Jobs, Age(i) PROVE TypeOK'
  BY <1>14 DEF Age, Fault, NoFault
<1>15. ASSUME NEW i \in Jobs, CancelRead(i) PROVE TypeOK'
  BY <1>15 DEF CancelRead, CancelAtProvider, CleanGoes, Fault, NoFault
<1>16. ASSUME NEW i \in Jobs, CancelTransition(i) PROVE TypeOK'
  BY <1>16, SMTT(30) DEF CancelTransition, CleanGoes, SetStatus, KeepStatus, CanTransition, Fault, NoFault
<1>17. ASSUME NEW i \in Jobs, CancelEnqueue(i) PROVE TypeOK'
  BY <1>17 DEF CancelEnqueue, CleanGoes, Fault, NoFault
<1>18. ASSUME NEW i \in Jobs, RecoverFail(i) PROVE TypeOK'
  BY <1>18 DEF RecoverFail, CleanGoes, SetStatus, KeepStatus, Fault, NoFault
<1>19. ASSUME NEW i \in Jobs, ProvFinish(i) PROVE TypeOK'
  BY <1>19 DEF ProvFinish, Fault, NoFault
<1>20. ASSUME NEW i \in Jobs, NEW c \in Cleaners, CleanRelease(c, i) PROVE TypeOK'
  BY <1>20, SMTT(30) DEF CleanRelease, ReleaseOk, ReleaseFails, ReleaseTx, CanRelease, Claim, CleanGoes, Fault, NoFault
<1>21. ASSUME NEW i \in Jobs, NEW c \in Cleaners, CleanRetry(c, i) PROVE TypeOK'
  BY <1>21 DEF CleanRetry, CleanGoes, Fault, NoFault
<1>22. ASSUME NEW i \in Jobs, NEW c \in Cleaners, CleanStops(c, i) PROVE TypeOK'
  BY <1>22 DEF CleanStops, CleanGoes, Fault, NoFault
<1>23. ASSUME NEW w \in Workers, NEW i \in Jobs, Take(w, i) PROVE TypeOK'
  BY <1>23 DEF Take, Fault, NoFault
<1>24. ASSUME NEW w \in Workers, Process(w) PROVE TypeOK'
  BY <1>24 DEF Process, WorkGoes, Fault, NoFault
<1>25. ASSUME NEW w \in Workers, Poll(w) PROVE TypeOK'
  BY <1>25 DEF Poll, WorkGoes, Fault, NoFault
<1>26. ASSUME NEW w \in Workers, WorkTransition(w) PROVE TypeOK'
  BY <1>26 DEF WorkTransition, WorkGoes, Lost, SetStatus, KeepStatus, CanTransition, Fault, NoFault
<1>27. ASSUME NEW w \in Workers, Index(w) PROVE TypeOK'
  <2>1. wjob[w] \in Jobs
    BY <1>27 DEF Index
  <2>2. cost' \in [Jobs -> Nat] /\ \A j \in Jobs : cost'[j] \in Costs[j] \cup {0}
    BY <1>27, <2>1 DEF Index
  <2>3. wpc' \in [Workers -> {"idle", "failed", "settling"} \cup
                          {wpc[v] : v \in Workers}] /\ wjob' \in [Workers -> Jobs \cup {None}]
    BY <1>27 DEF Index, WorkGoes
  <2>. QED BY <1>27, <2>2, <2>3 DEF Index
<1>28. ASSUME NEW w \in Workers, Settle(w) PROVE TypeOK'
  BY <1>28 DEF Settle, Exhausted, WorkGoes, Fault, NoFault
<1>29. ASSUME NEW w \in Workers, Capture(w) PROVE TypeOK'
  BY <1>29 DEF Capture, CaptureTx, CanCapture, Claim, WorkGoes, Fault, NoFault
<1>30. ASSUME NEW w \in Workers, Mark(w) PROVE TypeOK'
  BY <1>30 DEF Mark, WorkGoes, SetStatus, KeepStatus, Fault, NoFault
<1>31. ASSUME NEW w \in Workers, Note(w) PROVE TypeOK'
  BY <1>31, SMTT(30) DEF Note, CountFailure, CountNothing, WorkGoes, Fault, NoFault
<1>32. ASSUME NEW w \in Workers, ExhaustRelease(w) PROVE TypeOK'
  BY <1>32 DEF ExhaustRelease, ReleaseOk, ReleaseFails, ReleaseTx, CanRelease, Claim, CountFailure, CountNothing, WorkGoes, Fault, NoFault
<1>33. ASSUME NEW w \in Workers, FailExhausted(w) PROVE TypeOK'
  BY <1>33 DEF FailExhausted, WorkGoes, SetStatus, KeepStatus, CanTransition, Fault, NoFault
<1>34. ASSUME NEW w \in Workers, Reread(w) PROVE TypeOK'
  BY <1>34 DEF Reread, WorkGoes, Fault, NoFault
<1>35. ASSUME NEW w \in Workers, ReleaseTerminal(w) PROVE TypeOK'
  BY <1>35 DEF ReleaseTerminal, ReleaseOk, ReleaseFails, ReleaseTx, CanRelease, Claim, WorkGoes, Fault, NoFault
<1>36. ASSUME NEW w \in Workers, Ack(w) PROVE TypeOK'
  BY <1>36 DEF Ack, WorkGoes, Fault, NoFault
<1>37. ASSUME NEW w \in Workers, WorkerStops(w) PROVE TypeOK'
  BY <1>37 DEF WorkerStops, WorkGoes, Fault, NoFault
<1>38. ASSUME UNCHANGED vars PROVE TypeOK'
  BY <1>38 DEF vars
<1>. HIDE DEF TypeOK, Working, SettlePcs, Cleaners, jobVars, moneyVars, procVars, workVars, extVars, histVars
<1>. QED BY <1>1, <1>2, <1>3, <1>4, <1>5, <1>6, <1>7, <1>8, <1>9,
           <1>10, <1>11, <1>12, <1>13, <1>14, <1>15, <1>16, <1>17, <1>18,
           <1>19, <1>20, <1>21, <1>22, <1>23, <1>24, <1>25, <1>26, <1>27,
           <1>28, <1>29, <1>30, <1>31, <1>32, <1>33, <1>34, <1>35, <1>36,
           <1>37, <1>38
         DEF Next, SubmitNext, CleanNext, WorkNext

\* Nobody submits a job that has ended, and only lost jobs are cleaned.
LEMMA PlacesStep ==
  ASSUME TypeOK, Places, Working, [Next]_vars
  PROVE  Places'
<1>. USE BatchAssumption
<1>. USE DEF TypeOK, Places, Working, Lost, Terminal, Unsubmitted, Going, Settled, SettlePcs, Cleaners, jobVars, moneyVars, procVars, workVars, extVars, histVars
<1>1. ASSUME NEW i \in Jobs, Create(i) PROVE Places'
  BY <1>1 DEF Create, SubGoes, SetStatus, KeepStatus, Fault, NoFault
<1>2. ASSUME NEW i \in Jobs, Reserve(i) PROVE Places'
  BY <1>2 DEF Reserve, ReserveTx, Claim, SubGoes, Fault, NoFault
<1>3. ASSUME NEW i \in Jobs, CreateItems(i) PROVE Places'
  BY <1>3 DEF CreateItems, SubGoes, Fault, NoFault
<1>4. ASSUME NEW i \in Jobs, StartUpload(i) PROVE Places'
  BY <1>4 DEF StartUpload, SubGoes, SetStatus, KeepStatus, CanTransition, Fault, NoFault
<1>5. ASSUME NEW i \in Jobs, ProviderSubmit(i) PROVE Places'
  BY <1>5 DEF ProviderSubmit, SubGoes, Fault, NoFault
<1>6. ASSUME NEW i \in Jobs, TouchSubmitting(i) PROVE Places'
  BY <1>6 DEF TouchSubmitting, Fault, NoFault
<1>7. ASSUME NEW i \in Jobs, RecordSubmit(i) PROVE Places'
  BY <1>7 DEF RecordSubmit, CancelAtProvider, SubGoes, SetStatus, KeepStatus, CanTransition, Fault, NoFault
<1>8. ASSUME NEW i \in Jobs, SubEnqueue(i) PROVE Places'
  BY <1>8 DEF SubEnqueue, EnqueueFails, SubGoes, Fault, NoFault
<1>9. ASSUME NEW i \in Jobs, SubRelease(i) PROVE Places'
  BY <1>9 DEF SubRelease, ReleaseOk, ReleaseFails, ReleaseTx, CanRelease, Claim, SubGoes, Fault, NoFault
<1>10. ASSUME NEW i \in Jobs, GiveUp(i) PROVE Places'
  BY <1>10 DEF GiveUp, SubGoes, SetStatus, KeepStatus, Fault, NoFault
<1>11. ASSUME NEW i \in Jobs, MarkFailed(i) PROVE Places'
  BY <1>11 DEF MarkFailed, SubGoes, SetStatus, KeepStatus, Fault, NoFault
<1>12. ASSUME NEW i \in Jobs, SubStops(i) PROVE Places'
  BY <1>12 DEF SubStops, SubGoes, Fault, NoFault
<1>13. ASSUME NEW i \in Jobs, Resubmit(i) PROVE Places'
  BY <1>13 DEF Resubmit, EnqueueFails, Fault, NoFault
<1>14. ASSUME NEW i \in Jobs, Age(i) PROVE Places'
  BY <1>14 DEF Age, Fault, NoFault
<1>15. ASSUME NEW i \in Jobs, CancelRead(i) PROVE Places'
  BY <1>15 DEF CancelRead, CancelAtProvider, CleanGoes, Fault, NoFault
<1>16. ASSUME NEW i \in Jobs, CancelTransition(i) PROVE Places'
  BY <1>16 DEF CancelTransition, CleanGoes, SetStatus, KeepStatus, CanTransition, Fault, NoFault
<1>17. ASSUME NEW i \in Jobs, CancelEnqueue(i) PROVE Places'
  BY <1>17 DEF CancelEnqueue, CleanGoes, Fault, NoFault
<1>18. ASSUME NEW i \in Jobs, RecoverFail(i) PROVE Places'
  BY <1>18 DEF RecoverFail, CleanGoes, SetStatus, KeepStatus, Fault, NoFault
<1>19. ASSUME NEW i \in Jobs, ProvFinish(i) PROVE Places'
  BY <1>19 DEF ProvFinish, Fault, NoFault
<1>20. ASSUME NEW i \in Jobs, NEW c \in Cleaners, CleanRelease(c, i) PROVE Places'
  BY <1>20 DEF CleanRelease, ReleaseOk, ReleaseFails, ReleaseTx, CanRelease, Claim, CleanGoes, Fault, NoFault
<1>21. ASSUME NEW i \in Jobs, NEW c \in Cleaners, CleanRetry(c, i) PROVE Places'
  BY <1>21 DEF CleanRetry, CleanGoes, Fault, NoFault
<1>22. ASSUME NEW i \in Jobs, NEW c \in Cleaners, CleanStops(c, i) PROVE Places'
  BY <1>22 DEF CleanStops, CleanGoes, Fault, NoFault
<1>23. ASSUME NEW w \in Workers, NEW i \in Jobs, Take(w, i) PROVE Places'
  BY <1>23 DEF Take, Fault, NoFault
<1>24. ASSUME NEW w \in Workers, Process(w) PROVE Places'
  BY <1>24 DEF Process, WorkGoes, Fault, NoFault
<1>25. ASSUME NEW w \in Workers, Poll(w) PROVE Places'
  BY <1>25 DEF Poll, WorkGoes, Fault, NoFault
<1>26. ASSUME NEW w \in Workers, WorkTransition(w) PROVE Places'
  BY <1>26 DEF WorkTransition, WorkGoes, Lost, SetStatus, KeepStatus, CanTransition, Fault, NoFault
<1>27. ASSUME NEW w \in Workers, Index(w) PROVE Places'
  BY <1>27 DEF Index, WorkGoes, Fault, NoFault
<1>28. ASSUME NEW w \in Workers, Settle(w) PROVE Places'
  BY <1>28 DEF Settle, Exhausted, WorkGoes, Fault, NoFault
<1>29. ASSUME NEW w \in Workers, Capture(w) PROVE Places'
  BY <1>29 DEF Capture, CaptureTx, CanCapture, Claim, WorkGoes, Fault, NoFault
<1>30. ASSUME NEW w \in Workers, Mark(w) PROVE Places'
  BY <1>30 DEF Mark, WorkGoes, SetStatus, KeepStatus, Fault, NoFault
<1>31. ASSUME NEW w \in Workers, Note(w) PROVE Places'
  BY <1>31 DEF Note, CountFailure, CountNothing, WorkGoes, Fault, NoFault
<1>32. ASSUME NEW w \in Workers, ExhaustRelease(w) PROVE Places'
  BY <1>32 DEF ExhaustRelease, ReleaseOk, ReleaseFails, ReleaseTx, CanRelease, Claim, CountFailure, CountNothing, WorkGoes, Fault, NoFault
<1>33. ASSUME NEW w \in Workers, FailExhausted(w) PROVE Places'
  <2>1. /\ wjob[w] \in Jobs /\ status[wjob[w]] \in Settled /\ wjob[w] \in submitted
        /\ UNCHANGED <<submitted, claims, sub, clean, queued>>
    BY <1>33 DEF FailExhausted
  <2>2. status' \in {status, [status EXCEPT ![wjob[w]] = "failed"]}
    BY <1>33 DEF FailExhausted, SetStatus, KeepStatus
  <2>. QED BY <2>1, <2>2
<1>34. ASSUME NEW w \in Workers, Reread(w) PROVE Places'
  BY <1>34 DEF Reread, WorkGoes, Fault, NoFault
<1>35. ASSUME NEW w \in Workers, ReleaseTerminal(w) PROVE Places'
  BY <1>35 DEF ReleaseTerminal, ReleaseOk, ReleaseFails, ReleaseTx, CanRelease, Claim, WorkGoes, Fault, NoFault
<1>36. ASSUME NEW w \in Workers, Ack(w) PROVE Places'
  BY <1>36 DEF Ack, WorkGoes, Fault, NoFault
<1>37. ASSUME NEW w \in Workers, WorkerStops(w) PROVE Places'
  BY <1>37 DEF WorkerStops, WorkGoes, Fault, NoFault
<1>38. ASSUME UNCHANGED vars PROVE Places'
  BY <1>38 DEF vars
<1>. HIDE DEF TypeOK, Places, Working, Lost, Terminal, Unsubmitted, Going, Settled, SettlePcs, Cleaners, jobVars, moneyVars, procVars, workVars, extVars, histVars
<1>. QED BY <1>1, <1>2, <1>3, <1>4, <1>5, <1>6, <1>7, <1>8, <1>9,
           <1>10, <1>11, <1>12, <1>13, <1>14, <1>15, <1>16, <1>17, <1>18,
           <1>19, <1>20, <1>21, <1>22, <1>23, <1>24, <1>25, <1>26, <1>27,
           <1>28, <1>29, <1>30, <1>31, <1>32, <1>33, <1>34, <1>35, <1>36,
           <1>37, <1>38
         DEF Next, SubmitNext, CleanNext, WorkNext

\* A worker's step leaves every worker with a job it may have.
LEMMA WorkingStep ==
  ASSUME TypeOK, Places, Working, [Next]_vars
  PROVE  Working'
<1>. USE BatchAssumption
<1>. USE DEF TypeOK, Places, Working, Captured, Going, Settled, SettlePcs, EarlyPcs, Cleaners, Lost, Terminal, Unsubmitted, jobVars, moneyVars, procVars, workVars, extVars, histVars
<1>1. ASSUME NEW i \in Jobs, Create(i) PROVE Working'
  BY <1>1 DEF Create, SubGoes, SetStatus, KeepStatus, Fault, NoFault
<1>2. ASSUME NEW i \in Jobs, Reserve(i) PROVE Working'
  BY <1>2 DEF Reserve, ReserveTx, Claim, SubGoes, Fault, NoFault
<1>3. ASSUME NEW i \in Jobs, CreateItems(i) PROVE Working'
  BY <1>3 DEF CreateItems, SubGoes, Fault, NoFault
<1>4. ASSUME NEW i \in Jobs, StartUpload(i) PROVE Working'
  BY <1>4 DEF StartUpload, SubGoes, SetStatus, KeepStatus, CanTransition, Fault, NoFault
<1>5. ASSUME NEW i \in Jobs, ProviderSubmit(i) PROVE Working'
  BY <1>5 DEF ProviderSubmit, SubGoes, Fault, NoFault
<1>6. ASSUME NEW i \in Jobs, TouchSubmitting(i) PROVE Working'
  BY <1>6 DEF TouchSubmitting, Fault, NoFault
<1>7. ASSUME NEW i \in Jobs, RecordSubmit(i) PROVE Working'
  BY <1>7 DEF RecordSubmit, CancelAtProvider, SubGoes, SetStatus, KeepStatus, CanTransition, Fault, NoFault
<1>8. ASSUME NEW i \in Jobs, SubEnqueue(i) PROVE Working'
  BY <1>8 DEF SubEnqueue, EnqueueFails, SubGoes, Fault, NoFault
<1>9. ASSUME NEW i \in Jobs, SubRelease(i) PROVE Working'
  BY <1>9 DEF SubRelease, ReleaseOk, ReleaseFails, ReleaseTx, CanRelease, Claim, SubGoes, Fault, NoFault
<1>10. ASSUME NEW i \in Jobs, GiveUp(i) PROVE Working'
  BY <1>10 DEF GiveUp, SubGoes, SetStatus, KeepStatus, Fault, NoFault
<1>11. ASSUME NEW i \in Jobs, MarkFailed(i) PROVE Working'
  BY <1>11 DEF MarkFailed, SubGoes, SetStatus, KeepStatus, Fault, NoFault
<1>12. ASSUME NEW i \in Jobs, SubStops(i) PROVE Working'
  BY <1>12 DEF SubStops, SubGoes, Fault, NoFault
<1>13. ASSUME NEW i \in Jobs, Resubmit(i) PROVE Working'
  BY <1>13 DEF Resubmit, EnqueueFails, Fault, NoFault
<1>14. ASSUME NEW i \in Jobs, Age(i) PROVE Working'
  BY <1>14 DEF Age, Fault, NoFault
<1>15. ASSUME NEW i \in Jobs, CancelRead(i) PROVE Working'
  BY <1>15 DEF CancelRead, CancelAtProvider, CleanGoes, Fault, NoFault
<1>16. ASSUME NEW i \in Jobs, CancelTransition(i) PROVE Working'
  BY <1>16 DEF CancelTransition, CleanGoes, SetStatus, KeepStatus, CanTransition, Fault, NoFault
<1>17. ASSUME NEW i \in Jobs, CancelEnqueue(i) PROVE Working'
  BY <1>17 DEF CancelEnqueue, CleanGoes, Fault, NoFault
<1>18. ASSUME NEW i \in Jobs, RecoverFail(i) PROVE Working'
  BY <1>18 DEF RecoverFail, CleanGoes, SetStatus, KeepStatus, Fault, NoFault
<1>19. ASSUME NEW i \in Jobs, ProvFinish(i) PROVE Working'
  BY <1>19 DEF ProvFinish, Fault, NoFault
<1>20. ASSUME NEW i \in Jobs, NEW c \in Cleaners, CleanRelease(c, i) PROVE Working'
  BY <1>20 DEF CleanRelease, ReleaseOk, ReleaseFails, ReleaseTx, CanRelease, Claim, CleanGoes, Fault, NoFault
<1>21. ASSUME NEW i \in Jobs, NEW c \in Cleaners, CleanRetry(c, i) PROVE Working'
  BY <1>21 DEF CleanRetry, CleanGoes, Fault, NoFault
<1>22. ASSUME NEW i \in Jobs, NEW c \in Cleaners, CleanStops(c, i) PROVE Working'
  BY <1>22 DEF CleanStops, CleanGoes, Fault, NoFault
<1>23. ASSUME NEW w \in Workers, NEW i \in Jobs, Take(w, i) PROVE Working'
  BY <1>23 DEF Take, Fault, NoFault
<1>24. ASSUME NEW w \in Workers, Process(w) PROVE Working'
  BY <1>24 DEF Process, WorkGoes, Fault, NoFault
<1>25. ASSUME NEW w \in Workers, Poll(w) PROVE Working'
  BY <1>25 DEF Poll, WorkGoes, Fault, NoFault
<1>26. ASSUME NEW w \in Workers, WorkTransition(w) PROVE Working'
  BY <1>26, SMTT(30) DEF WorkTransition, WorkGoes, Lost, SetStatus, KeepStatus, CanTransition, Fault, NoFault
<1>27. ASSUME NEW w \in Workers, Index(w) PROVE Working'
  BY <1>27 DEF Index, WorkGoes, Fault, NoFault
<1>28. ASSUME NEW w \in Workers, Settle(w) PROVE Working'
  <2>1. /\ wpc[w] = "settle" /\ wjob[w] \in Jobs
        /\ UNCHANGED <<status, submitted, retries, moneyVars, cost, overlap>>
    BY <1>28 DEF Settle
  <2>2. retries[wjob[w]] >= MaxRetries => retries[wjob[w]] = MaxRetries
    BY <2>1, AtLimit
  <2>3. PICK to \in {"ack", "idle", "exhausted", "note", "capture"} :
          /\ WorkGoes(w, to)
          /\ to \in {"exhausted", "note", "capture"} => status[wjob[w]] = "settling"
          /\ to = "exhausted" => retries[wjob[w]] >= MaxRetries
          /\ to = "capture" => ~(cost[wjob[w]] > Hold[wjob[w]])
    BY <1>28 DEF Settle, Exhausted
  <2>4. cost[wjob[w]] \in Nat /\ Hold[wjob[w]] \in Nat
    BY <2>1
  <2>5. to = "capture" => cost[wjob[w]] <= Hold[wjob[w]]
    BY <2>3, <2>4
  <2>. QED BY <2>1, <2>2, <2>3, <2>5 DEF WorkGoes
<1>29. ASSUME NEW w \in Workers, Capture(w) PROVE Working'
  BY <1>29 DEF Capture, CaptureTx, CanCapture, Claim, WorkGoes, Fault, NoFault
<1>30. ASSUME NEW w \in Workers, Mark(w) PROVE Working'
  BY <1>30 DEF Mark, WorkGoes, SetStatus, KeepStatus, Fault, NoFault
<1>31. ASSUME NEW w \in Workers, Note(w) PROVE Working'
  <2>1. /\ wpc[w] = "note" /\ wjob[w] \in Jobs
        /\ UNCHANGED <<status, submitted, moneyVars, cost, overlap>>
    BY <1>31 DEF Note
  <2>2. \A k \in Jobs : retries[k] = MaxRetries => retries'[k] = MaxRetries
    BY <1>31 DEF Note, CountFailure, CountNothing
  <2>3. PICK to \in {"idle", "reread", "exhausted"} :
          WorkGoes(w, to) /\ (to = "exhausted" => CountFailure(wjob[w]) /\ retries'[wjob[w]] >= MaxRetries)
    BY <1>31 DEF Note
  <2>4. ASSUME CountFailure(wjob[w]) PROVE retries'[wjob[w]] \in 0..MaxRetries
    BY <2>1, <2>4 DEF CountFailure
  <2>5. ASSUME to = "exhausted" PROVE retries'[wjob[w]] = MaxRetries
    <3>1. retries'[wjob[w]] >= MaxRetries
      BY <2>3, <2>5
    <3>2. retries'[wjob[w]] \in 0..MaxRetries
      BY <2>3, <2>4, <2>5
    <3>. QED BY <3>1, <3>2, AtLimit
  <2>. QED BY <2>1, <2>2, <2>3, <2>5 DEF WorkGoes
<1>32. ASSUME NEW w \in Workers, ExhaustRelease(w) PROVE Working'
  BY <1>32 DEF ExhaustRelease, ReleaseOk, ReleaseFails, ReleaseTx, CanRelease, Claim, CountFailure, CountNothing, WorkGoes, Fault, NoFault
<1>33. ASSUME NEW w \in Workers, FailExhausted(w) PROVE Working'
  BY <1>33 DEF FailExhausted, WorkGoes, SetStatus, KeepStatus, CanTransition, Fault, NoFault
<1>34. ASSUME NEW w \in Workers, Reread(w) PROVE Working'
  BY <1>34 DEF Reread, WorkGoes, Fault, NoFault
<1>35. ASSUME NEW w \in Workers, ReleaseTerminal(w) PROVE Working'
  BY <1>35 DEF ReleaseTerminal, ReleaseOk, ReleaseFails, ReleaseTx, CanRelease, Claim, WorkGoes, Fault, NoFault
<1>36. ASSUME NEW w \in Workers, Ack(w) PROVE Working'
  BY <1>36 DEF Ack, WorkGoes, Fault, NoFault
<1>37. ASSUME NEW w \in Workers, WorkerStops(w) PROVE Working'
  BY <1>37 DEF WorkerStops, WorkGoes, Fault, NoFault
<1>38. ASSUME UNCHANGED vars PROVE Working'
  BY <1>38 DEF vars
<1>. HIDE DEF TypeOK, Places, Working, Captured, Going, Settled, SettlePcs, EarlyPcs, Cleaners, Lost, Terminal, Unsubmitted, jobVars, moneyVars, procVars, workVars, extVars, histVars
<1>. QED BY <1>1, <1>2, <1>3, <1>4, <1>5, <1>6, <1>7, <1>8, <1>9,
           <1>10, <1>11, <1>12, <1>13, <1>14, <1>15, <1>16, <1>17, <1>18,
           <1>19, <1>20, <1>21, <1>22, <1>23, <1>24, <1>25, <1>26, <1>27,
           <1>28, <1>29, <1>30, <1>31, <1>32, <1>33, <1>34, <1>35, <1>36,
           <1>37, <1>38
         DEF Next, SubmitNext, CleanNext, WorkNext

\* Nothing happens behind the back of a worker that has its job alone.
LEMMA AloneStep ==
  ASSUME TypeOK, Places, Working, Alone, [Next]_vars
  PROVE  Alone'
<1>. USE BatchAssumption
<1>. USE DEF TypeOK, Places, Working, Alone, Going, Settled, SettlePcs, EarlyPcs, Cleaners, Lost, Terminal, Unsubmitted, jobVars, moneyVars, procVars, workVars, extVars, histVars
<1>1. ASSUME NEW i \in Jobs, Create(i) PROVE Alone'
  BY <1>1 DEF Create, SubGoes, SetStatus, KeepStatus, Fault, NoFault
<1>2. ASSUME NEW i \in Jobs, Reserve(i) PROVE Alone'
  BY <1>2 DEF Reserve, ReserveTx, Claim, SubGoes, Fault, NoFault
<1>3. ASSUME NEW i \in Jobs, CreateItems(i) PROVE Alone'
  BY <1>3 DEF CreateItems, SubGoes, Fault, NoFault
<1>4. ASSUME NEW i \in Jobs, StartUpload(i) PROVE Alone'
  BY <1>4 DEF StartUpload, SubGoes, SetStatus, KeepStatus, CanTransition, Fault, NoFault
<1>5. ASSUME NEW i \in Jobs, ProviderSubmit(i) PROVE Alone'
  BY <1>5 DEF ProviderSubmit, SubGoes, Fault, NoFault
<1>6. ASSUME NEW i \in Jobs, TouchSubmitting(i) PROVE Alone'
  BY <1>6 DEF TouchSubmitting, Fault, NoFault
<1>7. ASSUME NEW i \in Jobs, RecordSubmit(i) PROVE Alone'
  BY <1>7 DEF RecordSubmit, CancelAtProvider, SubGoes, SetStatus, KeepStatus, CanTransition, Fault, NoFault
<1>8. ASSUME NEW i \in Jobs, SubEnqueue(i) PROVE Alone'
  BY <1>8 DEF SubEnqueue, EnqueueFails, SubGoes, Fault, NoFault
<1>9. ASSUME NEW i \in Jobs, SubRelease(i) PROVE Alone'
  BY <1>9 DEF SubRelease, ReleaseOk, ReleaseFails, ReleaseTx, CanRelease, Claim, SubGoes, Fault, NoFault
<1>10. ASSUME NEW i \in Jobs, GiveUp(i) PROVE Alone'
  <2>1. status[i] \notin Going
    BY <1>10 DEF GiveUp, CanTransition
  <2>2. \A k \in Jobs : status'[k] # status[k] => k = i /\ status'[i] \in Lost /\ status[i] # "completed"
    BY <1>10 DEF GiveUp, SubGoes, SetStatus, KeepStatus, Fault, NoFault
  <2>3. UNCHANGED <<workVars, claims, overlap>> /\ queued \subseteq queued'
    BY <1>10 DEF GiveUp
  <2>. QED BY <2>1, <2>2, <2>3
<1>11. ASSUME NEW i \in Jobs, MarkFailed(i) PROVE Alone'
  <2>1. status[i] \notin Going
    BY <1>11 DEF MarkFailed, CanTransition
  <2>2. \A k \in Jobs : status'[k] # status[k] => k = i /\ status'[i] \in Lost /\ status[i] # "completed"
    BY <1>11 DEF MarkFailed, SubGoes, SetStatus, KeepStatus, Fault, NoFault
  <2>3. UNCHANGED <<workVars, claims, overlap>> /\ queued \subseteq queued'
    BY <1>11 DEF MarkFailed
  <2>. QED BY <2>1, <2>2, <2>3
<1>12. ASSUME NEW i \in Jobs, SubStops(i) PROVE Alone'
  BY <1>12 DEF SubStops, SubGoes, Fault, NoFault
<1>13. ASSUME NEW i \in Jobs, Resubmit(i) PROVE Alone'
  BY <1>13 DEF Resubmit, EnqueueFails, Fault, NoFault
<1>14. ASSUME NEW i \in Jobs, Age(i) PROVE Alone'
  BY <1>14 DEF Age, Fault, NoFault
<1>15. ASSUME NEW i \in Jobs, CancelRead(i) PROVE Alone'
  BY <1>15 DEF CancelRead, CancelAtProvider, CleanGoes, Fault, NoFault
<1>16. ASSUME NEW i \in Jobs, CancelTransition(i) PROVE Alone'
  <2>1. \A k \in Jobs : status'[k] # status[k] =>
          status'[k] \in Lost /\ status[k] \in Unsubmitted \cup {"submitted", "running"}
    BY <1>16 DEF CancelTransition, CleanGoes, SetStatus, KeepStatus, CanTransition, Fault, NoFault
  <2>3. UNCHANGED <<workVars, claims, overlap, queued>>
    BY <1>16 DEF CancelTransition
  <2>. QED BY <2>1, <2>3
<1>17. ASSUME NEW i \in Jobs, CancelEnqueue(i) PROVE Alone'
  BY <1>17 DEF CancelEnqueue, CleanGoes, Fault, NoFault
<1>18. ASSUME NEW i \in Jobs, RecoverFail(i) PROVE Alone'
  <2>1. status[i] \notin Going
    BY <1>18 DEF RecoverFail, CanTransition
  <2>2. \A k \in Jobs : status'[k] # status[k] => k = i /\ status'[i] \in Lost /\ status[i] # "completed"
    BY <1>18 DEF RecoverFail, CleanGoes, SetStatus, KeepStatus, Fault, NoFault
  <2>3. UNCHANGED <<workVars, claims, overlap>> /\ queued \subseteq queued'
    BY <1>18 DEF RecoverFail
  <2>. QED BY <2>1, <2>2, <2>3
<1>19. ASSUME NEW i \in Jobs, ProvFinish(i) PROVE Alone'
  BY <1>19 DEF ProvFinish, Fault, NoFault
<1>20. ASSUME NEW i \in Jobs, NEW c \in Cleaners, CleanRelease(c, i) PROVE Alone'
  BY <1>20 DEF CleanRelease, ReleaseOk, ReleaseFails, ReleaseTx, CanRelease, Claim, CleanGoes, Fault, NoFault
<1>21. ASSUME NEW i \in Jobs, NEW c \in Cleaners, CleanRetry(c, i) PROVE Alone'
  BY <1>21 DEF CleanRetry, CleanGoes, Fault, NoFault
<1>22. ASSUME NEW i \in Jobs, NEW c \in Cleaners, CleanStops(c, i) PROVE Alone'
  BY <1>22 DEF CleanStops, CleanGoes, Fault, NoFault
<1>23. ASSUME NEW w \in Workers, NEW i \in Jobs, Take(w, i) PROVE Alone'
  BY <1>23 DEF Take, Fault, NoFault
<1>24. ASSUME NEW w \in Workers, Process(w) PROVE Alone'
  BY <1>24 DEF Process, WorkGoes, Fault, NoFault
<1>25. ASSUME NEW w \in Workers, Poll(w) PROVE Alone'
  BY <1>25 DEF Poll, WorkGoes, Fault, NoFault
<1>26. ASSUME NEW w \in Workers, WorkTransition(w) PROVE Alone'
  BY <1>26 DEF WorkTransition, WorkGoes, Lost, SetStatus, KeepStatus, CanTransition, Fault, NoFault
<1>27. ASSUME NEW w \in Workers, Index(w) PROVE Alone'
  BY <1>27 DEF Index, WorkGoes, Fault, NoFault
<1>28. ASSUME NEW w \in Workers, Settle(w) PROVE Alone'
  BY <1>28 DEF Settle, Exhausted, WorkGoes, Fault, NoFault
<1>29. ASSUME NEW w \in Workers, Capture(w) PROVE Alone'
  BY <1>29 DEF Capture, CaptureTx, CanCapture, Claim, WorkGoes, Fault, NoFault
<1>30. ASSUME NEW w \in Workers, Mark(w) PROVE Alone'
  BY <1>30 DEF Mark, WorkGoes, SetStatus, KeepStatus, Fault, NoFault
<1>31. ASSUME NEW w \in Workers, Note(w) PROVE Alone'
  BY <1>31 DEF Note, CountFailure, CountNothing, WorkGoes, Fault, NoFault
<1>32. ASSUME NEW w \in Workers, ExhaustRelease(w) PROVE Alone'
  BY <1>32 DEF ExhaustRelease, ReleaseOk, ReleaseFails, ReleaseTx, CanRelease, Claim, CountFailure, CountNothing, WorkGoes, Fault, NoFault
<1>33. ASSUME NEW w \in Workers, FailExhausted(w) PROVE Alone'
  BY <1>33 DEF FailExhausted, WorkGoes, SetStatus, KeepStatus, CanTransition, Fault, NoFault
<1>34. ASSUME NEW w \in Workers, Reread(w) PROVE Alone'
  BY <1>34 DEF Reread, WorkGoes, Fault, NoFault
<1>35. ASSUME NEW w \in Workers, ReleaseTerminal(w) PROVE Alone'
  BY <1>35 DEF ReleaseTerminal, ReleaseOk, ReleaseFails, ReleaseTx, CanRelease, Claim, WorkGoes, Fault, NoFault
<1>36. ASSUME NEW w \in Workers, Ack(w) PROVE Alone'
  BY <1>36 DEF Ack, WorkGoes, Fault, NoFault
<1>37. ASSUME NEW w \in Workers, WorkerStops(w) PROVE Alone'
  BY <1>37 DEF WorkerStops, WorkGoes, Fault, NoFault
<1>38. ASSUME UNCHANGED vars PROVE Alone'
  BY <1>38 DEF vars
<1>. HIDE DEF TypeOK, Places, Working, Alone, Going, Settled, SettlePcs, EarlyPcs, Cleaners, Lost, Terminal, Unsubmitted, jobVars, moneyVars, procVars, workVars, extVars, histVars
<1>. QED BY <1>1, <1>2, <1>3, <1>4, <1>5, <1>6, <1>7, <1>8, <1>9,
           <1>10, <1>11, <1>12, <1>13, <1>14, <1>15, <1>16, <1>17, <1>18,
           <1>19, <1>20, <1>21, <1>22, <1>23, <1>24, <1>25, <1>26, <1>27,
           <1>28, <1>29, <1>30, <1>31, <1>32, <1>33, <1>34, <1>35, <1>36,
           <1>37, <1>38
         DEF Next, SubmitNext, CleanNext, WorkNext

\* A hold is claimed before the provider works, and captured or released after.
LEMMA BookedStep ==
  ASSUME TypeOK, Places, Working, Booked, [Next]_vars
  PROVE  Booked'
<1>. USE BatchAssumption
<1>. USE DEF TypeOK, Places, Working, Booked, Held, Captured, Going, Settled, SettlePcs, EarlyPcs, Cleaners, Lost, Terminal, Unsubmitted, jobVars, moneyVars, procVars, workVars, extVars, histVars
<1>1. ASSUME NEW i \in Jobs, Create(i) PROVE Booked'
  BY <1>1 DEF Create, SubGoes, SetStatus, KeepStatus, Fault, NoFault
<1>2. ASSUME NEW i \in Jobs, Reserve(i) PROVE Booked'
  BY <1>2 DEF Reserve, ReserveTx, Claim, SubGoes, Fault, NoFault
<1>3. ASSUME NEW i \in Jobs, CreateItems(i) PROVE Booked'
  BY <1>3 DEF CreateItems, SubGoes, Fault, NoFault
<1>4. ASSUME NEW i \in Jobs, StartUpload(i) PROVE Booked'
  BY <1>4 DEF StartUpload, SubGoes, SetStatus, KeepStatus, CanTransition, Fault, NoFault
<1>5. ASSUME NEW i \in Jobs, ProviderSubmit(i) PROVE Booked'
  BY <1>5 DEF ProviderSubmit, SubGoes, Fault, NoFault
<1>6. ASSUME NEW i \in Jobs, TouchSubmitting(i) PROVE Booked'
  BY <1>6 DEF TouchSubmitting, Fault, NoFault
<1>7. ASSUME NEW i \in Jobs, RecordSubmit(i) PROVE Booked'
  BY <1>7 DEF RecordSubmit, CancelAtProvider, SubGoes, SetStatus, KeepStatus, CanTransition, Fault, NoFault
<1>8. ASSUME NEW i \in Jobs, SubEnqueue(i) PROVE Booked'
  BY <1>8 DEF SubEnqueue, EnqueueFails, SubGoes, Fault, NoFault
<1>9. ASSUME NEW i \in Jobs, SubRelease(i) PROVE Booked'
  BY <1>9 DEF SubRelease, ReleaseOk, ReleaseFails, ReleaseTx, CanRelease, Claim, SubGoes, Fault, NoFault
<1>10. ASSUME NEW i \in Jobs, GiveUp(i) PROVE Booked'
  BY <1>10 DEF GiveUp, SubGoes, SetStatus, KeepStatus, Fault, NoFault
<1>11. ASSUME NEW i \in Jobs, MarkFailed(i) PROVE Booked'
  BY <1>11 DEF MarkFailed, SubGoes, SetStatus, KeepStatus, Fault, NoFault
<1>12. ASSUME NEW i \in Jobs, SubStops(i) PROVE Booked'
  BY <1>12 DEF SubStops, SubGoes, Fault, NoFault
<1>13. ASSUME NEW i \in Jobs, Resubmit(i) PROVE Booked'
  BY <1>13 DEF Resubmit, EnqueueFails, Fault, NoFault
<1>14. ASSUME NEW i \in Jobs, Age(i) PROVE Booked'
  BY <1>14 DEF Age, Fault, NoFault
<1>15. ASSUME NEW i \in Jobs, CancelRead(i) PROVE Booked'
  BY <1>15 DEF CancelRead, CancelAtProvider, CleanGoes, Fault, NoFault
<1>16. ASSUME NEW i \in Jobs, CancelTransition(i) PROVE Booked'
  BY <1>16 DEF CancelTransition, CleanGoes, SetStatus, KeepStatus, CanTransition, Fault, NoFault
<1>17. ASSUME NEW i \in Jobs, CancelEnqueue(i) PROVE Booked'
  BY <1>17 DEF CancelEnqueue, CleanGoes, Fault, NoFault
<1>18. ASSUME NEW i \in Jobs, RecoverFail(i) PROVE Booked'
  BY <1>18 DEF RecoverFail, CleanGoes, SetStatus, KeepStatus, Fault, NoFault
<1>19. ASSUME NEW i \in Jobs, ProvFinish(i) PROVE Booked'
  BY <1>19 DEF ProvFinish, Fault, NoFault
<1>20. ASSUME NEW i \in Jobs, NEW c \in Cleaners, CleanRelease(c, i) PROVE Booked'
  BY <1>20 DEF CleanRelease, ReleaseOk, ReleaseFails, ReleaseTx, CanRelease, Claim, CleanGoes, Fault, NoFault
<1>21. ASSUME NEW i \in Jobs, NEW c \in Cleaners, CleanRetry(c, i) PROVE Booked'
  BY <1>21 DEF CleanRetry, CleanGoes, Fault, NoFault
<1>22. ASSUME NEW i \in Jobs, NEW c \in Cleaners, CleanStops(c, i) PROVE Booked'
  BY <1>22 DEF CleanStops, CleanGoes, Fault, NoFault
<1>23. ASSUME NEW w \in Workers, NEW i \in Jobs, Take(w, i) PROVE Booked'
  BY <1>23 DEF Take, Fault, NoFault
<1>24. ASSUME NEW w \in Workers, Process(w) PROVE Booked'
  BY <1>24 DEF Process, WorkGoes, Fault, NoFault
<1>25. ASSUME NEW w \in Workers, Poll(w) PROVE Booked'
  BY <1>25 DEF Poll, WorkGoes, Fault, NoFault
<1>26. ASSUME NEW w \in Workers, WorkTransition(w) PROVE Booked'
  BY <1>26 DEF WorkTransition, WorkGoes, Lost, SetStatus, KeepStatus, CanTransition, Fault, NoFault
<1>27. ASSUME NEW w \in Workers, Index(w) PROVE Booked'
  BY <1>27 DEF Index, WorkGoes, Fault, NoFault
<1>28. ASSUME NEW w \in Workers, Settle(w) PROVE Booked'
  BY <1>28 DEF Settle, Exhausted, WorkGoes, Fault, NoFault
<1>29. ASSUME NEW w \in Workers, Capture(w) PROVE Booked'
  BY <1>29 DEF Capture, CaptureTx, CanCapture, Claim, WorkGoes, Fault, NoFault
<1>30. ASSUME NEW w \in Workers, Mark(w) PROVE Booked'
  BY <1>30 DEF Mark, WorkGoes, SetStatus, KeepStatus, Fault, NoFault
<1>31. ASSUME NEW w \in Workers, Note(w) PROVE Booked'
  BY <1>31 DEF Note, CountFailure, CountNothing, WorkGoes, Fault, NoFault
<1>32. ASSUME NEW w \in Workers, ExhaustRelease(w) PROVE Booked'
  BY <1>32 DEF ExhaustRelease, ReleaseOk, ReleaseFails, ReleaseTx, CanRelease, Claim, CountFailure, CountNothing, WorkGoes, Fault, NoFault
<1>33. ASSUME NEW w \in Workers, FailExhausted(w) PROVE Booked'
  BY <1>33 DEF FailExhausted, WorkGoes, SetStatus, KeepStatus, CanTransition, Fault, NoFault
<1>34. ASSUME NEW w \in Workers, Reread(w) PROVE Booked'
  BY <1>34 DEF Reread, WorkGoes, Fault, NoFault
<1>35. ASSUME NEW w \in Workers, ReleaseTerminal(w) PROVE Booked'
  BY <1>35 DEF ReleaseTerminal, ReleaseOk, ReleaseFails, ReleaseTx, CanRelease, Claim, WorkGoes, Fault, NoFault
<1>36. ASSUME NEW w \in Workers, Ack(w) PROVE Booked'
  BY <1>36 DEF Ack, WorkGoes, Fault, NoFault
<1>37. ASSUME NEW w \in Workers, WorkerStops(w) PROVE Booked'
  BY <1>37 DEF WorkerStops, WorkGoes, Fault, NoFault
<1>38. ASSUME UNCHANGED vars PROVE Booked'
  BY <1>38 DEF vars
<1>. HIDE DEF TypeOK, Places, Working, Booked, Held, Captured, Going, Settled, SettlePcs, EarlyPcs, Cleaners, Lost, Terminal, Unsubmitted, jobVars, moneyVars, procVars, workVars, extVars, histVars
<1>. QED BY <1>1, <1>2, <1>3, <1>4, <1>5, <1>6, <1>7, <1>8, <1>9,
           <1>10, <1>11, <1>12, <1>13, <1>14, <1>15, <1>16, <1>17, <1>18,
           <1>19, <1>20, <1>21, <1>22, <1>23, <1>24, <1>25, <1>26, <1>27,
           <1>28, <1>29, <1>30, <1>31, <1>32, <1>33, <1>34, <1>35, <1>36,
           <1>37, <1>38
         DEF Next, SubmitNext, CleanNext, WorkNext

\* The last retry is counted before the hold is given back.
LEMMA CountedStep ==
  ASSUME TypeOK, Places, Working, Alone, Booked, Counted, [Next]_vars
  PROVE  Counted'
<1>. USE BatchAssumption
<1>. USE DEF TypeOK, Places, Working, Alone, Booked, Counted, Disturbed, Captured, Released, Held, Lost, Terminal, Unsubmitted, Going, Settled, SettlePcs, EarlyPcs, Cleaners, jobVars, moneyVars, procVars, workVars, extVars, histVars
<1>1. ASSUME NEW i \in Jobs, Create(i) PROVE Counted'
  BY <1>1 DEF Create, SubGoes, SetStatus, KeepStatus, Fault, NoFault
<1>2. ASSUME NEW i \in Jobs, Reserve(i) PROVE Counted'
  BY <1>2 DEF Reserve, ReserveTx, Claim, SubGoes, Fault, NoFault
<1>3. ASSUME NEW i \in Jobs, CreateItems(i) PROVE Counted'
  BY <1>3 DEF CreateItems, SubGoes, Fault, NoFault
<1>4. ASSUME NEW i \in Jobs, StartUpload(i) PROVE Counted'
  BY <1>4 DEF StartUpload, SubGoes, SetStatus, KeepStatus, CanTransition, Fault, NoFault
<1>5. ASSUME NEW i \in Jobs, ProviderSubmit(i) PROVE Counted'
  BY <1>5 DEF ProviderSubmit, SubGoes, Fault, NoFault
<1>6. ASSUME NEW i \in Jobs, TouchSubmitting(i) PROVE Counted'
  BY <1>6 DEF TouchSubmitting, Fault, NoFault
<1>7. ASSUME NEW i \in Jobs, RecordSubmit(i) PROVE Counted'
  BY <1>7 DEF RecordSubmit, CancelAtProvider, SubGoes, SetStatus, KeepStatus, CanTransition, Fault, NoFault
<1>8. ASSUME NEW i \in Jobs, SubEnqueue(i) PROVE Counted'
  BY <1>8 DEF SubEnqueue, EnqueueFails, SubGoes, Fault, NoFault
<1>9. ASSUME NEW i \in Jobs, SubRelease(i) PROVE Counted'
  BY <1>9 DEF SubRelease, ReleaseOk, ReleaseFails, ReleaseTx, CanRelease, Claim, SubGoes, Fault, NoFault
<1>10. ASSUME NEW i \in Jobs, GiveUp(i) PROVE Counted'
  BY <1>10 DEF GiveUp, SubGoes, SetStatus, KeepStatus, Fault, NoFault
<1>11. ASSUME NEW i \in Jobs, MarkFailed(i) PROVE Counted'
  BY <1>11 DEF MarkFailed, SubGoes, SetStatus, KeepStatus, Fault, NoFault
<1>12. ASSUME NEW i \in Jobs, SubStops(i) PROVE Counted'
  BY <1>12 DEF SubStops, SubGoes, Fault, NoFault
<1>13. ASSUME NEW i \in Jobs, Resubmit(i) PROVE Counted'
  BY <1>13 DEF Resubmit, EnqueueFails, Fault, NoFault
<1>14. ASSUME NEW i \in Jobs, Age(i) PROVE Counted'
  BY <1>14 DEF Age, Fault, NoFault
<1>15. ASSUME NEW i \in Jobs, CancelRead(i) PROVE Counted'
  BY <1>15 DEF CancelRead, CancelAtProvider, CleanGoes, Fault, NoFault
<1>16. ASSUME NEW i \in Jobs, CancelTransition(i) PROVE Counted'
  BY <1>16 DEF CancelTransition, CleanGoes, SetStatus, KeepStatus, CanTransition, Fault, NoFault
<1>17. ASSUME NEW i \in Jobs, CancelEnqueue(i) PROVE Counted'
  BY <1>17 DEF CancelEnqueue, CleanGoes, Fault, NoFault
<1>18. ASSUME NEW i \in Jobs, RecoverFail(i) PROVE Counted'
  BY <1>18 DEF RecoverFail, CleanGoes, SetStatus, KeepStatus, Fault, NoFault
<1>19. ASSUME NEW i \in Jobs, ProvFinish(i) PROVE Counted'
  BY <1>19 DEF ProvFinish, Fault, NoFault
<1>20. ASSUME NEW i \in Jobs, NEW c \in Cleaners, CleanRelease(c, i) PROVE Counted'
  BY <1>20 DEF CleanRelease, ReleaseOk, ReleaseFails, ReleaseTx, CanRelease, Claim, CleanGoes, Fault, NoFault
<1>21. ASSUME NEW i \in Jobs, NEW c \in Cleaners, CleanRetry(c, i) PROVE Counted'
  BY <1>21 DEF CleanRetry, CleanGoes, Fault, NoFault
<1>22. ASSUME NEW i \in Jobs, NEW c \in Cleaners, CleanStops(c, i) PROVE Counted'
  BY <1>22 DEF CleanStops, CleanGoes, Fault, NoFault
<1>23. ASSUME NEW w \in Workers, NEW i \in Jobs, Take(w, i) PROVE Counted'
  BY <1>23 DEF Take, Fault, NoFault
<1>24. ASSUME NEW w \in Workers, Process(w) PROVE Counted'
  BY <1>24 DEF Process, WorkGoes, Fault, NoFault
<1>25. ASSUME NEW w \in Workers, Poll(w) PROVE Counted'
  BY <1>25 DEF Poll, WorkGoes, Fault, NoFault
<1>26. ASSUME NEW w \in Workers, WorkTransition(w) PROVE Counted'
  BY <1>26 DEF WorkTransition, WorkGoes, Lost, SetStatus, KeepStatus, CanTransition, Fault, NoFault
<1>27. ASSUME NEW w \in Workers, Index(w) PROVE Counted'
  BY <1>27 DEF Index, WorkGoes, Fault, NoFault
<1>28. ASSUME NEW w \in Workers, Settle(w) PROVE Counted'
  <2>1. /\ wpc[w] = "settle" /\ wjob[w] \in Jobs
        /\ UNCHANGED <<status, retries, settleCode, claims, overlap, misjudged>>
    BY <1>28 DEF Settle
  <2>3. PICK to \in {"ack", "idle", "exhausted", "note", "capture"} :
          /\ WorkGoes(w, to)
          /\ to \in {"exhausted", "note", "capture"} => status[wjob[w]] = "settling"
          /\ to = "exhausted" => retries[wjob[w]] >= MaxRetries
          /\ to = "capture" => ~(retries[wjob[w]] >= MaxRetries /\ wjob[w] \in settleCode)
    BY <1>28 DEF Settle, Exhausted
  <2>4. retries[wjob[w]] \in 0..MaxRetries
    BY <2>1
  <2>5. ASSUME to = "capture", wjob[w] \notin Disturbed PROVE retries[wjob[w]] < MaxRetries
    <3>1. retries[wjob[w]] = MaxRetries => wjob[w] \in settleCode
      BY <2>1, <2>3, <2>5
    <3>2. retries[wjob[w]] # MaxRetries
      <4>1. ~(retries[wjob[w]] >= MaxRetries /\ wjob[w] \in settleCode)
        BY <2>3, <2>5
      <4>. QED BY <2>4, <3>1, <4>1
    <3>. QED BY <2>4, <3>2
  <2>6. to = "exhausted" /\ wjob[w] \notin Disturbed => ~Captured(wjob[w])
    BY <2>1, <2>3, <2>4, SMTT(30)
  <2>. QED BY <2>1, <2>3, <2>5, <2>6 DEF WorkGoes
<1>29. ASSUME NEW w \in Workers, Capture(w) PROVE Counted'
  BY <1>29 DEF Capture, CaptureTx, CanCapture, Claim, WorkGoes, Fault, NoFault
<1>30. ASSUME NEW w \in Workers, Mark(w) PROVE Counted'
  BY <1>30 DEF Mark, WorkGoes, SetStatus, KeepStatus, Fault, NoFault
<1>31. ASSUME NEW w \in Workers, Note(w) PROVE Counted'
  BY <1>31 DEF Note, CountFailure, CountNothing, WorkGoes, Fault, NoFault
<1>32. ASSUME NEW w \in Workers, ExhaustRelease(w) PROVE Counted'
  BY <1>32, SMTT(30) DEF ExhaustRelease, ReleaseOk, ReleaseFails, ReleaseTx, CanRelease, Claim, CountFailure, CountNothing, WorkGoes, Fault, NoFault
<1>33. ASSUME NEW w \in Workers, FailExhausted(w) PROVE Counted'
  BY <1>33 DEF FailExhausted, WorkGoes, SetStatus, KeepStatus, CanTransition, Fault, NoFault
<1>34. ASSUME NEW w \in Workers, Reread(w) PROVE Counted'
  BY <1>34 DEF Reread, WorkGoes, Fault, NoFault
<1>35. ASSUME NEW w \in Workers, ReleaseTerminal(w) PROVE Counted'
  BY <1>35, SMTT(30) DEF ReleaseTerminal, ReleaseOk, ReleaseFails, ReleaseTx, CanRelease, Claim, WorkGoes, Fault, NoFault
<1>36. ASSUME NEW w \in Workers, Ack(w) PROVE Counted'
  BY <1>36 DEF Ack, WorkGoes, Fault, NoFault
<1>37. ASSUME NEW w \in Workers, WorkerStops(w) PROVE Counted'
  BY <1>37 DEF WorkerStops, WorkGoes, Fault, NoFault
<1>38. ASSUME UNCHANGED vars PROVE Counted'
  BY <1>38 DEF vars
<1>. HIDE DEF TypeOK, Places, Working, Alone, Booked, Counted, Disturbed, Captured, Released, Held, Lost, Terminal, Unsubmitted, Going, Settled, SettlePcs, EarlyPcs, Cleaners, jobVars, moneyVars, procVars, workVars, extVars, histVars
<1>. QED BY <1>1, <1>2, <1>3, <1>4, <1>5, <1>6, <1>7, <1>8, <1>9,
           <1>10, <1>11, <1>12, <1>13, <1>14, <1>15, <1>16, <1>17, <1>18,
           <1>19, <1>20, <1>21, <1>22, <1>23, <1>24, <1>25, <1>26, <1>27,
           <1>28, <1>29, <1>30, <1>31, <1>32, <1>33, <1>34, <1>35, <1>36,
           <1>37, <1>38
         DEF Next, SubmitNext, CleanNext, WorkNext

\* No undisturbed job is captured and released, or lost although captured.
LEMMA OnceStep ==
  ASSUME TypeOK, Places, Working, Alone, Booked, Counted, SettledOnce, OutcomeMatches, [Next]_vars
  PROVE  SettledOnce' /\ OutcomeMatches'
<1>. USE BatchAssumption
<1>. USE DEF TypeOK, Places, Working, Alone, Booked, Counted, SettledOnce, OutcomeMatches, Disturbed, Captured, Released, Held, Lost, Terminal, Unsubmitted, Going, Settled, SettlePcs, EarlyPcs, Cleaners, jobVars, moneyVars, procVars, workVars, extVars, histVars
<1>1. ASSUME NEW i \in Jobs, Create(i) PROVE SettledOnce' /\ OutcomeMatches'
  BY <1>1 DEF Create, SubGoes, SetStatus, KeepStatus, Fault, NoFault
<1>2. ASSUME NEW i \in Jobs, Reserve(i) PROVE SettledOnce' /\ OutcomeMatches'
  BY <1>2 DEF Reserve, ReserveTx, Claim, SubGoes, Fault, NoFault
<1>3. ASSUME NEW i \in Jobs, CreateItems(i) PROVE SettledOnce' /\ OutcomeMatches'
  BY <1>3 DEF CreateItems, SubGoes, Fault, NoFault
<1>4. ASSUME NEW i \in Jobs, StartUpload(i) PROVE SettledOnce' /\ OutcomeMatches'
  BY <1>4 DEF StartUpload, SubGoes, SetStatus, KeepStatus, CanTransition, Fault, NoFault
<1>5. ASSUME NEW i \in Jobs, ProviderSubmit(i) PROVE SettledOnce' /\ OutcomeMatches'
  BY <1>5 DEF ProviderSubmit, SubGoes, Fault, NoFault
<1>6. ASSUME NEW i \in Jobs, TouchSubmitting(i) PROVE SettledOnce' /\ OutcomeMatches'
  BY <1>6 DEF TouchSubmitting, Fault, NoFault
<1>7. ASSUME NEW i \in Jobs, RecordSubmit(i) PROVE SettledOnce' /\ OutcomeMatches'
  BY <1>7 DEF RecordSubmit, CancelAtProvider, SubGoes, SetStatus, KeepStatus, CanTransition, Fault, NoFault
<1>8. ASSUME NEW i \in Jobs, SubEnqueue(i) PROVE SettledOnce' /\ OutcomeMatches'
  BY <1>8 DEF SubEnqueue, EnqueueFails, SubGoes, Fault, NoFault
<1>9. ASSUME NEW i \in Jobs, SubRelease(i) PROVE SettledOnce' /\ OutcomeMatches'
  BY <1>9, SMTT(30) DEF SubRelease, ReleaseOk, ReleaseFails, ReleaseTx, CanRelease, Claim, SubGoes, Fault, NoFault
<1>10. ASSUME NEW i \in Jobs, GiveUp(i) PROVE SettledOnce' /\ OutcomeMatches'
  BY <1>10 DEF GiveUp, SubGoes, SetStatus, KeepStatus, Fault, NoFault
<1>11. ASSUME NEW i \in Jobs, MarkFailed(i) PROVE SettledOnce' /\ OutcomeMatches'
  BY <1>11 DEF MarkFailed, SubGoes, SetStatus, KeepStatus, Fault, NoFault
<1>12. ASSUME NEW i \in Jobs, SubStops(i) PROVE SettledOnce' /\ OutcomeMatches'
  BY <1>12 DEF SubStops, SubGoes, Fault, NoFault
<1>13. ASSUME NEW i \in Jobs, Resubmit(i) PROVE SettledOnce' /\ OutcomeMatches'
  BY <1>13 DEF Resubmit, EnqueueFails, Fault, NoFault
<1>14. ASSUME NEW i \in Jobs, Age(i) PROVE SettledOnce' /\ OutcomeMatches'
  BY <1>14 DEF Age, Fault, NoFault
<1>15. ASSUME NEW i \in Jobs, CancelRead(i) PROVE SettledOnce' /\ OutcomeMatches'
  BY <1>15 DEF CancelRead, CancelAtProvider, CleanGoes, Fault, NoFault
<1>16. ASSUME NEW i \in Jobs, CancelTransition(i) PROVE SettledOnce' /\ OutcomeMatches'
  BY <1>16 DEF CancelTransition, CleanGoes, SetStatus, KeepStatus, CanTransition, Fault, NoFault
<1>17. ASSUME NEW i \in Jobs, CancelEnqueue(i) PROVE SettledOnce' /\ OutcomeMatches'
  BY <1>17 DEF CancelEnqueue, CleanGoes, Fault, NoFault
<1>18. ASSUME NEW i \in Jobs, RecoverFail(i) PROVE SettledOnce' /\ OutcomeMatches'
  BY <1>18 DEF RecoverFail, CleanGoes, SetStatus, KeepStatus, Fault, NoFault
<1>19. ASSUME NEW i \in Jobs, ProvFinish(i) PROVE SettledOnce' /\ OutcomeMatches'
  BY <1>19 DEF ProvFinish, Fault, NoFault
<1>20. ASSUME NEW i \in Jobs, NEW c \in Cleaners, CleanRelease(c, i) PROVE SettledOnce' /\ OutcomeMatches'
  BY <1>20, SMTT(30) DEF CleanRelease, ReleaseOk, ReleaseFails, ReleaseTx, CanRelease, Claim, CleanGoes, Fault, NoFault
<1>21. ASSUME NEW i \in Jobs, NEW c \in Cleaners, CleanRetry(c, i) PROVE SettledOnce' /\ OutcomeMatches'
  BY <1>21 DEF CleanRetry, CleanGoes, Fault, NoFault
<1>22. ASSUME NEW i \in Jobs, NEW c \in Cleaners, CleanStops(c, i) PROVE SettledOnce' /\ OutcomeMatches'
  BY <1>22 DEF CleanStops, CleanGoes, Fault, NoFault
<1>23. ASSUME NEW w \in Workers, NEW i \in Jobs, Take(w, i) PROVE SettledOnce' /\ OutcomeMatches'
  BY <1>23 DEF Take, Fault, NoFault
<1>24. ASSUME NEW w \in Workers, Process(w) PROVE SettledOnce' /\ OutcomeMatches'
  BY <1>24 DEF Process, WorkGoes, Fault, NoFault
<1>25. ASSUME NEW w \in Workers, Poll(w) PROVE SettledOnce' /\ OutcomeMatches'
  BY <1>25 DEF Poll, WorkGoes, Fault, NoFault
<1>26. ASSUME NEW w \in Workers, WorkTransition(w) PROVE SettledOnce' /\ OutcomeMatches'
  BY <1>26 DEF WorkTransition, WorkGoes, Lost, SetStatus, KeepStatus, CanTransition, Fault, NoFault
<1>27. ASSUME NEW w \in Workers, Index(w) PROVE SettledOnce' /\ OutcomeMatches'
  BY <1>27 DEF Index, WorkGoes, Fault, NoFault
<1>28. ASSUME NEW w \in Workers, Settle(w) PROVE SettledOnce' /\ OutcomeMatches'
  BY <1>28 DEF Settle, Exhausted, WorkGoes, Fault, NoFault
<1>29. ASSUME NEW w \in Workers, Capture(w) PROVE SettledOnce' /\ OutcomeMatches'
  <2>1. /\ wpc[w] = "capture" /\ wjob[w] \in Jobs
        /\ UNCHANGED <<status, overlap, misjudged, phantom>>
    BY <1>29 DEF Capture, CaptureTx
  <2>2. \A k \in Jobs : k # wjob[w] => claims'[k] = claims[k]
    BY <1>29 DEF Capture, CaptureTx, Claim
  <2>3. claims'[wjob[w]] \in {claims[wjob[w]], claims[wjob[w]] \cup {"capture"}}
    BY <1>29 DEF Capture, CaptureTx, Claim
  <2>4. wjob[w] \notin Disturbed => /\ status[wjob[w]] = "settling"
                                    /\ "release" \notin claims[wjob[w]]
    BY <2>1
  <2>. QED BY <2>1, <2>2, <2>3, <2>4
<1>30. ASSUME NEW w \in Workers, Mark(w) PROVE SettledOnce' /\ OutcomeMatches'
  BY <1>30 DEF Mark, WorkGoes, SetStatus, KeepStatus, Fault, NoFault
<1>31. ASSUME NEW w \in Workers, Note(w) PROVE SettledOnce' /\ OutcomeMatches'
  BY <1>31 DEF Note, CountFailure, CountNothing, WorkGoes, Fault, NoFault
<1>32. ASSUME NEW w \in Workers, ExhaustRelease(w) PROVE SettledOnce' /\ OutcomeMatches'
  BY <1>32, SMTT(30) DEF ExhaustRelease, ReleaseOk, ReleaseFails, ReleaseTx, CanRelease, Claim, CountFailure, CountNothing, WorkGoes, Fault, NoFault
<1>33. ASSUME NEW w \in Workers, FailExhausted(w) PROVE SettledOnce' /\ OutcomeMatches'
  BY <1>33 DEF FailExhausted, WorkGoes, SetStatus, KeepStatus, CanTransition, Fault, NoFault
<1>34. ASSUME NEW w \in Workers, Reread(w) PROVE SettledOnce' /\ OutcomeMatches'
  BY <1>34 DEF Reread, WorkGoes, Fault, NoFault
<1>35. ASSUME NEW w \in Workers, ReleaseTerminal(w) PROVE SettledOnce' /\ OutcomeMatches'
  <2>1. /\ wpc[w] = "release" /\ wjob[w] \in Jobs /\ status[wjob[w]] \in Lost
        /\ UNCHANGED <<status, overlap, misjudged>>
    BY <1>35 DEF ReleaseTerminal
  <2>2. \A k \in Jobs : k # wjob[w] => claims'[k] = claims[k] /\ (k \in phantom' <=> k \in phantom)
    BY <1>35 DEF ReleaseTerminal, ReleaseOk, ReleaseFails, ReleaseTx, Claim
  <2>3. claims'[wjob[w]] \in {claims[wjob[w]], claims[wjob[w]] \cup {"release"}}
    BY <1>35 DEF ReleaseTerminal, ReleaseOk, ReleaseFails, ReleaseTx, Claim
  <2>. QED BY <2>1, <2>2, <2>3
<1>36. ASSUME NEW w \in Workers, Ack(w) PROVE SettledOnce' /\ OutcomeMatches'
  BY <1>36 DEF Ack, WorkGoes, Fault, NoFault
<1>37. ASSUME NEW w \in Workers, WorkerStops(w) PROVE SettledOnce' /\ OutcomeMatches'
  BY <1>37 DEF WorkerStops, WorkGoes, Fault, NoFault
<1>38. ASSUME UNCHANGED vars PROVE SettledOnce' /\ OutcomeMatches'
  BY <1>38 DEF vars
<1>. HIDE DEF TypeOK, Places, Working, Alone, Booked, Counted, SettledOnce, OutcomeMatches, Disturbed, Captured, Released, Held, Lost, Terminal, Unsubmitted, Going, Settled, SettlePcs, EarlyPcs, Cleaners, jobVars, moneyVars, procVars, workVars, extVars, histVars
<1>. QED BY <1>1, <1>2, <1>3, <1>4, <1>5, <1>6, <1>7, <1>8, <1>9,
           <1>10, <1>11, <1>12, <1>13, <1>14, <1>15, <1>16, <1>17, <1>18,
           <1>19, <1>20, <1>21, <1>22, <1>23, <1>24, <1>25, <1>26, <1>27,
           <1>28, <1>29, <1>30, <1>31, <1>32, <1>33, <1>34, <1>35, <1>36,
           <1>37, <1>38
         DEF Next, SubmitNext, CleanNext, WorkNext

\* A job is lost only by somebody who releases it, and not taken from the queue
\* before it is released.
LEMMA FollowedStep ==
  ASSUME TypeOK, Places, Working, Alone, Booked, Followed, [Next]_vars
  PROVE  Followed'
<1>. USE BatchAssumption
<1>. USE DEF TypeOK, Places, Working, Alone, Booked, Followed, ReleaseComing, Held, Captured, Going, Settled, SettlePcs, EarlyPcs, Cleaners, Lost, Terminal, Unsubmitted, jobVars, moneyVars, procVars, workVars, extVars, histVars
<1>1. ASSUME NEW i \in Jobs, Create(i) PROVE Followed'
  BY <1>1 DEF Create, SubGoes, SetStatus, KeepStatus, Fault, NoFault
<1>2. ASSUME NEW i \in Jobs, Reserve(i) PROVE Followed'
  BY <1>2 DEF Reserve, ReserveTx, Claim, SubGoes, Fault, NoFault
<1>3. ASSUME NEW i \in Jobs, CreateItems(i) PROVE Followed'
  BY <1>3 DEF CreateItems, SubGoes, Fault, NoFault
<1>4. ASSUME NEW i \in Jobs, StartUpload(i) PROVE Followed'
  BY <1>4 DEF StartUpload, SubGoes, SetStatus, KeepStatus, CanTransition, Fault, NoFault
<1>5. ASSUME NEW i \in Jobs, ProviderSubmit(i) PROVE Followed'
  BY <1>5 DEF ProviderSubmit, SubGoes, Fault, NoFault
<1>6. ASSUME NEW i \in Jobs, TouchSubmitting(i) PROVE Followed'
  BY <1>6 DEF TouchSubmitting, Fault, NoFault
<1>7. ASSUME NEW i \in Jobs, RecordSubmit(i) PROVE Followed'
  BY <1>7 DEF RecordSubmit, CancelAtProvider, SubGoes, SetStatus, KeepStatus, CanTransition, Fault, NoFault
<1>8. ASSUME NEW i \in Jobs, SubEnqueue(i) PROVE Followed'
  BY <1>8 DEF SubEnqueue, EnqueueFails, SubGoes, Fault, NoFault
<1>9. ASSUME NEW i \in Jobs, SubRelease(i) PROVE Followed'
  BY <1>9 DEF SubRelease, ReleaseOk, ReleaseFails, ReleaseTx, CanRelease, Claim, SubGoes, Fault, NoFault
<1>10. ASSUME NEW i \in Jobs, GiveUp(i) PROVE Followed'
  BY <1>10 DEF GiveUp, SubGoes, SetStatus, KeepStatus, Fault, NoFault
<1>11. ASSUME NEW i \in Jobs, MarkFailed(i) PROVE Followed'
  BY <1>11 DEF MarkFailed, SubGoes, SetStatus, KeepStatus, Fault, NoFault
<1>12. ASSUME NEW i \in Jobs, SubStops(i) PROVE Followed'
  BY <1>12 DEF SubStops, SubGoes, Fault, NoFault
<1>13. ASSUME NEW i \in Jobs, Resubmit(i) PROVE Followed'
  BY <1>13 DEF Resubmit, EnqueueFails, Fault, NoFault
<1>14. ASSUME NEW i \in Jobs, Age(i) PROVE Followed'
  BY <1>14 DEF Age, Fault, NoFault
<1>15. ASSUME NEW i \in Jobs, CancelRead(i) PROVE Followed'
  BY <1>15 DEF CancelRead, CancelAtProvider, CleanGoes, Fault, NoFault
<1>16. ASSUME NEW i \in Jobs, CancelTransition(i) PROVE Followed'
  BY <1>16 DEF CancelTransition, CleanGoes, SetStatus, KeepStatus, CanTransition, Fault, NoFault
<1>17. ASSUME NEW i \in Jobs, CancelEnqueue(i) PROVE Followed'
  BY <1>17 DEF CancelEnqueue, CleanGoes, Fault, NoFault
<1>18. ASSUME NEW i \in Jobs, RecoverFail(i) PROVE Followed'
  BY <1>18 DEF RecoverFail, CleanGoes, SetStatus, KeepStatus, Fault, NoFault
<1>19. ASSUME NEW i \in Jobs, ProvFinish(i) PROVE Followed'
  BY <1>19 DEF ProvFinish, Fault, NoFault
<1>20. ASSUME NEW i \in Jobs, NEW c \in Cleaners, CleanRelease(c, i) PROVE Followed'
  BY <1>20 DEF CleanRelease, ReleaseOk, ReleaseFails, ReleaseTx, CanRelease, Claim, CleanGoes, Fault, NoFault
<1>21. ASSUME NEW i \in Jobs, NEW c \in Cleaners, CleanRetry(c, i) PROVE Followed'
  BY <1>21 DEF CleanRetry, CleanGoes, Fault, NoFault
<1>22. ASSUME NEW i \in Jobs, NEW c \in Cleaners, CleanStops(c, i) PROVE Followed'
  BY <1>22 DEF CleanStops, CleanGoes, Fault, NoFault
<1>23. ASSUME NEW w \in Workers, NEW i \in Jobs, Take(w, i) PROVE Followed'
  BY <1>23 DEF Take, Fault, NoFault
<1>24. ASSUME NEW w \in Workers, Process(w) PROVE Followed'
  BY <1>24 DEF Process, WorkGoes, Fault, NoFault
<1>25. ASSUME NEW w \in Workers, Poll(w) PROVE Followed'
  BY <1>25 DEF Poll, WorkGoes, Fault, NoFault
<1>26. ASSUME NEW w \in Workers, WorkTransition(w) PROVE Followed'
  BY <1>26 DEF WorkTransition, WorkGoes, Lost, SetStatus, KeepStatus, CanTransition, Fault, NoFault
<1>27. ASSUME NEW w \in Workers, Index(w) PROVE Followed'
  BY <1>27 DEF Index, WorkGoes, Fault, NoFault
<1>28. ASSUME NEW w \in Workers, Settle(w) PROVE Followed'
  BY <1>28 DEF Settle, Exhausted, WorkGoes, Fault, NoFault
<1>29. ASSUME NEW w \in Workers, Capture(w) PROVE Followed'
  BY <1>29 DEF Capture, CaptureTx, CanCapture, Claim, WorkGoes, Fault, NoFault
<1>30. ASSUME NEW w \in Workers, Mark(w) PROVE Followed'
  BY <1>30 DEF Mark, WorkGoes, SetStatus, KeepStatus, Fault, NoFault
<1>31. ASSUME NEW w \in Workers, Note(w) PROVE Followed'
  BY <1>31 DEF Note, CountFailure, CountNothing, WorkGoes, Fault, NoFault
<1>32. ASSUME NEW w \in Workers, ExhaustRelease(w) PROVE Followed'
  BY <1>32 DEF ExhaustRelease, ReleaseOk, ReleaseFails, ReleaseTx, CanRelease, Claim, CountFailure, CountNothing, WorkGoes, Fault, NoFault
<1>33. ASSUME NEW w \in Workers, FailExhausted(w) PROVE Followed'
  BY <1>33 DEF FailExhausted, WorkGoes, SetStatus, KeepStatus, CanTransition, Fault, NoFault
<1>34. ASSUME NEW w \in Workers, Reread(w) PROVE Followed'
  BY <1>34 DEF Reread, WorkGoes, Fault, NoFault
<1>35. ASSUME NEW w \in Workers, ReleaseTerminal(w) PROVE Followed'
  BY <1>35 DEF ReleaseTerminal, ReleaseOk, ReleaseFails, ReleaseTx, CanRelease, Claim, WorkGoes, Fault, NoFault
<1>36. ASSUME NEW w \in Workers, Ack(w) PROVE Followed'
  BY <1>36 DEF Ack, WorkGoes, Fault, NoFault
<1>37. ASSUME NEW w \in Workers, WorkerStops(w) PROVE Followed'
  BY <1>37 DEF WorkerStops, WorkGoes, Fault, NoFault
<1>38. ASSUME UNCHANGED vars PROVE Followed'
  BY <1>38 DEF vars
<1>. HIDE DEF TypeOK, Places, Working, Alone, Booked, Followed, ReleaseComing, Held, Captured, Going, Settled, SettlePcs, EarlyPcs, Cleaners, Lost, Terminal, Unsubmitted, jobVars, moneyVars, procVars, workVars, extVars, histVars
<1>. QED BY <1>1, <1>2, <1>3, <1>4, <1>5, <1>6, <1>7, <1>8, <1>9,
           <1>10, <1>11, <1>12, <1>13, <1>14, <1>15, <1>16, <1>17, <1>18,
           <1>19, <1>20, <1>21, <1>22, <1>23, <1>24, <1>25, <1>26, <1>27,
           <1>28, <1>29, <1>30, <1>31, <1>32, <1>33, <1>34, <1>35, <1>36,
           <1>37, <1>38
         DEF Next, SubmitNext, CleanNext, WorkNext

\* Whoever takes a job that still runs at the provider out of its way leaves it to the
\* Submit call, or orphans it.
LEMMA SightedStep ==
  ASSUME TypeOK, Places, Working, Sighted, [Next]_vars
  PROVE  Sighted'
<1>. USE BatchAssumption
<1>. USE DEF TypeOK, Places, Working, Sighted, JobsSighted, WorkersSighted, Going, Settled, SettlePcs, EarlyPcs, Cleaners, Lost, Terminal, Unsubmitted, jobVars, moneyVars, procVars, workVars, extVars, histVars
<1>1. ASSUME NEW i \in Jobs, Create(i) PROVE Sighted'
  BY <1>1 DEF Create, SubGoes, SetStatus, KeepStatus, Fault, NoFault
<1>2. ASSUME NEW i \in Jobs, Reserve(i) PROVE Sighted'
  BY <1>2 DEF Reserve, ReserveTx, Claim, SubGoes, Fault, NoFault
<1>3. ASSUME NEW i \in Jobs, CreateItems(i) PROVE Sighted'
  BY <1>3 DEF CreateItems, SubGoes, Fault, NoFault
<1>4. ASSUME NEW i \in Jobs, StartUpload(i) PROVE Sighted'
  BY <1>4 DEF StartUpload, SubGoes, SetStatus, KeepStatus, CanTransition, Fault, NoFault
<1>5. ASSUME NEW i \in Jobs, ProviderSubmit(i) PROVE Sighted'
  BY <1>5 DEF ProviderSubmit, SubGoes, Fault, NoFault
<1>6. ASSUME NEW i \in Jobs, TouchSubmitting(i) PROVE Sighted'
  BY <1>6 DEF TouchSubmitting, Fault, NoFault
<1>7. ASSUME NEW i \in Jobs, RecordSubmit(i) PROVE Sighted'
  BY <1>7 DEF RecordSubmit, CancelAtProvider, SubGoes, SetStatus, KeepStatus, CanTransition, Fault, NoFault
<1>8. ASSUME NEW i \in Jobs, SubEnqueue(i) PROVE Sighted'
  BY <1>8 DEF SubEnqueue, EnqueueFails, SubGoes, Fault, NoFault
<1>9. ASSUME NEW i \in Jobs, SubRelease(i) PROVE Sighted'
  BY <1>9 DEF SubRelease, ReleaseOk, ReleaseFails, ReleaseTx, CanRelease, Claim, SubGoes, Fault, NoFault
<1>10. ASSUME NEW i \in Jobs, GiveUp(i) PROVE Sighted'
  BY <1>10 DEF GiveUp, SubGoes, SetStatus, KeepStatus, Fault, NoFault
<1>11. ASSUME NEW i \in Jobs, MarkFailed(i) PROVE Sighted'
  BY <1>11 DEF MarkFailed, SubGoes, SetStatus, KeepStatus, Fault, NoFault
<1>12. ASSUME NEW i \in Jobs, SubStops(i) PROVE Sighted'
  BY <1>12 DEF SubStops, SubGoes, Fault, NoFault
<1>13. ASSUME NEW i \in Jobs, Resubmit(i) PROVE Sighted'
  BY <1>13 DEF Resubmit, EnqueueFails, Fault, NoFault
<1>14. ASSUME NEW i \in Jobs, Age(i) PROVE Sighted'
  BY <1>14 DEF Age, Fault, NoFault
<1>15. ASSUME NEW i \in Jobs, CancelRead(i) PROVE Sighted'
  BY <1>15 DEF CancelRead, CancelAtProvider, CleanGoes, Fault, NoFault
<1>16. ASSUME NEW i \in Jobs, CancelTransition(i) PROVE Sighted'
  BY <1>16 DEF CancelTransition, CleanGoes, SetStatus, KeepStatus, CanTransition, Fault, NoFault
<1>17. ASSUME NEW i \in Jobs, CancelEnqueue(i) PROVE Sighted'
  BY <1>17 DEF CancelEnqueue, CleanGoes, Fault, NoFault
<1>18. ASSUME NEW i \in Jobs, RecoverFail(i) PROVE Sighted'
  BY <1>18 DEF RecoverFail, CleanGoes, SetStatus, KeepStatus, Fault, NoFault
<1>19. ASSUME NEW i \in Jobs, ProvFinish(i) PROVE Sighted'
  BY <1>19 DEF ProvFinish, Fault, NoFault
<1>20. ASSUME NEW i \in Jobs, NEW c \in Cleaners, CleanRelease(c, i) PROVE Sighted'
  BY <1>20 DEF CleanRelease, ReleaseOk, ReleaseFails, ReleaseTx, CanRelease, Claim, CleanGoes, Fault, NoFault
<1>21. ASSUME NEW i \in Jobs, NEW c \in Cleaners, CleanRetry(c, i) PROVE Sighted'
  BY <1>21 DEF CleanRetry, CleanGoes, Fault, NoFault
<1>22. ASSUME NEW i \in Jobs, NEW c \in Cleaners, CleanStops(c, i) PROVE Sighted'
  BY <1>22 DEF CleanStops, CleanGoes, Fault, NoFault
<1>23. ASSUME NEW w \in Workers, NEW i \in Jobs, Take(w, i) PROVE Sighted'
  BY <1>23 DEF Take, Fault, NoFault
<1>24. ASSUME NEW w \in Workers, Process(w) PROVE Sighted'
  <2>1. /\ wjob[w] \in Jobs
        /\ UNCHANGED <<status, submitted, sub, prov, orphan>>
    BY <1>24 DEF Process
  <2>2. PICK to \in {"release", "ack", "idle", "index", "poll"} :
          /\ WorkGoes(w, to)
          /\ to \in {"index", "poll"} => wjob[w] \in submitted
          /\ to = "index" => status[wjob[w]] = "indexing"
    BY <1>24 DEF Process
  <2>3. to = "index" => prov[wjob[w]] # "running"
    BY <2>1, <2>2
  <2>. QED BY <2>1, <2>2, <2>3 DEF WorkGoes
<1>25. ASSUME NEW w \in Workers, Poll(w) PROVE Sighted'
  BY <1>25 DEF Poll, WorkGoes, Fault, NoFault
<1>26. ASSUME NEW w \in Workers, WorkTransition(w) PROVE Sighted'
  <2>1. /\ wpc[w] \in EarlyPcs \ {"poll", "index"}
        /\ wjob[w] \in Jobs /\ wjob[w] \in submitted
        /\ wpc[w] # "running" => prov[wjob[w]] # "running"
        /\ UNCHANGED <<submitted, sub, prov, orphan>>
    BY <1>26 DEF WorkTransition
  <2>2. PICK to \in {"index", "release", "idle"} :
          WorkGoes(w, to) /\ (to = "index" => wpc[w] = "indexing")
    BY <1>26 DEF WorkTransition
  <2>3. \/ UNCHANGED status
        \/ /\ status[wjob[w]] \notin Terminal
           /\ status' = [status EXCEPT ![wjob[w]] = wpc[w]]
    BY <1>26 DEF WorkTransition, SetStatus, KeepStatus, CanTransition
  <2>4. JobsSighted'
    BY <2>1, <2>3
  <2>5. WorkersSighted'
    BY <2>1, <2>2 DEF WorkGoes
  <2>. HIDE DEF JobsSighted, WorkersSighted
  <2>. QED BY <2>4, <2>5
<1>27. ASSUME NEW w \in Workers, Index(w) PROVE Sighted'
  BY <1>27 DEF Index, WorkGoes, Fault, NoFault
<1>28. ASSUME NEW w \in Workers, Settle(w) PROVE Sighted'
  BY <1>28 DEF Settle, Exhausted, WorkGoes, Fault, NoFault
<1>29. ASSUME NEW w \in Workers, Capture(w) PROVE Sighted'
  BY <1>29 DEF Capture, CaptureTx, CanCapture, Claim, WorkGoes, Fault, NoFault
<1>30. ASSUME NEW w \in Workers, Mark(w) PROVE Sighted'
  BY <1>30 DEF Mark, WorkGoes, SetStatus, KeepStatus, Fault, NoFault
<1>31. ASSUME NEW w \in Workers, Note(w) PROVE Sighted'
  BY <1>31 DEF Note, CountFailure, CountNothing, WorkGoes, Fault, NoFault
<1>32. ASSUME NEW w \in Workers, ExhaustRelease(w) PROVE Sighted'
  BY <1>32 DEF ExhaustRelease, ReleaseOk, ReleaseFails, ReleaseTx, CanRelease, Claim, CountFailure, CountNothing, WorkGoes, Fault, NoFault
<1>33. ASSUME NEW w \in Workers, FailExhausted(w) PROVE Sighted'
  BY <1>33 DEF FailExhausted, WorkGoes, SetStatus, KeepStatus, CanTransition, Fault, NoFault
<1>34. ASSUME NEW w \in Workers, Reread(w) PROVE Sighted'
  BY <1>34 DEF Reread, WorkGoes, Fault, NoFault
<1>35. ASSUME NEW w \in Workers, ReleaseTerminal(w) PROVE Sighted'
  BY <1>35 DEF ReleaseTerminal, ReleaseOk, ReleaseFails, ReleaseTx, CanRelease, Claim, WorkGoes, Fault, NoFault
<1>36. ASSUME NEW w \in Workers, Ack(w) PROVE Sighted'
  BY <1>36 DEF Ack, WorkGoes, Fault, NoFault
<1>37. ASSUME NEW w \in Workers, WorkerStops(w) PROVE Sighted'
  BY <1>37 DEF WorkerStops, WorkGoes, Fault, NoFault
<1>38. ASSUME UNCHANGED vars PROVE Sighted'
  BY <1>38 DEF vars
<1>. HIDE DEF TypeOK, Places, Working, Sighted, JobsSighted, WorkersSighted, Going, Settled, SettlePcs, EarlyPcs, Cleaners, Lost, Terminal, Unsubmitted, jobVars, moneyVars, procVars, workVars, extVars, histVars
<1>. QED BY <1>1, <1>2, <1>3, <1>4, <1>5, <1>6, <1>7, <1>8, <1>9,
           <1>10, <1>11, <1>12, <1>13, <1>14, <1>15, <1>16, <1>17, <1>18,
           <1>19, <1>20, <1>21, <1>22, <1>23, <1>24, <1>25, <1>26, <1>27,
           <1>28, <1>29, <1>30, <1>31, <1>32, <1>33, <1>34, <1>35, <1>36,
           <1>37, <1>38
         DEF Next, SubmitNext, CleanNext, WorkNext

-----------------------------------------------------------------------------
THEOREM InvInit == Init => Inv
<1>. SUFFICES ASSUME Init PROVE Inv
  OBVIOUS
<1>. USE BatchAssumption
<1>1. TypeOK
  BY DEF Init, TypeOK, Cleaners
<1>2. Places /\ Working /\ Alone
  BY DEF Init, Places, Working, Alone, Going, Unsubmitted, Cleaners
<1>3. Booked /\ Counted
  BY DEF Init, Booked, Counted, Held, Captured, Lost, Terminal, Settled, Unsubmitted
<1>4. SettledOnce /\ OutcomeMatches /\ Followed
  BY DEF Init, SettledOnce, OutcomeMatches, Followed, Held, Captured, Released, Lost
<1>5. Sighted
  BY DEF Init, Sighted, JobsSighted, WorkersSighted, EarlyPcs
<1>. QED BY <1>1, <1>2, <1>3, <1>4, <1>5 DEF Inv

THEOREM InvStep == Inv /\ [Next]_vars => Inv'
  BY TypeStep, PlacesStep, WorkingStep, AloneStep, BookedStep, CountedStep, OnceStep, FollowedStep,
     SightedStep DEF Inv

THEOREM Invariance == Spec => []Inv
  BY InvInit, InvStep, PTL DEF Spec

\* The type invariant holds for every set of jobs and workers: neither balance
\* is ever overdrawn.
THEOREM TypeCorrect == Spec => []TypeOK
<1>1. Inv => TypeOK
  BY DEF Inv
<1>. QED BY <1>1, Invariance, PTL

\* The hold of a job is captured or released, not both, unless two workers had
\* the job or a settlement failure was recorded after the capture.
THEOREM OnceSettled == Spec => []SettledOnce
<1>1. Inv => SettledOnce
  BY DEF Inv
<1>. QED BY <1>1, Invariance, PTL

\* A completed job was captured, and a lost one was not.
THEOREM OutcomesMatch == Spec => []OutcomeMatches
<1>1. Inv => OutcomeMatches
  BY DEF Inv
<1>. QED BY <1>1, Invariance, PTL

\* A job that is with the provider, by its row or in fact, has its hold frozen, unless the
\* service lost sight of it or its Submit call has yet to learn that it was overtaken; a
\* settling job loses its hold only after the last retry (FailStaleUnsubmittedBatchImageJob,
\* Cancel, abortOrphanProviderJob).
THEOREM CoveredWork == Spec => []WorkCovered
<1>1. Inv => WorkCovered
  BY DEF Inv, Booked, Counted, Sighted, JobsSighted, WorkCovered, Held, Released, Lost
<1>. QED BY <1>1, Invariance, PTL

\* The hold of a failed or cancelled job is not forgotten.
THEOREM FollowedHolds == Spec => []HoldFollowed
<1>1. Inv => HoldFollowed
  BY DEF Inv, Followed, HoldFollowed
<1>. QED BY <1>1, Invariance, PTL
-----------------------------------------------------------------------------
(* Money: the balances and the claims.  A step leaves both alone, or is one *)
(* of the three transactions.                                               *)

Kept == {j \in Jobs : Captured(j)}
OpenHolds == {j \in Jobs : Held(j) /\ ~Captured(j) /\ ~Released(j)}

\* a release is claimed with the hold it gives back, or is a phantom
Ledger ==
    /\ MoneyAccounted
    /\ \A j \in Jobs : "release" \in claims[j] <=> Released(j) \/ j \in phantom
    /\ \A j \in Jobs : Released(j) => Held(j)

Quiet ==
    /\ UNCHANGED moneyVars
    /\ \A j \in Kept : cost'[j] = cost[j]
Capturing(j) == \E w \in Workers : wpc[w] = "capture" /\ wjob[w] = j
Moves(j) ==
    /\ UNCHANGED cost
    /\ \/ sub[j] = "reserve" /\ ReserveTx(j)
       \/ Capturing(j) /\ CaptureTx(j)
       \/ ReleaseTx(j)

\* The balances change in the three transactions only, and the cost of a job
\* never changes once it was captured.
LEMMA MoneyStep ==
  ASSUME TypeOK, Working, Booked, [Next]_vars
  PROVE  Quiet \/ \E j \in Jobs : Moves(j)
<1>. USE DEF Captured, jobVars, moneyVars, procVars, workVars, extVars, histVars, Kept
<1>1. ASSUME NEW i \in Jobs, Create(i) PROVE Quiet \/ \E j \in Jobs : Moves(j)
  BY <1>1 DEF Create, SubGoes, SetStatus, KeepStatus, Fault, NoFault, Quiet
<1>2. ASSUME NEW i \in Jobs, Reserve(i) PROVE Quiet \/ \E j \in Jobs : Moves(j)
  <2>1. UNCHANGED moneyVars \/ (sub[i] = "reserve" /\ ReserveTx(i))
    BY <1>2 DEF Reserve, moneyVars
  <2>2. UNCHANGED cost
    BY <1>2 DEF Reserve, extVars
  <2>. QED BY <2>1, <2>2 DEF Quiet, Moves
<1>3. ASSUME NEW i \in Jobs, CreateItems(i) PROVE Quiet \/ \E j \in Jobs : Moves(j)
  BY <1>3 DEF CreateItems, SubGoes, Fault, NoFault, Quiet
<1>4. ASSUME NEW i \in Jobs, StartUpload(i) PROVE Quiet \/ \E j \in Jobs : Moves(j)
  BY <1>4 DEF StartUpload, SubGoes, SetStatus, KeepStatus, CanTransition, Fault, NoFault, Quiet
<1>5. ASSUME NEW i \in Jobs, ProviderSubmit(i) PROVE Quiet \/ \E j \in Jobs : Moves(j)
  BY <1>5 DEF ProviderSubmit, SubGoes, Fault, NoFault, Quiet
<1>6. ASSUME NEW i \in Jobs, TouchSubmitting(i) PROVE Quiet \/ \E j \in Jobs : Moves(j)
  BY <1>6 DEF TouchSubmitting, Fault, NoFault, Quiet
<1>7. ASSUME NEW i \in Jobs, RecordSubmit(i) PROVE Quiet \/ \E j \in Jobs : Moves(j)
  BY <1>7 DEF RecordSubmit, CancelAtProvider, SubGoes, SetStatus, KeepStatus, CanTransition, Fault, NoFault, Quiet
<1>8. ASSUME NEW i \in Jobs, SubEnqueue(i) PROVE Quiet \/ \E j \in Jobs : Moves(j)
  BY <1>8 DEF SubEnqueue, EnqueueFails, SubGoes, Fault, NoFault, Quiet
<1>9. ASSUME NEW i \in Jobs, SubRelease(i) PROVE Quiet \/ \E j \in Jobs : Moves(j)
  <2>1. (UNCHANGED moneyVars \/ ReleaseTx(i)) /\ UNCHANGED cost
    BY <1>9 DEF SubRelease, ReleaseOk, ReleaseFails, extVars, moneyVars
  <2>2. i \in Jobs
    BY <1>9 DEF SubRelease, TypeOK, Working, SettlePcs
  <2>. QED BY <2>1, <2>2 DEF Quiet, Moves, Capturing
<1>10. ASSUME NEW i \in Jobs, GiveUp(i) PROVE Quiet \/ \E j \in Jobs : Moves(j)
  BY <1>10 DEF GiveUp, SubGoes, SetStatus, KeepStatus, Fault, NoFault, Quiet
<1>11. ASSUME NEW i \in Jobs, MarkFailed(i) PROVE Quiet \/ \E j \in Jobs : Moves(j)
  BY <1>11 DEF MarkFailed, SubGoes, SetStatus, KeepStatus, Fault, NoFault, Quiet
<1>12. ASSUME NEW i \in Jobs, SubStops(i) PROVE Quiet \/ \E j \in Jobs : Moves(j)
  BY <1>12 DEF SubStops, SubGoes, Fault, NoFault, Quiet
<1>13. ASSUME NEW i \in Jobs, Resubmit(i) PROVE Quiet \/ \E j \in Jobs : Moves(j)
  BY <1>13 DEF Resubmit, EnqueueFails, Fault, NoFault, Quiet
<1>14. ASSUME NEW i \in Jobs, Age(i) PROVE Quiet \/ \E j \in Jobs : Moves(j)
  BY <1>14 DEF Age, Fault, NoFault, Quiet
<1>15. ASSUME NEW i \in Jobs, CancelRead(i) PROVE Quiet \/ \E j \in Jobs : Moves(j)
  BY <1>15 DEF CancelRead, CancelAtProvider, CleanGoes, Fault, NoFault, Quiet
<1>16. ASSUME NEW i \in Jobs, CancelTransition(i) PROVE Quiet \/ \E j \in Jobs : Moves(j)
  BY <1>16 DEF CancelTransition, CleanGoes, SetStatus, KeepStatus, CanTransition, Fault, NoFault, Quiet
<1>17. ASSUME NEW i \in Jobs, CancelEnqueue(i) PROVE Quiet \/ \E j \in Jobs : Moves(j)
  BY <1>17 DEF CancelEnqueue, CleanGoes, Fault, NoFault, Quiet
<1>18. ASSUME NEW i \in Jobs, RecoverFail(i) PROVE Quiet \/ \E j \in Jobs : Moves(j)
  BY <1>18 DEF RecoverFail, CleanGoes, SetStatus, KeepStatus, Fault, NoFault, Quiet
<1>19. ASSUME NEW i \in Jobs, ProvFinish(i) PROVE Quiet \/ \E j \in Jobs : Moves(j)
  BY <1>19 DEF ProvFinish, Fault, NoFault, Quiet
<1>20. ASSUME NEW i \in Jobs, NEW c \in Cleaners, CleanRelease(c, i) PROVE Quiet \/ \E j \in Jobs : Moves(j)
  <2>1. (UNCHANGED moneyVars \/ ReleaseTx(i)) /\ UNCHANGED cost
    BY <1>20 DEF CleanRelease, ReleaseOk, ReleaseFails, extVars, moneyVars
  <2>2. i \in Jobs
    BY <1>20 DEF CleanRelease, TypeOK, Working, SettlePcs
  <2>. QED BY <2>1, <2>2 DEF Quiet, Moves, Capturing
<1>21. ASSUME NEW i \in Jobs, NEW c \in Cleaners, CleanRetry(c, i) PROVE Quiet \/ \E j \in Jobs : Moves(j)
  BY <1>21 DEF CleanRetry, CleanGoes, Fault, NoFault, Quiet
<1>22. ASSUME NEW i \in Jobs, NEW c \in Cleaners, CleanStops(c, i) PROVE Quiet \/ \E j \in Jobs : Moves(j)
  BY <1>22 DEF CleanStops, CleanGoes, Fault, NoFault, Quiet
<1>23. ASSUME NEW w \in Workers, NEW i \in Jobs, Take(w, i) PROVE Quiet \/ \E j \in Jobs : Moves(j)
  BY <1>23 DEF Take, Fault, NoFault, Quiet
<1>24. ASSUME NEW w \in Workers, Process(w) PROVE Quiet \/ \E j \in Jobs : Moves(j)
  BY <1>24 DEF Process, WorkGoes, Fault, NoFault, Quiet
<1>25. ASSUME NEW w \in Workers, Poll(w) PROVE Quiet \/ \E j \in Jobs : Moves(j)
  BY <1>25 DEF Poll, WorkGoes, Fault, NoFault, Quiet
<1>26. ASSUME NEW w \in Workers, WorkTransition(w) PROVE Quiet \/ \E j \in Jobs : Moves(j)
  BY <1>26 DEF WorkTransition, WorkGoes, Lost, SetStatus, KeepStatus, CanTransition, Fault, NoFault, Quiet
<1>27. ASSUME NEW w \in Workers, Index(w) PROVE Quiet \/ \E j \in Jobs : Moves(j)
  <2>1. UNCHANGED moneyVars
    BY <1>27 DEF Index
  <2>2. cost' = cost \/ (status[wjob[w]] = "indexing" /\ \E c \in Costs[wjob[w]] : cost' = [cost EXCEPT ![wjob[w]] = c])
    BY <1>27 DEF Index
  <2>3. \A j \in Jobs : status[j] = "indexing" => ~Captured(j)
    BY DEF Booked, Captured
  <2>. QED BY <2>1, <2>2, <2>3 DEF Quiet, Captured, TypeOK
<1>28. ASSUME NEW w \in Workers, Settle(w) PROVE Quiet \/ \E j \in Jobs : Moves(j)
  BY <1>28 DEF Settle, Exhausted, WorkGoes, Fault, NoFault, Quiet
<1>29. ASSUME NEW w \in Workers, Capture(w) PROVE Quiet \/ \E j \in Jobs : Moves(j)
  <2>1. UNCHANGED moneyVars \/ (wpc[w] = "capture" /\ CaptureTx(wjob[w]))
    BY <1>29 DEF Capture, moneyVars
  <2>2. UNCHANGED cost
    BY <1>29 DEF Capture, extVars
  <2>3. wjob[w] \in Jobs
    BY <1>29 DEF Capture, TypeOK, Working
  <2>. QED BY <2>1, <2>2, <2>3 DEF Quiet, Moves, Capturing
<1>30. ASSUME NEW w \in Workers, Mark(w) PROVE Quiet \/ \E j \in Jobs : Moves(j)
  BY <1>30 DEF Mark, WorkGoes, SetStatus, KeepStatus, Fault, NoFault, Quiet
<1>31. ASSUME NEW w \in Workers, Note(w) PROVE Quiet \/ \E j \in Jobs : Moves(j)
  BY <1>31 DEF Note, CountFailure, CountNothing, WorkGoes, Fault, NoFault, Quiet
<1>32. ASSUME NEW w \in Workers, ExhaustRelease(w) PROVE Quiet \/ \E j \in Jobs : Moves(j)
  <2>1. (UNCHANGED moneyVars \/ ReleaseTx(wjob[w])) /\ UNCHANGED cost
    BY <1>32 DEF ExhaustRelease, ReleaseOk, ReleaseFails, extVars, moneyVars
  <2>2. wjob[w] \in Jobs
    BY <1>32 DEF ExhaustRelease, TypeOK, Working, SettlePcs
  <2>. QED BY <2>1, <2>2 DEF Quiet, Moves, Capturing
<1>33. ASSUME NEW w \in Workers, FailExhausted(w) PROVE Quiet \/ \E j \in Jobs : Moves(j)
  BY <1>33 DEF FailExhausted, WorkGoes, SetStatus, KeepStatus, CanTransition, Fault, NoFault, Quiet
<1>34. ASSUME NEW w \in Workers, Reread(w) PROVE Quiet \/ \E j \in Jobs : Moves(j)
  BY <1>34 DEF Reread, WorkGoes, Fault, NoFault, Quiet
<1>35. ASSUME NEW w \in Workers, ReleaseTerminal(w) PROVE Quiet \/ \E j \in Jobs : Moves(j)
  <2>1. (UNCHANGED moneyVars \/ ReleaseTx(wjob[w])) /\ UNCHANGED cost
    BY <1>35 DEF ReleaseTerminal, ReleaseOk, ReleaseFails, extVars, moneyVars
  <2>2. wjob[w] \in Jobs
    BY <1>35 DEF ReleaseTerminal, TypeOK, Working, SettlePcs
  <2>. QED BY <2>1, <2>2 DEF Quiet, Moves, Capturing
<1>36. ASSUME NEW w \in Workers, Ack(w) PROVE Quiet \/ \E j \in Jobs : Moves(j)
  BY <1>36 DEF Ack, WorkGoes, Fault, NoFault, Quiet
<1>37. ASSUME NEW w \in Workers, WorkerStops(w) PROVE Quiet \/ \E j \in Jobs : Moves(j)
  BY <1>37 DEF WorkerStops, WorkGoes, Fault, NoFault, Quiet
<1>38. ASSUME UNCHANGED vars PROVE Quiet \/ \E j \in Jobs : Moves(j)
  BY <1>38 DEF vars, Quiet
<1>. HIDE DEF Captured, jobVars, moneyVars, procVars, workVars, extVars, histVars, Kept
<1>. QED BY <1>1, <1>2, <1>3, <1>4, <1>5, <1>6, <1>7, <1>8, <1>9,
           <1>10, <1>11, <1>12, <1>13, <1>14, <1>15, <1>16, <1>17, <1>18,
           <1>19, <1>20, <1>21, <1>22, <1>23, <1>24, <1>25, <1>26, <1>27,
           <1>28, <1>29, <1>30, <1>31, <1>32, <1>33, <1>34, <1>35, <1>36,
           <1>37, <1>38
         DEF Next, SubmitNext, CleanNext, WorkNext

\* A disturbed job stays so.
LEMMA DisturbedGrows ==
  ASSUME TypeOK, [Next]_vars
  PROVE  Disturbed \subseteq Disturbed'
<1>. USE DEF Disturbed, histVars
<1>1. ASSUME NEW i \in Jobs, Create(i) PROVE Disturbed \subseteq Disturbed'
  BY <1>1 DEF Create, SubGoes, SetStatus, KeepStatus, Fault, NoFault
<1>2. ASSUME NEW i \in Jobs, Reserve(i) PROVE Disturbed \subseteq Disturbed'
  BY <1>2 DEF Reserve, ReserveTx, Claim, SubGoes, Fault, NoFault
<1>3. ASSUME NEW i \in Jobs, CreateItems(i) PROVE Disturbed \subseteq Disturbed'
  BY <1>3 DEF CreateItems, SubGoes, Fault, NoFault
<1>4. ASSUME NEW i \in Jobs, StartUpload(i) PROVE Disturbed \subseteq Disturbed'
  BY <1>4 DEF StartUpload, SubGoes, SetStatus, KeepStatus, CanTransition, Fault, NoFault
<1>5. ASSUME NEW i \in Jobs, ProviderSubmit(i) PROVE Disturbed \subseteq Disturbed'
  BY <1>5 DEF ProviderSubmit, SubGoes, Fault, NoFault
<1>6. ASSUME NEW i \in Jobs, TouchSubmitting(i) PROVE Disturbed \subseteq Disturbed'
  BY <1>6 DEF TouchSubmitting, Fault, NoFault
<1>7. ASSUME NEW i \in Jobs, RecordSubmit(i) PROVE Disturbed \subseteq Disturbed'
  BY <1>7 DEF RecordSubmit, CancelAtProvider, SubGoes, SetStatus, KeepStatus, CanTransition, Fault, NoFault
<1>8. ASSUME NEW i \in Jobs, SubEnqueue(i) PROVE Disturbed \subseteq Disturbed'
  <2>1. UNCHANGED overlap /\ misjudged \subseteq misjudged'
    BY <1>8 DEF SubEnqueue, EnqueueFails, CountFailure, CountNothing, jobVars
  <2>. QED BY <2>1
<1>9. ASSUME NEW i \in Jobs, SubRelease(i) PROVE Disturbed \subseteq Disturbed'
  BY <1>9 DEF SubRelease, ReleaseOk, ReleaseFails, ReleaseTx, CanRelease, Claim, SubGoes, Fault, NoFault
<1>10. ASSUME NEW i \in Jobs, GiveUp(i) PROVE Disturbed \subseteq Disturbed'
  BY <1>10 DEF GiveUp, SubGoes, SetStatus, KeepStatus, Fault, NoFault
<1>11. ASSUME NEW i \in Jobs, MarkFailed(i) PROVE Disturbed \subseteq Disturbed'
  BY <1>11 DEF MarkFailed, SubGoes, SetStatus, KeepStatus, Fault, NoFault
<1>12. ASSUME NEW i \in Jobs, SubStops(i) PROVE Disturbed \subseteq Disturbed'
  BY <1>12 DEF SubStops, SubGoes, Fault, NoFault
<1>13. ASSUME NEW i \in Jobs, Resubmit(i) PROVE Disturbed \subseteq Disturbed'
  <2>1. UNCHANGED overlap /\ misjudged \subseteq misjudged'
    BY <1>13 DEF Resubmit, EnqueueFails, CountFailure, CountNothing, jobVars
  <2>. QED BY <2>1
<1>14. ASSUME NEW i \in Jobs, Age(i) PROVE Disturbed \subseteq Disturbed'
  BY <1>14 DEF Age, Fault, NoFault
<1>15. ASSUME NEW i \in Jobs, CancelRead(i) PROVE Disturbed \subseteq Disturbed'
  BY <1>15 DEF CancelRead, CancelAtProvider, CleanGoes, Fault, NoFault
<1>16. ASSUME NEW i \in Jobs, CancelTransition(i) PROVE Disturbed \subseteq Disturbed'
  BY <1>16 DEF CancelTransition, CleanGoes, SetStatus, KeepStatus, CanTransition, Fault, NoFault
<1>17. ASSUME NEW i \in Jobs, CancelEnqueue(i) PROVE Disturbed \subseteq Disturbed'
  BY <1>17 DEF CancelEnqueue, CleanGoes, Fault, NoFault
<1>18. ASSUME NEW i \in Jobs, RecoverFail(i) PROVE Disturbed \subseteq Disturbed'
  BY <1>18 DEF RecoverFail, CleanGoes, SetStatus, KeepStatus, Fault, NoFault
<1>19. ASSUME NEW i \in Jobs, ProvFinish(i) PROVE Disturbed \subseteq Disturbed'
  BY <1>19 DEF ProvFinish, Fault, NoFault
<1>20. ASSUME NEW i \in Jobs, NEW c \in Cleaners, CleanRelease(c, i) PROVE Disturbed \subseteq Disturbed'
  BY <1>20 DEF CleanRelease, ReleaseOk, ReleaseFails, ReleaseTx, CanRelease, Claim, CleanGoes, Fault, NoFault
<1>21. ASSUME NEW i \in Jobs, NEW c \in Cleaners, CleanRetry(c, i) PROVE Disturbed \subseteq Disturbed'
  BY <1>21 DEF CleanRetry, CleanGoes, Fault, NoFault
<1>22. ASSUME NEW i \in Jobs, NEW c \in Cleaners, CleanStops(c, i) PROVE Disturbed \subseteq Disturbed'
  BY <1>22 DEF CleanStops, CleanGoes, Fault, NoFault
<1>23. ASSUME NEW w \in Workers, NEW i \in Jobs, Take(w, i) PROVE Disturbed \subseteq Disturbed'
  BY <1>23 DEF Take, Fault, NoFault
<1>24. ASSUME NEW w \in Workers, Process(w) PROVE Disturbed \subseteq Disturbed'
  BY <1>24 DEF Process, WorkGoes, Fault, NoFault
<1>25. ASSUME NEW w \in Workers, Poll(w) PROVE Disturbed \subseteq Disturbed'
  BY <1>25 DEF Poll, WorkGoes, Fault, NoFault
<1>26. ASSUME NEW w \in Workers, WorkTransition(w) PROVE Disturbed \subseteq Disturbed'
  BY <1>26 DEF WorkTransition, WorkGoes, Lost, SetStatus, KeepStatus, CanTransition, Fault, NoFault
<1>27. ASSUME NEW w \in Workers, Index(w) PROVE Disturbed \subseteq Disturbed'
  BY <1>27 DEF Index, WorkGoes, Fault, NoFault
<1>28. ASSUME NEW w \in Workers, Settle(w) PROVE Disturbed \subseteq Disturbed'
  BY <1>28 DEF Settle, Exhausted, WorkGoes, Fault, NoFault
<1>29. ASSUME NEW w \in Workers, Capture(w) PROVE Disturbed \subseteq Disturbed'
  BY <1>29 DEF Capture, CaptureTx, CanCapture, Claim, WorkGoes, Fault, NoFault
<1>30. ASSUME NEW w \in Workers, Mark(w) PROVE Disturbed \subseteq Disturbed'
  BY <1>30 DEF Mark, WorkGoes, SetStatus, KeepStatus, Fault, NoFault
<1>31. ASSUME NEW w \in Workers, Note(w) PROVE Disturbed \subseteq Disturbed'
  <2>1. UNCHANGED overlap /\ misjudged \subseteq misjudged'
    BY <1>31 DEF Note, EnqueueFails, CountFailure, CountNothing, jobVars
  <2>. QED BY <2>1
<1>32. ASSUME NEW w \in Workers, ExhaustRelease(w) PROVE Disturbed \subseteq Disturbed'
  <2>1. UNCHANGED overlap /\ misjudged \subseteq misjudged'
    BY <1>32 DEF ExhaustRelease, EnqueueFails, CountFailure, CountNothing, jobVars
  <2>. QED BY <2>1
<1>33. ASSUME NEW w \in Workers, FailExhausted(w) PROVE Disturbed \subseteq Disturbed'
  BY <1>33 DEF FailExhausted, WorkGoes, SetStatus, KeepStatus, CanTransition, Fault, NoFault
<1>34. ASSUME NEW w \in Workers, Reread(w) PROVE Disturbed \subseteq Disturbed'
  BY <1>34 DEF Reread, WorkGoes, Fault, NoFault
<1>35. ASSUME NEW w \in Workers, ReleaseTerminal(w) PROVE Disturbed \subseteq Disturbed'
  BY <1>35 DEF ReleaseTerminal, ReleaseOk, ReleaseFails, ReleaseTx, CanRelease, Claim, WorkGoes, Fault, NoFault
<1>36. ASSUME NEW w \in Workers, Ack(w) PROVE Disturbed \subseteq Disturbed'
  BY <1>36 DEF Ack, WorkGoes, Fault, NoFault
<1>37. ASSUME NEW w \in Workers, WorkerStops(w) PROVE Disturbed \subseteq Disturbed'
  BY <1>37 DEF WorkerStops, WorkGoes, Fault, NoFault
<1>38. ASSUME UNCHANGED vars PROVE Disturbed \subseteq Disturbed'
  BY <1>38 DEF vars
<1>. HIDE DEF Disturbed, histVars
<1>. QED BY <1>1, <1>2, <1>3, <1>4, <1>5, <1>6, <1>7, <1>8, <1>9,
           <1>10, <1>11, <1>12, <1>13, <1>14, <1>15, <1>16, <1>17, <1>18,
           <1>19, <1>20, <1>21, <1>22, <1>23, <1>24, <1>25, <1>26, <1>27,
           <1>28, <1>29, <1>30, <1>31, <1>32, <1>33, <1>34, <1>35, <1>36,
           <1>37, <1>38
         DEF Next, SubmitNext, CleanNext, WorkNext

LEMMA MoneySums ==
  ASSUME TypeOK
  PROVE  /\ IsFiniteSet(Kept) /\ IsFiniteSet(OpenHolds)
         /\ \A j \in Jobs : cost[j] \in Int /\ Hold[j] \in Int
         /\ SumFunctionOnSet(cost, Kept) \in Int
         /\ SumFunctionOnSet(Hold, OpenHolds) \in Int
<1>. USE BatchAssumption
<1>1. IsFiniteSet(Kept) /\ IsFiniteSet(OpenHolds)
  BY FS_Subset DEF Kept, OpenHolds
<1>2. \A j \in Jobs : cost[j] \in Int /\ Hold[j] \in Int
  BY DEF TypeOK
<1>3. SumFunctionOnSet(cost, Kept) \in Int
  BY <1>1, <1>2, SumInt DEF Kept
<1>4. SumFunctionOnSet(Hold, OpenHolds) \in Int
  BY <1>1, <1>2, SumInt DEF OpenHolds
<1>. QED BY <1>1, <1>2, <1>3, <1>4

\* what MoneyAccounted says of the sets named above
Balanced ==
    /\ balance + frozen + SumFunctionOnSet(cost, Kept) = Opening + OpeningFrozen
    /\ Disturbed = {} => frozen = SumFunctionOnSet(Hold, OpenHolds)

LEMMA MoneyMeans ==
  /\ MoneyAccounted <=> Balanced
  /\ MoneyAccounted' <=> Balanced'
  BY DEF MoneyAccounted, Balanced, Kept, OpenHolds

LEMMA LedgerQuiet ==
  ASSUME TypeOK, TypeOK', Ledger, Quiet, Disturbed \subseteq Disturbed'
  PROVE  Ledger'
<1>1. Kept' = Kept /\ OpenHolds' = OpenHolds /\ UNCHANGED <<claims, phantom, balance, frozen>>
  BY DEF Quiet, moneyVars, Kept, OpenHolds, Held, Captured, Released
<1>2. SumFunctionOnSet(cost', Kept) = SumFunctionOnSet(cost, Kept)
  <2>1. \A j \in Kept : cost[j] \in Int /\ cost'[j] = cost[j]
    BY MoneySums DEF Quiet, Kept
  <2>. QED BY <2>1, MoneySums, SumSame
<1>3. MoneyAccounted'
  BY <1>1, <1>2, MoneyMeans DEF Balanced, Ledger
<1>. QED BY <1>1, <1>3 DEF Ledger, Held, Released

\* A hold moves money from the balance to the frozen one, and is open now.
LEMMA LedgerReserve ==
  ASSUME TypeOK, TypeOK', Places, Booked, Ledger, Disturbed \subseteq Disturbed',
         NEW j \in Jobs, UNCHANGED cost, sub[j] = "reserve", ReserveTx(j)
  PROVE  Ledger'
<1>1. /\ claims' = [claims EXCEPT ![j] = @ \cup {"hold"}] /\ phantom' = phantom
      /\ balance' = balance - Hold[j] /\ frozen' = frozen + Hold[j]
  BY DEF ReserveTx, Claim
<1>2. ~Held(j) /\ ~Captured(j)
  BY DEF Places, Booked, Held
<1>3. Kept' = Kept
  BY <1>1 DEF Kept, Captured, TypeOK
<1>4. OpenHolds' = OpenHolds \cup {j} /\ j \notin OpenHolds
  BY <1>1, <1>2 DEF OpenHolds, Held, Captured, Released, TypeOK, Ledger
<1>5. SumFunctionOnSet(Hold, OpenHolds \cup {j}) = SumFunctionOnSet(Hold, OpenHolds) + Hold[j]
  <2>1. \A i \in OpenHolds \cup {j} : Hold[i] \in Int
    BY MoneySums DEF OpenHolds
  <2>. QED BY <1>4, <2>1, MoneySums, SumAdd
<1>6. MoneyAccounted'
  BY <1>1, <1>3, <1>4, <1>5, MoneyMeans, MoneySums DEF Balanced, Ledger, TypeOK
<1>. QED BY <1>1, <1>6 DEF Ledger, Held, Released, TypeOK

\* A capture takes the cost of the job from what the user has, and closes
\* its hold.
LEMMA LedgerCapture ==
  ASSUME TypeOK, TypeOK', Alone, Booked, SettledOnce', Ledger, Disturbed \subseteq Disturbed',
         NEW j \in Jobs, UNCHANGED cost, Capturing(j), CaptureTx(j), ~Captured(j)
  PROVE  Ledger'
<1>1. /\ claims' = [claims EXCEPT ![j] = @ \cup {"capture"}] /\ phantom' = phantom
      /\ balance' = balance + (Hold[j] - cost[j]) /\ frozen' = frozen - Hold[j]
  BY DEF CaptureTx, Claim, Captured
<1>2. Kept' = Kept \cup {j} /\ j \notin Kept
  BY <1>1 DEF Kept, Captured, TypeOK
<1>3. SumFunctionOnSet(cost, Kept \cup {j}) = SumFunctionOnSet(cost, Kept) + cost[j]
  <2>1. \A i \in Kept \cup {j} : cost[i] \in Int
    BY MoneySums DEF Kept
  <2>. QED BY <1>2, <2>1, MoneySums, SumAdd
<1>4. ASSUME Disturbed' = {} PROVE frozen' = SumFunctionOnSet(Hold, OpenHolds')
  <2>1. Held(j)
    BY <1>4 DEF Capturing, Alone, SettlePcs, Booked, Disturbed
  <2>2. ~Released(j)
    BY <1>1, <1>4 DEF SettledOnce, Captured, Released, TypeOK
  <2>3. OpenHolds' = OpenHolds \ {j} /\ j \in OpenHolds
    BY <1>1, <2>1, <2>2 DEF OpenHolds, Held, Captured, Released, TypeOK
  <2>4. SumFunctionOnSet(Hold, OpenHolds \ {j}) = SumFunctionOnSet(Hold, OpenHolds) - Hold[j]
    BY <2>3, MoneySums, SumRemove DEF OpenHolds
  <2>5. frozen = SumFunctionOnSet(Hold, OpenHolds)
    BY <1>4, MoneyMeans DEF Balanced, Ledger
  <2>. QED BY <1>1, <2>3, <2>4, <2>5
<1>5. MoneyAccounted'
  BY <1>1, <1>2, <1>3, <1>4, MoneyMeans, MoneySums DEF Balanced, Ledger, TypeOK
<1>. QED BY <1>1, <1>5 DEF Ledger, Held, Released, TypeOK

\* A release gives the hold back, or is a phantom.
LEMMA LedgerRelease ==
  ASSUME TypeOK, TypeOK', SettledOnce', Ledger, Disturbed \subseteq Disturbed',
         NEW j \in Jobs, UNCHANGED cost, ReleaseTx(j), "release" \notin claims[j]
  PROVE  Ledger'
<1>1. claims' = [claims EXCEPT ![j] = @ \cup {"release"}]
  BY DEF ReleaseTx, Claim
<1>2. Kept' = Kept
  BY <1>1 DEF Kept, Captured, TypeOK
<1>3. j \notin phantom
  BY DEF Ledger
<1>4. CASE Held(j)
  <2>1. phantom' = phantom /\ balance' = balance + Hold[j] /\ frozen' = frozen - Hold[j]
    BY <1>4 DEF ReleaseTx, Held
  <2>2. ASSUME Disturbed' = {} PROVE frozen' = SumFunctionOnSet(Hold, OpenHolds')
    <3>1. ~Captured(j)
      BY <1>1, <1>3, <2>1, <2>2 DEF SettledOnce, Captured, Released, TypeOK
    <3>2. OpenHolds' = OpenHolds \ {j} /\ j \in OpenHolds
      BY <1>1, <1>3, <1>4, <2>1, <3>1 DEF OpenHolds, Held, Captured, Released, TypeOK
    <3>3. SumFunctionOnSet(Hold, OpenHolds \ {j}) = SumFunctionOnSet(Hold, OpenHolds) - Hold[j]
      BY <3>2, MoneySums, SumRemove DEF OpenHolds
    <3>4. frozen = SumFunctionOnSet(Hold, OpenHolds)
      BY <2>2, MoneyMeans DEF Balanced, Ledger
    <3>. QED BY <2>1, <3>2, <3>3, <3>4
  <2>3. balance' + frozen' = balance + frozen
    BY <2>1, MoneySums DEF TypeOK
  <2>4. MoneyAccounted'
    BY <1>2, <2>2, <2>3, MoneyMeans DEF Balanced, Ledger
  <2>. QED BY <1>1, <1>4, <2>1, <2>4 DEF Ledger, Held, Released, TypeOK
<1>5. CASE ~Held(j)
  <2>1. phantom' = phantom \cup {j} /\ balance' = balance /\ frozen' = frozen
    BY <1>5 DEF ReleaseTx, Held
  <2>2. OpenHolds' = OpenHolds
    BY <1>1, <1>5, <2>1 DEF OpenHolds, Held, Captured, Released, TypeOK
  <2>3. MoneyAccounted'
    BY <1>2, <2>1, <2>2, MoneyMeans DEF Balanced, Ledger
  <2>. QED BY <1>1, <1>5, <2>1, <2>3 DEF Ledger, Held, Released, TypeOK
<1>. QED BY <1>4, <1>5

LEMMA LedgerStep ==
  ASSUME Inv, Ledger, [Next]_vars
  PROVE  Ledger'
<1>1. Inv'
  BY InvStep
<1>2. Disturbed \subseteq Disturbed'
  BY DisturbedGrows DEF Inv
<1>. USE DEF Inv
<1>3. CASE Quiet
  BY <1>1, <1>2, <1>3, LedgerQuiet
<1>4. ASSUME NEW j \in Jobs, Moves(j) PROVE Ledger'
  <2>1. CASE sub[j] = "reserve" /\ ReserveTx(j)
    BY <1>1, <1>2, <1>4, <2>1, LedgerReserve DEF Moves
  <2>2. CASE Capturing(j) /\ CaptureTx(j)
    <3>1. CASE Captured(j)
      <4>1. Quiet
        BY <1>4, <2>2, <3>1 DEF Moves, CaptureTx, Captured, Quiet, moneyVars
      <4>. QED BY <1>1, <1>2, <4>1, LedgerQuiet
    <3>2. CASE ~Captured(j)
      BY <1>1, <1>2, <1>4, <2>2, <3>2, LedgerCapture DEF Moves
    <3>. QED BY <3>1, <3>2
  <2>3. CASE ReleaseTx(j)
    <3>1. CASE "release" \in claims[j]
      <4>1. Quiet
        BY <1>4, <2>3, <3>1 DEF Moves, ReleaseTx, Quiet, moneyVars
      <4>. QED BY <1>1, <1>2, <4>1, LedgerQuiet
    <3>2. CASE "release" \notin claims[j]
      BY <1>1, <1>2, <1>4, <2>3, <3>2, LedgerRelease DEF Moves
    <3>. QED BY <3>1, <3>2
  <2>. QED BY <1>4, <2>1, <2>2, <2>3 DEF Moves
<1>. QED BY <1>3, <1>4, MoneyStep

LEMMA LedgerInit == Init => Ledger
<1>. SUFFICES ASSUME Init PROVE Ledger
  OBVIOUS
<1>. USE BatchAssumption
<1>1. Kept = {} /\ OpenHolds = Jobs \ Fresh
  BY DEF Init, Kept, OpenHolds, Held, Captured, Released
<1>2. SumFunctionOnSet(cost, Kept) = 0
  BY <1>1, SumEmpty
<1>3. MoneyAccounted
  BY <1>1, <1>2, MoneyMeans DEF Balanced, Init
<1>. QED BY <1>3 DEF Init, Ledger, Held, Released

\* What the user has and what was kept for captured jobs is what he began
\* with, and while no job was settled twice his frozen balance is what the
\* open holds add up to: for any number of jobs, workers and failures.
THEOREM MoneyKept == Spec => []MoneyAccounted
<1>1. Inv /\ Ledger /\ [Next]_vars => Ledger'
  BY LedgerStep
<1>2. Ledger => MoneyAccounted
  BY DEF Ledger
<1>. QED BY <1>1, <1>2, LedgerInit, Invariance, PTL DEF Spec
-----------------------------------------------------------------------------
(* The status goes forward.  A step leaves it alone, or writes the status   *)
(* of one job: after looking at the row, or as a failed submission.         *)

Stays == UNCHANGED status
Writes(j) == \E s \in {"created", "uploading", "submitted", "running", "indexing", "settling",
                       "completed", "failed", "cancelled"} :
    /\ status' = [status EXCEPT ![j] = s]
    /\ \/ CanTransition(status[j], s)
       \/ status[j] = "none" /\ s = "created"
       \/ status[j] = "settling" /\ s = "completed"
       \/ s = "failed" /\ status[j] # "none" /\ j \notin submitted

\* What a step does to the status.
LEMMA StatusStep ==
  ASSUME TypeOK, Places, Working, [Next]_vars
  PROVE  Stays \/ \E j \in Jobs : Writes(j)
<1>. USE DEF Stays, jobVars
<1>1. ASSUME NEW i \in Jobs, Create(i) PROVE Stays \/ \E j \in Jobs : Writes(j)
  <2>1. Stays \/ Writes(i)
    BY <1>1 DEF Create, Writes, SetStatus, KeepStatus, TypeOK, Places
  <2>. QED BY <2>1
<1>2. ASSUME NEW i \in Jobs, Reserve(i) PROVE Stays \/ \E j \in Jobs : Writes(j)
  BY <1>2 DEF Reserve
<1>3. ASSUME NEW i \in Jobs, CreateItems(i) PROVE Stays \/ \E j \in Jobs : Writes(j)
  BY <1>3 DEF CreateItems
<1>4. ASSUME NEW i \in Jobs, StartUpload(i) PROVE Stays \/ \E j \in Jobs : Writes(j)
  <2>1. Stays \/ Writes(i)
    BY <1>4 DEF StartUpload, Writes, SetStatus, KeepStatus
  <2>. QED BY <2>1
<1>5. ASSUME NEW i \in Jobs, ProviderSubmit(i) PROVE Stays \/ \E j \in Jobs : Writes(j)
  BY <1>5 DEF ProviderSubmit
<1>6. ASSUME NEW i \in Jobs, TouchSubmitting(i) PROVE Stays \/ \E j \in Jobs : Writes(j)
  BY <1>6 DEF TouchSubmitting
<1>7. ASSUME NEW i \in Jobs, RecordSubmit(i) PROVE Stays \/ \E j \in Jobs : Writes(j)
  <2>1. Stays \/ Writes(i)
    BY <1>7 DEF RecordSubmit, Writes, SetStatus, KeepStatus
  <2>. QED BY <2>1
<1>8. ASSUME NEW i \in Jobs, SubEnqueue(i) PROVE Stays \/ \E j \in Jobs : Writes(j)
  BY <1>8 DEF SubEnqueue
<1>9. ASSUME NEW i \in Jobs, SubRelease(i) PROVE Stays \/ \E j \in Jobs : Writes(j)
  BY <1>9 DEF SubRelease
<1>10. ASSUME NEW i \in Jobs, GiveUp(i) PROVE Stays \/ \E j \in Jobs : Writes(j)
  <2>1. Stays \/ Writes(i)
    BY <1>10 DEF GiveUp, Writes, SetStatus, KeepStatus, TypeOK, Places
  <2>. QED BY <2>1
<1>11. ASSUME NEW i \in Jobs, MarkFailed(i) PROVE Stays \/ \E j \in Jobs : Writes(j)
  <2>1. Stays \/ Writes(i)
    BY <1>11 DEF MarkFailed, Writes, SetStatus, KeepStatus, TypeOK, Places
  <2>. QED BY <2>1
<1>12. ASSUME NEW i \in Jobs, SubStops(i) PROVE Stays \/ \E j \in Jobs : Writes(j)
  BY <1>12 DEF SubStops
<1>13. ASSUME NEW i \in Jobs, Resubmit(i) PROVE Stays \/ \E j \in Jobs : Writes(j)
  BY <1>13 DEF Resubmit
<1>14. ASSUME NEW i \in Jobs, Age(i) PROVE Stays \/ \E j \in Jobs : Writes(j)
  BY <1>14 DEF Age
<1>15. ASSUME NEW i \in Jobs, CancelRead(i) PROVE Stays \/ \E j \in Jobs : Writes(j)
  BY <1>15 DEF CancelRead
<1>16. ASSUME NEW i \in Jobs, CancelTransition(i) PROVE Stays \/ \E j \in Jobs : Writes(j)
  <2>1. Stays \/ Writes(i)
    BY <1>16 DEF CancelTransition, Writes, SetStatus, KeepStatus
  <2>. QED BY <2>1
<1>17. ASSUME NEW i \in Jobs, CancelEnqueue(i) PROVE Stays \/ \E j \in Jobs : Writes(j)
  BY <1>17 DEF CancelEnqueue
<1>18. ASSUME NEW i \in Jobs, RecoverFail(i) PROVE Stays \/ \E j \in Jobs : Writes(j)
  <2>1. Stays \/ Writes(i)
    BY <1>18 DEF RecoverFail, Writes, SetStatus, KeepStatus, Unsubmitted
  <2>. QED BY <2>1
<1>19. ASSUME NEW i \in Jobs, ProvFinish(i) PROVE Stays \/ \E j \in Jobs : Writes(j)
  BY <1>19 DEF ProvFinish
<1>20. ASSUME NEW i \in Jobs, NEW c \in Cleaners, CleanRelease(c, i) PROVE Stays \/ \E j \in Jobs : Writes(j)
  BY <1>20 DEF CleanRelease
<1>21. ASSUME NEW i \in Jobs, NEW c \in Cleaners, CleanRetry(c, i) PROVE Stays \/ \E j \in Jobs : Writes(j)
  BY <1>21 DEF CleanRetry
<1>22. ASSUME NEW i \in Jobs, NEW c \in Cleaners, CleanStops(c, i) PROVE Stays \/ \E j \in Jobs : Writes(j)
  BY <1>22 DEF CleanStops
<1>23. ASSUME NEW w \in Workers, NEW i \in Jobs, Take(w, i) PROVE Stays \/ \E j \in Jobs : Writes(j)
  BY <1>23 DEF Take
<1>24. ASSUME NEW w \in Workers, Process(w) PROVE Stays \/ \E j \in Jobs : Writes(j)
  BY <1>24 DEF Process
<1>25. ASSUME NEW w \in Workers, Poll(w) PROVE Stays \/ \E j \in Jobs : Writes(j)
  BY <1>25 DEF Poll
<1>26. ASSUME NEW w \in Workers, WorkTransition(w) PROVE Stays \/ \E j \in Jobs : Writes(j)
  <2>1. wjob[w] \in Jobs
    BY <1>26 DEF WorkTransition, TypeOK, Working, SettlePcs
  <2>2. Stays \/ Writes(wjob[w])
    BY <1>26, <2>1 DEF WorkTransition, Writes, SetStatus, KeepStatus
  <2>. QED BY <2>1, <2>2
<1>27. ASSUME NEW w \in Workers, Index(w) PROVE Stays \/ \E j \in Jobs : Writes(j)
  BY <1>27 DEF Index
<1>28. ASSUME NEW w \in Workers, Settle(w) PROVE Stays \/ \E j \in Jobs : Writes(j)
  BY <1>28 DEF Settle
<1>29. ASSUME NEW w \in Workers, Capture(w) PROVE Stays \/ \E j \in Jobs : Writes(j)
  BY <1>29 DEF Capture
<1>30. ASSUME NEW w \in Workers, Mark(w) PROVE Stays \/ \E j \in Jobs : Writes(j)
  <2>1. wjob[w] \in Jobs
    BY <1>30 DEF Mark, TypeOK, Working, SettlePcs
  <2>2. Stays \/ Writes(wjob[w])
    BY <1>30, <2>1 DEF Mark, Writes, SetStatus, KeepStatus
  <2>. QED BY <2>1, <2>2
<1>31. ASSUME NEW w \in Workers, Note(w) PROVE Stays \/ \E j \in Jobs : Writes(j)
  BY <1>31 DEF Note
<1>32. ASSUME NEW w \in Workers, ExhaustRelease(w) PROVE Stays \/ \E j \in Jobs : Writes(j)
  BY <1>32 DEF ExhaustRelease
<1>33. ASSUME NEW w \in Workers, FailExhausted(w) PROVE Stays \/ \E j \in Jobs : Writes(j)
  <2>1. wjob[w] \in Jobs
    BY <1>33 DEF FailExhausted, TypeOK, Working, SettlePcs
  <2>2. Stays \/ Writes(wjob[w])
    BY <1>33, <2>1 DEF FailExhausted, Writes, SetStatus, KeepStatus
  <2>. QED BY <2>1, <2>2
<1>34. ASSUME NEW w \in Workers, Reread(w) PROVE Stays \/ \E j \in Jobs : Writes(j)
  BY <1>34 DEF Reread
<1>35. ASSUME NEW w \in Workers, ReleaseTerminal(w) PROVE Stays \/ \E j \in Jobs : Writes(j)
  BY <1>35 DEF ReleaseTerminal
<1>36. ASSUME NEW w \in Workers, Ack(w) PROVE Stays \/ \E j \in Jobs : Writes(j)
  BY <1>36 DEF Ack
<1>37. ASSUME NEW w \in Workers, WorkerStops(w) PROVE Stays \/ \E j \in Jobs : Writes(j)
  BY <1>37 DEF WorkerStops
<1>38. ASSUME UNCHANGED vars PROVE Stays \/ \E j \in Jobs : Writes(j)
  BY <1>38 DEF vars
<1>. HIDE DEF Stays, jobVars
<1>. QED BY <1>1, <1>2, <1>3, <1>4, <1>5, <1>6, <1>7, <1>8, <1>9,
           <1>10, <1>11, <1>12, <1>13, <1>14, <1>15, <1>16, <1>17, <1>18,
           <1>19, <1>20, <1>21, <1>22, <1>23, <1>24, <1>25, <1>26, <1>27,
           <1>28, <1>29, <1>30, <1>31, <1>32, <1>33, <1>34, <1>35, <1>36,
           <1>37, <1>38
         DEF Next, SubmitNext, CleanNext, WorkNext

\* What CanTransitionBatchImageJob allows goes forward.
LEMMA GoesForward ==
  ASSUME NEW j \in Jobs, TypeOK, NEW to, CanTransition(status[j], to)
  PROVE  Advances(status[j], to)
  BY DEF CanTransition, Advances, Rank, Terminal, Lost, Unsubmitted, TypeOK

\* The blind write of a failed submission only meets a job that the provider
\* never had: one that is not submitted yet, or has ended already.
LEMMA ForwardStep ==
  ASSUME TypeOK, Places, Working, [Next]_vars, NEW j \in Jobs
  PROVE  Advances(status[j], status'[j])
<1>1. CASE Stays
  BY <1>1 DEF Stays, Advances
<1>2. ASSUME NEW i \in Jobs, Writes(i) PROVE Advances(status[j], status'[j])
  <2>1. PICK s : /\ status' = [status EXCEPT ![i] = s]
                 /\ \/ CanTransition(status[i], s)
                    \/ status[i] = "none" /\ s = "created"
                    \/ status[i] = "settling" /\ s = "completed"
                    \/ s = "failed" /\ status[i] # "none" /\ i \notin submitted
    BY <1>2 DEF Writes
  <2>2. CASE i # j
    BY <2>1, <2>2 DEF Advances, TypeOK
  <2>3. CASE i = j
    <3>1. status'[j] = s
      BY <2>1, <2>3 DEF TypeOK
    <3>2. CASE CanTransition(status[i], s)
      BY <2>3, <3>1, <3>2, GoesForward
    <3>3. CASE \/ status[i] = "none" /\ s = "created"
               \/ status[i] = "settling" /\ s = "completed"
      BY <2>3, <3>1, <3>3 DEF Advances, Rank, Terminal, Lost
    <3>4. CASE s = "failed" /\ status[i] # "none" /\ i \notin submitted
      <4>1. status[i] \in {"created", "uploading", "failed", "cancelled"}
        BY <3>4 DEF Places, Going, TypeOK
      <4>. QED BY <2>3, <3>1, <3>4, <4>1 DEF Advances, Rank, Terminal, Lost
    <3>. QED BY <2>1, <3>2, <3>3, <3>4, Zenon
  <2>. QED BY <2>2, <2>3
<1>. QED BY <1>1, <1>2, StatusStep

\* A job's status only goes forward, for any number of jobs, workers and
\* failures: nothing that was read late takes a job back or revives it.
THEOREM ForwardOnly == Spec => StatusForward
<1>1. ASSUME Inv, [Next]_vars
      PROVE  [\A j \in Jobs : Advances(status[j], status'[j])]_vars
  BY <1>1, ForwardStep DEF Inv
<1>. QED BY <1>1, Invariance, PTL DEF Spec, StatusForward
=============================================================================
