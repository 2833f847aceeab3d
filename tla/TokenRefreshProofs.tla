-------------------------- MODULE TokenRefreshProofs --------------------------
(***************************************************************************)
(* Proofs about the refresh of rotating tokens, for every set of workers   *)
(* and processes and any number of attempts, faults, expiries and          *)
(* overlapping operations of administrators.                               *)
(***************************************************************************)
EXTENDS TokenRefresh, TLAPS

WorkerType == [pc : PCs, held : Docs, snap : Docs, owns : BOOLEAN,
               tries : 0 .. (MaxAttempts - 1), sawCool : BOOLEAN,
               then : {"idle", "retry", "mark", "post"}]

RowType == [doc : Docs, status : {"active", "error"}, due : BOOLEAN, cooldown : BOOLEAN]
AdminType == [pc : {"idle", "call", "write", "clear"}, kind : {"edit", "reauth", "refresh"},
              doc : Docs, status : {"active", "error"}, due : BOOLEAN]
Blames == {"unlocked", "lost", "clobbered", "stale mark", "not cleared", "stale error"}

Data == /\ row \in RowType /\ live \subseteq Nat \X Nat
        /\ worker \in [Workers -> WorkerType] /\ admin \in [Operations -> AdminType]
Flags == /\ platform \in {"grok", "other"} /\ lock \in BOOLEAN /\ blame \subseteq Blames
         /\ overtaken \subseteq Operations
         /\ faults \in 0 .. MaxFaults /\ dues \in 0 .. MaxDue /\ admins \in 0 .. MaxAdmin

LEMMA TypeParts == TypeOK <=> Data /\ Flags
    BY DEF TypeOK, Data, Flags, RowType, AdminType, WorkerType, Blames

LEMMA Bounds ==
    /\ MaxFaults \in Nat /\ MaxDue \in Nat /\ MaxAdmin \in Nat
    /\ \A m \in Nat : 0 \in 0 .. m
    /\ \A m \in Nat, n \in Nat : n < m => n + 1 \in 0 .. m
    /\ \A m \in Nat, n \in Nat : n < m => n + 1 \in 1 .. m
    BY RefreshAssumption

LEMMA Ranges == \A m \in Nat : \A x \in 0 .. m : x \in Nat
    OBVIOUS

LEMMA ConfigType == ASSUME NEW d \in Docs PROVE [d EXCEPT !.cfg = @ + 1] \in Docs
    BY DEF Docs

LEMMA NewType ==
    ASSUME NEW g \in Nat, NEW d \in Docs
    PROVE  [grant |-> g + 1, n |-> 0, cfg |-> d.cfg] \in Docs
    BY DEF Docs

LEMMA DocFacts ==
    ASSUME NEW d \in Docs
    PROVE  /\ Rotated(d) \in Docs
           /\ Rotated(d).grant = d.grant /\ Rotated(d).n = d.n + 1
           /\ Token(d) \in Nat \X Nat
    BY DEF Docs, Rotated, Token

LEMMA IdleType == Idle \in WorkerType /\ AdminIdle \in AdminType /\ First \in Docs
    BY RefreshAssumption DEF Idle, WorkerType, AdminIdle, AdminType, First, Docs, PCs, Inside

\* What leaving RefreshIfNeeded and going on do to the types.
LEMMA LeaveType ==
    ASSUME worker \in [Workers -> WorkerType], NEW w \in Workers,
           NEW p \in {"idle", "retry", "mark", "post"}, NEW d \in Docs, Leave(w, p, d)
    PROVE  worker' \in [Workers -> WorkerType]
    BY IdleType DEF Leave, WorkerType, PCs, Inside

LEMMA GotoType ==
    ASSUME worker \in [Workers -> WorkerType], NEW w \in Workers, NEW p \in PCs, Goto(w, p)
    PROVE  worker' \in [Workers -> WorkerType]
    BY DEF Goto, WorkerType

LEMMA RetryType ==
    ASSUME NEW r \in WorkerType
    PROVE  /\ [r EXCEPT !.pc = "cool"] \in WorkerType
           /\ r.tries + 1 < MaxAttempts =>
                [r EXCEPT !.pc = "lock", !.tries = r.tries + 1] \in WorkerType
  <1>1. r.tries \in 0 .. (MaxAttempts - 1)
    BY DEF WorkerType
  <1>2. r.tries + 1 < MaxAttempts => r.tries + 1 \in 0 .. (MaxAttempts - 1)
    BY <1>1, RefreshAssumption
  <1>3. [r EXCEPT !.pc = "cool"] \in WorkerType
    BY DEF WorkerType, PCs
  <1>4. ASSUME NEW t \in 0 .. (MaxAttempts - 1)
        PROVE  [r EXCEPT !.pc = "lock", !.tries = t] \in WorkerType
    BY DEF WorkerType, PCs
  <1>. QED
    BY <1>2, <1>3, <1>4

LEMMA FaultType ==
    ASSUME faults \in 0 .. MaxFaults, Fault \/ NoFault
    PROVE  faults' \in 0 .. MaxFaults
    BY RefreshAssumption DEF Fault, NoFault

LEMMA GrantType ==
    ASSUME live \subseteq Nat \X Nat, NEW d \in Docs, Grant(d)
    PROVE  live' \subseteq Nat \X Nat
    BY DocFacts DEF Grant

-----------------------------------------------------------------------------
(* Type correctness. *)

LEMMA TypeInit == Init => TypeOK
  <1>. SUFFICES ASSUME Init PROVE TypeOK
    OBVIOUS
  <1>1. Data
    BY IdleType, DocFacts DEF Init, Data, RowType
  <1>2. Flags
    <2>1. faults \in 0 .. MaxFaults /\ dues \in 0 .. MaxDue /\ admins \in 0 .. MaxAdmin
      BY Bounds DEF Init
    <2>. QED
      BY <2>1 DEF Init, Flags, Blames
  <1>. QED
    BY <1>1, <1>2, TypeParts

LEMMA TypeAttempt ==
    ASSUME TypeOK, NEW w \in Workers, Start(w) \/ Attempt(w)
    PROVE  TypeOK'
  <1>. SUFFICES Data' /\ Flags'
    BY DEF TypeOK, Data, Flags, RowType, AdminType, WorkerType, Blames
  <1>. USE TypeParts DEF Data, Flags, WorkerType, RowType, Blames, adminVars
  <1>0. worker \in [Workers -> WorkerType] /\ worker[w] \in WorkerType
    OBVIOUS
  <1>1. CASE Start(w)
    BY <1>0, <1>1, IdleType DEF Start, Idle, PCs, Inside
  <1>2. CASE Acquire(w)
    <2>1. faults' \in 0 .. MaxFaults
      BY <1>2, FaultType DEF Acquire
    <2>2. worker' \in [Workers -> WorkerType]
      <3>1. CASE Goto(w, "read")
        BY <1>0, <3>1, GotoType DEF PCs, Inside
      <3>2. CASE worker' = [worker EXCEPT ![w].pc = "read", ![w].owns = TRUE]
        BY <1>0, <3>2 DEF PCs, Inside
      <3>3. CASE worker' = [worker EXCEPT ![w] = Idle]
        BY <1>0, <3>3, IdleType
      <3>. QED
        BY <1>2, <3>1, <3>2, <3>3 DEF Acquire
    <2>. QED
      BY <1>2, <2>1, <2>2 DEF Acquire, Blame
  <1>3. CASE MutexTimeout(w)
    BY <1>0, <1>3, IdleType, FaultType DEF MutexTimeout, PCs, Inside
  <1>4. CASE Reread(w)
    <2>1. faults' \in 0 .. MaxFaults
      BY <1>4, FaultType DEF Reread
    <2>2. worker' \in [Workers -> WorkerType]
      <3>1. CASE LeaveDone(w)
        BY <1>0, <3>1, LeaveType, IdleType DEF LeaveDone
      <3>2. CASE worker' = [worker EXCEPT ![w].pc = "refresh", ![w].snap = row.doc,
                                          ![w].sawCool = row.cooldown]
        BY <1>0, <3>2 DEF PCs, Inside
      <3>. QED
        BY <1>4, <3>1, <3>2 DEF Reread
    <2>. QED
      BY <1>4, <2>1, <2>2 DEF Reread
  <1>5. CASE Refresh(w)
    <2>1. faults' \in 0 .. MaxFaults
      BY <1>5, FaultType DEF Refresh
    <2>2. worker' \in [Workers -> WorkerType]
      <3>1. CASE Goto(w, "persist") \/ Goto(w, "recover")
        BY <1>0, <3>1, GotoType DEF PCs, Inside
      <3>2. ASSUME NEW h \in {worker[w].snap, worker[w].held},
                   Leave(w, AfterFailure(w), h)
            PROVE  worker' \in [Workers -> WorkerType]
        BY <1>0, <3>2, LeaveType DEF AfterFailure
      <3>. QED
        BY <1>5, <3>1, <3>2 DEF Refresh
    <2>3. live' \subseteq Nat \X Nat
      BY <1>0, <1>5, GrantType DEF Refresh
    <2>. QED
      BY <1>5, <2>1, <2>2, <2>3 DEF Refresh, Blame
  <1>6. CASE Recover(w)
    <2>1. faults' \in 0 .. MaxFaults
      BY <1>6, FaultType DEF Recover
    <2>2. worker' \in [Workers -> WorkerType]
      BY <1>0, <1>6, LeaveType, IdleType DEF Recover, LeaveDone
    <2>. QED
      BY <1>6, <2>1, <2>2 DEF Recover
  <1>7. CASE Persist(w)
    <2>0. PersistGrok(w) \/ PersistOther(w)
      BY <1>7 DEF Persist
    <2>1. faults' \in 0 .. MaxFaults
      BY <2>0, FaultType DEF PersistGrok, PersistOther
    <2>2. worker' \in [Workers -> WorkerType]
      BY <1>0, <2>0, LeaveType, IdleType
         DEF PersistGrok, PersistOther, LeaveDone, LeaveStored, AfterFailure
    <2>3. row' \in RowType
      <3>1. row' = row \/ Store(worker[w].snap)
        BY <2>0 DEF PersistGrok, PersistOther
      <3>2. Rotated(worker[w].snap) \in Docs
        BY <1>0, DocFacts
      <3>. QED
        BY <3>1, <3>2 DEF Store
    <2>4. blame' \subseteq Blames
      BY <2>0 DEF PersistGrok, PersistOther, Blame
    <2>. QED
      BY <1>7, <2>1, <2>2, <2>3, <2>4 DEF Persist
  <1>8. CASE Release(w)
    <2>1. faults' \in 0 .. MaxFaults
      BY <1>8, FaultType DEF Release
    <2>2. worker' \in [Workers -> WorkerType]
      BY <1>0, <1>8, IdleType DEF Release, PCs
    <2>. QED
      BY <1>8, <2>1, <2>2 DEF Release
  <1>. QED
    BY <1>1, <1>2, <1>3, <1>4, <1>5, <1>6, <1>7, <1>8 DEF Attempt

LEMMA TypeOutcome ==
    ASSUME TypeOK, NEW w \in Workers, Outcome(w)
    PROVE  TypeOK'
  <1>. SUFFICES Data' /\ Flags'
    BY DEF TypeOK, Data, Flags, RowType, AdminType, WorkerType, Blames
  <1>. USE TypeParts DEF Data, Flags, RowType, Blames, adminVars
  <1>0. worker \in [Workers -> WorkerType] /\ worker[w] \in WorkerType
    OBVIOUS
  <1>1. CASE Retry(w)
    <2>1. \/ worker' = [worker EXCEPT ![w] = [worker[w] EXCEPT !.pc = "cool"]]
          \/ /\ worker[w].tries + 1 < MaxAttempts
             /\ worker' = [worker EXCEPT ![w] =
                   [worker[w] EXCEPT !.pc = "lock", !.tries = worker[w].tries + 1]]
      BY <1>1 DEF Retry
    <2>2. worker' \in [Workers -> WorkerType]
      BY <1>0, <2>1, RetryType
    <2>. QED
      BY <1>1, <2>2 DEF Retry
  <1>2. CASE Mark(w)
    BY <1>0, <1>2, IdleType, FaultType DEF Mark, Blame
  <1>3. CASE Cool(w)
    BY <1>0, <1>3, IdleType DEF Cool
  <1>4. CASE PostRefresh(w)
    BY <1>0, <1>4, IdleType DEF PostRefresh
  <1>. QED
    BY <1>1, <1>2, <1>3, <1>4 DEF Outcome

LEMMA TypeAdmin ==
    ASSUME TypeOK, Admin
    PROVE  TypeOK'
  <1>. SUFFICES Data' /\ Flags'
    BY DEF TypeOK, Data, Flags, RowType, AdminType, WorkerType, Blames
  <1>. USE TypeParts DEF Data, Flags, Blames, adminVars
  <1>0. /\ row.doc \in Docs /\ AdminIdle \in AdminType
        /\ \A a \in Operations : admin[a] \in AdminType /\ admin[a].doc \in Docs
    BY IdleType DEF AdminType, RowType
  <1>1. CASE AdminBegin
    <2>. DEFINE a == admins + 1
                New == [grant |-> a, n |-> 0, cfg |-> row.doc.cfg]
    <2>0. admins \in Nat
      <3>1. admins \in 0 .. MaxAdmin
        OBVIOUS
      <3>. QED
        BY <3>1, Bounds, Ranges, Zenon
    <2>1. New \in Docs /\ admins' \in 0 .. MaxAdmin /\ a \in Operations
      BY <1>0, <1>1, <2>0, NewType, Bounds DEF AdminBegin, Operations
    <2>2. Token(New) \in Nat \X Nat
      BY <2>1, DocFacts
    <2>3. \/ UNCHANGED live /\ \E kind \in {"edit", "refresh"} : ReadRow(a, kind, row.doc)
          \/ ReadRow(a, "reauth", New) /\ \E kept \in {live, {}} : live' = kept \cup {Token(New)}
      BY <1>1 DEF AdminBegin
    <2>. HIDE DEF New, a
    <2>4. live' \subseteq Nat \X Nat
      BY <2>2, <2>3
    <2>5. admin' \in [Operations -> AdminType]
      <3>1. ASSUME NEW kind \in {"edit", "reauth", "refresh"}, NEW d \in Docs, ReadRow(a, kind, d)
            PROVE  admin' \in [Operations -> AdminType]
        BY <2>1, <3>1 DEF ReadRow, AdminType, RowType
      <3>. QED
        BY <1>0, <2>1, <2>3, <3>1
    <2>. QED
      BY <1>1, <2>1, <2>4, <2>5 DEF AdminBegin
  <1>2. ASSUME NEW a \in Operations, AdminCall(a) PROVE Data' /\ Flags'
    <2>1. live' \subseteq Nat \X Nat
      BY <1>0, <1>2, GrantType DEF AdminCall
    <2>2. Rotated(admin[a].doc) \in Docs
      BY <1>0, DocFacts
    <2>3. admin' \in [Operations -> AdminType]
      <3>. DEFINE r == [admin[a] EXCEPT !.pc = "write", !.doc = Rotated(admin[a].doc),
                                        !.status = row.status, !.due = FALSE]
      <3>1. r \in AdminType
        BY <1>0, <2>2 DEF AdminType, RowType
      <3>2. admin' = [admin EXCEPT ![a] = r] \/ admin' = [admin EXCEPT ![a] = AdminIdle]
        BY <1>2 DEF AdminCall
      <3>. HIDE DEF r
      <3>. QED
        BY <1>0, <3>1, <3>2
    <2>. QED
      BY <1>2, <2>1, <2>3, FaultType DEF AdminCall, Blame
  <1>3. ASSUME NEW a \in Operations, AdminWrite(a) PROVE Data' /\ Flags'
    <2>1. row' \in RowType
      <3>1. [admin[a].doc EXCEPT !.cfg = @ + 1] \in Docs
        BY <1>0, ConfigType
      <3>2. \/ UNCHANGED row
            \/ \E new \in {admin[a].doc, [admin[a].doc EXCEPT !.cfg = @ + 1]}, b \in BOOLEAN :
                  row' = [row EXCEPT !.doc = new, !.status = admin[a].status, !.due = b]
        BY <1>0, <1>3 DEF AdminWrite, AdminType
      <3>3. ASSUME NEW new \in Docs, NEW b \in BOOLEAN,
                   row' = [row EXCEPT !.doc = new, !.status = admin[a].status, !.due = b]
            PROVE  row' \in RowType
        BY <1>0, <3>3 DEF AdminType, RowType
      <3>4. UNCHANGED row => row' \in RowType
        OBVIOUS
      <3>. QED
        BY <1>0, <3>1, <3>2, <3>3, <3>4
    <2>2. admin' \in [Operations -> AdminType]
      <3>1. \/ admin' = [admin EXCEPT ![a] = AdminIdle]
            \/ admin' = [admin EXCEPT ![a] = [admin[a] EXCEPT !.pc = "clear"]]
        BY <1>3 DEF AdminWrite
      <3>2. [admin[a] EXCEPT !.pc = "clear"] \in AdminType
        BY <1>0 DEF AdminType
      <3>. QED
        BY <1>0, <3>1, <3>2
    <2>3. faults' \in 0 .. MaxFaults /\ blame' \subseteq Blames /\ overtaken' \subseteq Operations
      BY <1>3, FaultType DEF AdminWrite, Blame
    <2>. QED
      BY <1>3, <2>1, <2>2, <2>3 DEF AdminWrite
  <1>4. ASSUME NEW a \in Operations, AdminClear(a) PROVE Data' /\ Flags'
    BY <1>0, <1>4, FaultType DEF AdminClear, Blame, RowType
  <1>. QED
    BY <1>1, <1>2, <1>3, <1>4 DEF Admin

LEMMA TypeRest ==
    ASSUME TypeOK, BecomeDue \/ CooldownEnds \/ LeaseEnds \/ \E p \in Processes : Crash(p)
    PROVE  TypeOK'
  <1>. SUFFICES Data' /\ Flags'
    BY DEF TypeOK, Data, Flags, RowType, AdminType, WorkerType, Blames
  <1>. USE TypeParts DEF Data, Flags, Blames, adminVars
  <1>1. CASE BecomeDue
    <2>0. dues \in Nat
      <3>1. dues \in 0 .. MaxDue
        OBVIOUS
      <3>. QED
        BY <3>1, Bounds, Ranges, Zenon
    <2>1. dues' \in 0 .. MaxDue
      BY <1>1, <2>0, Bounds DEF BecomeDue
    <2>. QED
      BY <1>1, <2>1 DEF BecomeDue, RowType
  <1>2. CASE CooldownEnds
    BY <1>2 DEF CooldownEnds, RowType
  <1>3. CASE LeaseEnds
    BY <1>3, FaultType DEF LeaseEnds, Blame
  <1>4. ASSUME NEW p \in Processes, Crash(p) PROVE Data' /\ Flags'
    BY <1>4, IdleType, FaultType DEF Crash, Blame
  <1>. QED
    BY <1>1, <1>2, <1>3, <1>4

LEMMA TypeNext == TypeOK /\ [Next]_vars => TypeOK'
  <1>. SUFFICES ASSUME TypeOK, [Next]_vars PROVE TypeOK'
    OBVIOUS
  <1>1. CASE UNCHANGED vars
    BY <1>1 DEF vars, TypeOK
  <1>. QED
    BY <1>1, TypeAttempt, TypeOutcome, TypeAdmin, TypeRest DEF Next

(* Account, provider, lock, workers and administrator keep their types.     *)
THEOREM TypeCorrect == Spec => []TypeOK
  BY TypeInit, TypeNext, PTL DEF Spec

-----------------------------------------------------------------------------
(* One refresher at a time. *)

Locked ==
    /\ \A w \in Workers : worker[w].owns => worker[w].pc \in Inside
    /\ "unlocked" \notin blame =>
          /\ \A w \in Workers : worker[w].pc \in Inside => worker[w].owns
          /\ \A w \in Workers : worker[w].owns => lock
          /\ \A v, w \in Workers : worker[v].owns /\ worker[w].owns => v = w

\* What a step of a worker does to its place and to its claim on the lock.
LEMMA AttemptShape ==
    ASSUME TypeOK, NEW w \in Workers, Reread(w) \/ Refresh(w) \/ Recover(w) \/ Persist(w)
    PROVE  /\ \A v \in Workers \ {w} : worker'[v] = worker[v]
           /\ worker[w].pc \in Inside /\ worker'[w].pc \in Inside
           /\ worker'[w].owns = worker[w].owns
           /\ lock' = lock /\ blame \subseteq blame'
           /\ "unlocked" \in blame' => "unlocked" \in blame
  <1>0. worker \in [Workers -> WorkerType]
    BY TypeParts DEF Data
  <1>1. ASSUME NEW p, NEW d, Leave(w, p, d)
        PROVE  /\ \A v \in Workers \ {w} : worker'[v] = worker[v]
               /\ worker'[w].pc \in Inside /\ worker'[w].owns = worker[w].owns
    BY <1>0, <1>1 DEF Leave, WorkerType, Inside
  <1>2. ASSUME NEW p \in Inside, Goto(w, p)
        PROVE  /\ \A v \in Workers \ {w} : worker'[v] = worker[v]
               /\ worker'[w].pc \in Inside /\ worker'[w].owns = worker[w].owns
    BY <1>0, <1>2 DEF Goto, WorkerType
  <1>3. CASE Reread(w)
    BY <1>0, <1>1, <1>3 DEF Reread, LeaveDone, WorkerType, Inside
  <1>4. CASE Refresh(w)
    BY <1>0, <1>1, <1>2, <1>4 DEF Refresh, Inside, Blame
  <1>5. CASE Recover(w)
    BY <1>1, <1>5 DEF Recover, LeaveDone, Inside
  <1>6. CASE Persist(w)
    BY <1>1, <1>6 DEF Persist, PersistGrok, PersistOther, LeaveDone, LeaveStored, Inside, Blame
  <1>. QED
    BY <1>3, <1>4, <1>5, <1>6

LEMMA OutsideShape ==
    ASSUME TypeOK, NEW w \in Workers, Start(w) \/ MutexTimeout(w) \/ Outcome(w)
    PROVE  /\ \A v \in Workers \ {w} : worker'[v] = worker[v]
           /\ worker[w].pc \notin Inside /\ worker'[w].pc \notin Inside
           /\ worker'[w].owns => worker[w].owns
           /\ lock' = lock /\ blame \subseteq blame'
           /\ "unlocked" \in blame' => "unlocked" \in blame
  <1>0. worker \in [Workers -> WorkerType]
    BY TypeParts DEF Data
  <1>1. CASE Start(w)
    BY <1>0, <1>1 DEF Start, Idle, Inside, WorkerType
  <1>4. CASE MutexTimeout(w)
    BY <1>0, <1>4 DEF MutexTimeout, Idle, Inside, WorkerType
  <1>2. CASE Retry(w)
    BY <1>0, <1>2 DEF Retry, Inside, WorkerType
  <1>3. CASE Mark(w)
    BY <1>0, <1>3 DEF Mark, Idle, Inside, Blame
  <1>5. CASE Cool(w)
    BY <1>0, <1>5 DEF Cool, Idle, Inside
  <1>6. CASE PostRefresh(w)
    BY <1>0, <1>6 DEF PostRefresh, Idle, Inside
  <1>. QED
    BY <1>1, <1>2, <1>3, <1>4, <1>5, <1>6 DEF Outcome

LEMMA LockedNext == TypeOK /\ Locked /\ [Next]_vars => Locked'
  <1>. SUFFICES ASSUME TypeOK, Locked, [Next]_vars PROVE Locked'
    OBVIOUS
  <1>0. worker \in [Workers -> WorkerType]
    BY TypeParts DEF Data
  <1>1. ASSUME NEW w \in Workers, Start(w) \/ MutexTimeout(w) \/ Outcome(w) PROVE Locked'
    BY <1>1, OutsideShape DEF Locked
  <1>2. ASSUME NEW w \in Workers, Reread(w) \/ Refresh(w) \/ Recover(w) \/ Persist(w)
        PROVE  Locked'
    BY <1>2, AttemptShape DEF Locked
  <1>3. ASSUME NEW w \in Workers, Acquire(w) PROVE Locked'
    <2>0. worker[w].pc \notin Inside /\ ~worker[w].owns
      BY <1>0, <1>3 DEF Acquire, Inside, Locked
    <2>1. CASE lock' = TRUE /\ ~lock /\ UNCHANGED blame
               /\ worker' = [worker EXCEPT ![w].pc = "read", ![w].owns = TRUE]
      BY <1>0, <2>0, <2>1 DEF Locked, Inside, WorkerType
    <2>2. CASE worker' = [worker EXCEPT ![w] = Idle] /\ UNCHANGED <<lock, blame>>
      BY <1>0, <2>0, <2>2 DEF Locked, Idle, Inside
    <2>3. CASE Goto(w, "read") /\ Blame("unlocked", TRUE)
      BY <1>0, <2>0, <2>3 DEF Locked, Goto, Blame, Inside, WorkerType
    <2>. QED
      BY <1>3, <2>1, <2>2, <2>3 DEF Acquire
  <1>4. ASSUME NEW w \in Workers, Release(w) PROVE Locked'
    <2>0. worker[w].pc \in Inside
      BY <1>4 DEF Release, Inside
    <2>1. /\ \A v \in Workers \ {w} : worker'[v] = worker[v]
          /\ worker'[w].pc \notin Inside /\ ~worker'[w].owns
      BY <1>0, <1>4 DEF Release, Idle, Inside, WorkerType
    <2>2. UNCHANGED blame /\ (lock' = (lock /\ ~worker[w].owns) \/ lock' = lock)
      BY <1>4 DEF Release
    <2>. QED
      BY <2>0, <2>1, <2>2 DEF Locked
  <1>5. CASE Admin
    <2>1. UNCHANGED <<lock, worker>>
      BY <1>5 DEF Admin, AdminBegin, AdminCall, AdminWrite, AdminClear
    <2>2. blame \subseteq blame'
      BY <1>5 DEF Admin, AdminBegin, AdminCall, AdminWrite, AdminClear, Blame
    <2>. QED
      BY <2>1, <2>2 DEF Locked
  <1>6. CASE BecomeDue \/ CooldownEnds
    BY <1>6 DEF BecomeDue, CooldownEnds, Locked
  <1>7. CASE LeaseEnds
    BY <1>7 DEF LeaseEnds, Locked, Owners, Blame
  <1>8. ASSUME NEW p \in Processes, Crash(p) PROVE Locked'
    <2>1. UNCHANGED lock /\ blame \subseteq blame' /\ ("unlocked" \in blame' => "unlocked" \in blame)
      BY <1>8 DEF Crash, Blame
    <2>2. \A v \in Workers : worker'[v] = Idle \/ worker'[v] = worker[v]
      BY <1>0, <1>8 DEF Crash
    <2>. QED
      BY <2>1, <2>2 DEF Locked, Idle, Inside
  <1>9. CASE UNCHANGED vars
    BY <1>9 DEF vars, Locked
  <1>. QED
    BY <1>1, <1>2, <1>3, <1>4, <1>5, <1>6, <1>7, <1>8, <1>9 DEF Next, Attempt

LEMMA LockedInit == Init => Locked
  BY DEF Init, Locked, Idle, Inside

(* Without trouble at the lock, one worker refreshes at a time.             *)
THEOREM RefreshersExclude == Spec => []OneRefresher
  <1>1. Locked => OneRefresher
    BY DEF Locked, OneRefresher
  <1>. QED
    BY <1>1, TypeInit, TypeNext, LockedInit, LockedNext, PTL DEF Spec

-----------------------------------------------------------------------------
(* A reauthorization of a grok account is final for the refreshers. *)

\* Grants are numbered by the operations, and what an operation is about to
\* write belongs to the account's grant or to a later one, unless another one
\* changed the account's grant meanwhile.
Writing(a) == admin[a].pc \in {"call", "write"}
Grants ==
    platform = "grok" =>
        /\ row.doc.grant <= admins
        /\ \A a \in Operations : Writing(a) =>
              /\ admin[a].doc.grant <= admins
              /\ a \notin overtaken => row.doc.grant <= admin[a].doc.grant

\* The account's grant shrinks only by an operation that was overtaken.
GrantKept == row'.doc.grant = row.doc.grant
GrantGrows ==
    platform = "grok" /\ row'.doc.grant < row.doc.grant =>
        \E a \in overtaken : admin[a].pc = "write" /\ admin'[a] # admin[a]

LEMMA GrantNumbers ==
    ASSUME TypeOK
    PROVE  /\ row \in RowType /\ admin \in [Operations -> AdminType] /\ admins \in Nat
           /\ row.doc \in Docs /\ row.doc.grant \in Nat
           /\ \A a \in Operations : admin[a].doc \in Docs /\ admin[a].doc.grant \in Nat
  <1>1. admins \in 0 .. MaxAdmin
    BY TypeParts DEF Flags
  <1>2. row \in RowType /\ admin \in [Operations -> AdminType]
    BY TypeParts DEF Data
  <1>3. admins \in Nat
    BY <1>1, Bounds, Ranges, Zenon
  <1>. QED
    BY <1>2, <1>3 DEF RowType, AdminType, Docs

LEMMA GrantsWorker ==
    ASSUME TypeOK, Grants, NEW w \in Workers, Start(w) \/ Attempt(w) \/ Outcome(w)
    PROVE  Grants' /\ GrantGrows
  <1>0. row \in RowType /\ row.doc.grant \in Nat
    BY GrantNumbers
  <1>1. UNCHANGED <<platform, admin, admins, overtaken>>
    BY DEF Start, Attempt, Outcome, Acquire, MutexTimeout, Reread, Refresh, Recover, Persist,
           Release, Retry, Mark, Cool, PostRefresh, adminVars
  <1>2. platform = "grok" => GrantKept
    <2>1. CASE Persist(w)
      <3>1. ASSUME NEW d, row.doc = d, Store(d) PROVE GrantKept
        BY <1>0, <3>1 DEF Store, GrantKept, RowType, Docs, Rotated
      <3>2. platform = "grok" => UNCHANGED row \/ (row.doc = worker[w].snap /\ Store(worker[w].snap))
        BY <2>1 DEF Persist, PersistGrok, PersistOther
      <3>. QED
        BY <3>1, <3>2 DEF GrantKept
    <2>2. CASE Mark(w) \/ Cool(w) \/ PostRefresh(w)
      <3>1. row'.doc = row.doc
        BY <1>0, <2>2 DEF Mark, Cool, PostRefresh, RowType
      <3>. QED
        BY <3>1 DEF GrantKept
    <2>3. CASE Start(w) \/ Acquire(w) \/ MutexTimeout(w) \/ Reread(w) \/ Refresh(w) \/ Recover(w)
               \/ Release(w) \/ Retry(w)
      BY <2>3 DEF Start, Acquire, MutexTimeout, Reread, Refresh, Recover, Release, Retry, GrantKept
    <2>. QED
      BY <2>1, <2>2, <2>3 DEF Attempt, Outcome
  <1>. QED
    BY <1>0, <1>1, <1>2 DEF Grants, GrantGrows, GrantKept, Writing

LEMMA GrantsAdmin ==
    ASSUME TypeOK, Grants, Admin
    PROVE  Grants' /\ GrantGrows
  <1>0. /\ row \in RowType /\ admin \in [Operations -> AdminType] /\ admins \in Nat
        /\ row.doc \in Docs /\ row.doc.grant \in Nat
        /\ \A a \in Operations : admin[a].doc \in Docs /\ admin[a].doc.grant \in Nat
    BY GrantNumbers
  <1>1. CASE AdminBegin
    <2>. DEFINE o == admins + 1
                New == [grant |-> o, n |-> 0, cfg |-> row.doc.cfg]
    <2>1. UNCHANGED <<platform, row, overtaken>> /\ admins' = o
      BY <1>1 DEF AdminBegin
    <2>2. /\ \A b \in Operations \ {o} : admin'[b] = admin[b]
          /\ o \in Operations => admin'[o].doc.grant \in {row.doc.grant, o}
      <3>1. ASSUME NEW k, NEW d, ReadRow(o, k, d)
            PROVE  /\ \A b \in Operations \ {o} : admin'[b] = admin[b]
                   /\ o \in Operations => admin'[o].doc = d
        BY <1>0, <3>1 DEF ReadRow
      <3>2. \/ \E kind \in {"edit", "refresh"} : ReadRow(o, kind, row.doc)
            \/ ReadRow(o, "reauth", New)
        BY <1>1 DEF AdminBegin
      <3>. QED
        BY <3>1, <3>2
    <2>. HIDE DEF New
    <2>. QED
      BY <1>0, <2>1, <2>2 DEF Grants, GrantGrows, Writing
  <1>2. ASSUME NEW a \in Operations, AdminCall(a) PROVE Grants' /\ GrantGrows
    <2>1. UNCHANGED <<platform, row, admins, overtaken>> /\ Writing(a)
      BY <1>2 DEF AdminCall, Writing
    <2>2. /\ \A b \in Operations \ {a} : admin'[b] = admin[b]
          /\ admin'[a] = AdminIdle \/ admin'[a].doc = Rotated(admin[a].doc)
      BY <1>0, <1>2 DEF AdminCall, AdminType
    <2>3. admin'[a].pc \in {"call", "write"} => admin'[a].doc.grant = admin[a].doc.grant
      <3>1. AdminIdle.pc = "idle"
        BY DEF AdminIdle
      <3>. QED
        BY <1>0, <2>2, <3>1, DocFacts
    <2>. QED
      BY <1>0, <2>1, <2>2, <2>3 DEF Grants, GrantGrows, Writing
  <1>3. ASSUME NEW a \in Operations, AdminWrite(a) PROVE Grants' /\ GrantGrows
    <2>1. UNCHANGED <<platform, admins>> /\ admin[a].pc = "write"
      BY <1>3 DEF AdminWrite
    <2>2. /\ \A b \in Operations \ {a} : admin'[b] = admin[b]
          /\ admin'[a].pc \notin {"call", "write"}
      <3>1. \E r \in {AdminIdle, [admin[a] EXCEPT !.pc = "clear"]} : admin' = [admin EXCEPT ![a] = r]
        BY <1>3 DEF AdminWrite
      <3>2. \A r \in {AdminIdle, [admin[a] EXCEPT !.pc = "clear"]} : r.pc \notin {"call", "write"}
        BY <1>0 DEF AdminIdle, AdminType
      <3>. QED
        BY <1>0, <3>1, <3>2
    <2>3. \/ GrantKept /\ overtaken' = overtaken
          \/ /\ row'.doc.grant = admin[a].doc.grant
             /\ \A b \in Operations \ {a} : Writing(b) => b \in overtaken'
      <3>. DEFINE Written == {admin[a].doc, [admin[a].doc EXCEPT !.cfg = @ + 1]}
      <3>1. ASSUME NEW d \in Written PROVE d.grant = admin[a].doc.grant
        BY <1>0, <3>1 DEF Docs
      <3>2. \/ UNCHANGED <<row, overtaken>>
            \/ /\ row'.doc \in Written
               /\ \/ overtaken' = overtaken /\ admin[a].doc.grant = row.doc.grant
                  \/ overtaken' = overtaken \cup {b \in Operations \ {a} : admin[b].pc # "idle"}
        BY <1>0, <1>3 DEF AdminWrite, RowType
      <3>. HIDE DEF Written
      <3>. QED
        BY <3>1, <3>2 DEF GrantKept, Writing
    <2>. QED
      BY <1>0, <2>1, <2>2, <2>3 DEF Grants, GrantGrows, GrantKept, Writing
  <1>4. ASSUME NEW a \in Operations, AdminClear(a) PROVE Grants' /\ GrantGrows
    <2>1. /\ UNCHANGED <<platform, admins, overtaken>> /\ row'.doc = row.doc
          /\ admin' = [admin EXCEPT ![a] = AdminIdle]
      BY <1>0, <1>4 DEF AdminClear, RowType
    <2>. QED
      BY <1>0, <2>1 DEF Grants, GrantGrows, Writing, AdminIdle
  <1>. QED
    BY <1>1, <1>2, <1>3, <1>4 DEF Admin

LEMMA GrantsNext == TypeOK /\ Grants /\ [Next]_vars => Grants' /\ GrantGrows
  <1>. SUFFICES ASSUME TypeOK, Grants, [Next]_vars PROVE Grants' /\ GrantGrows
    OBVIOUS
  <1>1. CASE BecomeDue \/ CooldownEnds \/ LeaseEnds \/ (\E p \in Processes : Crash(p))
             \/ UNCHANGED vars
    <2>0. row \in RowType /\ row.doc.grant \in Nat
      BY GrantNumbers
    <2>1. UNCHANGED <<platform, admin, admins, overtaken>>
      BY <1>1 DEF BecomeDue, CooldownEnds, LeaseEnds, Crash, vars, adminVars
    <2>2. row'.doc = row.doc
      BY <1>1, <2>0 DEF BecomeDue, CooldownEnds, LeaseEnds, Crash, vars, RowType
    <2>. QED
      BY <2>0, <2>1, <2>2 DEF Grants, GrantGrows, Writing
  <1>. QED
    BY <1>1, GrantsWorker, GrantsAdmin DEF Next

LEMMA GrantsInit == Init => Grants
  BY DEF Init, Grants, Writing, AdminIdle, First

(* No refresh of a grok account takes it back to an earlier grant, and no   *)
(* write of an administrator does unless another one changed the grant      *)
(* while its operation was under way.                                       *)
THEOREM ReauthorizationKept == Spec => ReauthKept
  <1>1. TypeOK /\ Grants /\ [Next]_vars => [GrantGrows]_vars
    BY GrantsNext
  <1>2. Spec => [][GrantGrows]_vars
    BY <1>1, TypeInit, TypeNext, GrantsInit, GrantsNext, PTL DEF Spec
  <1>. QED
    BY <1>2 DEF ReauthKept, GrantGrows

-----------------------------------------------------------------------------
(* No grant is lost by the interleaving of the refreshers alone.            *)

Active(w) == worker[w].pc \in {"refresh", "recover", "persist"}
Carrier(w) == worker[w].pc = "persist"
Pending(a) == admin[a].pc = "write" /\ admin[a].kind # "edit"
SomePending == \E a \in Operations : Pending(a)
Spoilt == "lost" \in blame \/ "clobbered" \in blame

SameToken(d, e) == d.grant = e.grant /\ d.n = e.n
Follows(d, e) == d.grant = e.grant /\ d.n = e.n + 1

\* The documents somebody can still hand to the provider or write.
Around ==
    {row.doc} \cup {worker[w].snap : w \in {v \in Workers : Active(v)}}
        \cup {admin[a].doc : a \in {b \in Operations : Writing(b)}}

Numbered == \A d \in Around : d.grant <= admins

\* A token that the provider accepts is the newest of its grant.
Newest == \A t \in live :
    /\ \A d \in Around : d.grant = t[1] => d.n <= t[2]
    /\ \A w \in Workers : Carrier(w) /\ worker[w].snap.grant = t[1] => worker[w].snap.n < t[2]

\* What a worker carries to the database is nowhere else.
Sole ==
    /\ \A w \in Workers : Carrier(w) => \A d \in Around : ~Follows(d, worker[w].snap)
    /\ \A v, w \in Workers :
           Carrier(v) /\ Carrier(w) /\ v # w => ~SameToken(worker[v].snap, worker[w].snap)

\* Nor is what an operation is about to write.
Own == \A a \in Operations : Pending(a) =>
    /\ ~SameToken(admin[a].doc, row.doc)
    /\ \A w \in Workers : Active(w) => ~SameToken(admin[a].doc, worker[w].snap)
    /\ \A b \in Operations \ {a} : Writing(b) => ~SameToken(admin[a].doc, admin[b].doc)

\* The account has a newer grant than g, or is about to be given one.
Newer(g) == g < row.doc.grant \/ \E b \in Operations : Pending(b) /\ g < admin[b].doc.grant

\* A new document of an operation is accepted unless a newer grant revoked it.
Held == \A a \in Operations : Pending(a) =>
    Spoilt \/ Token(admin[a].doc) \in live \/ Newer(admin[a].doc.grant)

\* What a worker carries is accepted, or will not be stored, or is replaced.
Carried == \A w \in Workers : Carrier(w) =>
    Spoilt \/ SomePending \/ Token(Rotated(worker[w].snap)) \in live
           \/ ~SameToken(row.doc, worker[w].snap)

\* An operation that calls the provider is a refresh; operations begin in order.
Calls == \A a \in Operations :
    /\ admin[a].pc = "call" => admin[a].kind = "refresh"
    /\ admins < a => admin[a].pc = "idle"

Usable ==
    \/ Spoilt \/ SomePending \/ Token(row.doc) \in live
    \/ \E w \in Workers : Carrier(w) /\ SameToken(worker[w].snap, row.doc)

Interleaved == Calls /\ Numbered /\ Newest /\ Sole /\ Own /\ Held /\ Carried /\ Usable

Typed ==
    /\ row.doc \in Docs /\ \A a \in Operations : admin[a].doc \in Docs
    /\ \A w \in Workers : worker[w].snap \in Docs
    /\ live \subseteq Nat \X Nat /\ admins \in Nat

LEMMA TypedFromType == TypeOK => Typed
  <1>. SUFFICES ASSUME TypeOK PROVE Typed
    OBVIOUS
  <1>1. Data /\ admins \in Nat
    BY TypeParts, GrantNumbers
  <1>. QED
    BY <1>1 DEF Data, Typed, RowType, AdminType, WorkerType

LEMMA Tokens ==
    ASSUME NEW d \in Docs, NEW e \in Docs
    PROVE  /\ Token(d) = Token(e) <=> SameToken(d, e)
           /\ Token(d)[1] = d.grant /\ Token(d)[2] = d.n
           /\ Token(d) = Token(Rotated(e)) <=> Follows(d, e)
  <1>1. Rotated(e).grant = e.grant /\ Rotated(e).n = e.n + 1
    BY DocFacts
  <1>. QED
    BY <1>1 DEF Token, SameToken, Follows

LEMMA AroundDocs == Typed => Around \subseteq Docs
  BY DEF Typed, Around

(* The steps as this invariant sees them.  Most neither use a token nor     *)
(* store one; a worker or an operation may give up, or read the row.        *)
Quiet ==
    /\ live' = live /\ row'.doc = row.doc /\ admins <= admins'
    /\ Spoilt => Spoilt'
    /\ \A w \in Workers :
          /\ Carrier(w)' => Carrier(w) /\ worker'[w].snap = worker[w].snap
          /\ Active(w)' => \/ worker'[w].snap = row.doc
                           \/ Active(w) /\ worker'[w].snap = worker[w].snap
          /\ Carrier(w) => Carrier(w)' \/ Spoilt' \/ ~SameToken(row.doc, worker[w].snap)
    /\ \A a \in Operations :
          /\ Writing(a)' => \/ admin'[a].doc = row.doc
                            \/ Writing(a) /\ admin'[a].doc = admin[a].doc
          /\ Pending(a)' => Pending(a) /\ admin'[a].doc = admin[a].doc
          /\ Pending(a) => Pending(a)' \/ Spoilt'
    /\ Calls => Calls'

LEMMA QuietKeeps ==
    ASSUME Typed, Typed', Interleaved, Quiet
    PROVE  Interleaved'
  <1>. USE DEF Interleaved
  <1>1. Around' \subseteq Around
    BY DEF Quiet, Around
  <1>2. Numbered'
    BY <1>1, AroundDocs DEF Quiet, Numbered, Typed, Docs
  <1>3. Newest'
    BY <1>1 DEF Quiet, Newest
  <1>4. Sole'
    <2>1. \A w \in Workers : Carrier(w)' => \A d \in Around' : ~Follows(d, worker'[w].snap)
      BY <1>1 DEF Quiet, Sole
    <2>2. \A v, w \in Workers :
            Carrier(v)' /\ Carrier(w)' /\ v # w => ~SameToken(worker'[v].snap, worker'[w].snap)
      BY DEF Quiet, Sole
    <2>. QED
      BY <2>1, <2>2 DEF Sole
  <1>5. Own'
    <2>1. ASSUME NEW a \in Operations, Pending(a)'
          PROVE  Pending(a) /\ admin'[a].doc = admin[a].doc /\ row'.doc = row.doc
      BY <2>1 DEF Quiet
    <2>2. ASSUME NEW a \in Operations, Pending(a)', NEW w \in Workers, Active(w)'
          PROVE  ~SameToken(admin'[a].doc, worker'[w].snap)
      BY <2>1, <2>2 DEF Quiet, Own
    <2>3. ASSUME NEW a \in Operations, Pending(a)', NEW b \in Operations \ {a}, Writing(b)'
          PROVE  ~SameToken(admin'[a].doc, admin'[b].doc)
      BY <2>1, <2>3 DEF Quiet, Own
    <2>. QED
      BY <2>1, <2>2, <2>3 DEF Own
  <1>6. SomePending => SomePending' \/ Spoilt'
    BY DEF Quiet, SomePending
  <1>7. Held'
    <2>1. ASSUME NEW a \in Operations, Pending(a)', ~Spoilt', Newer(admin[a].doc.grant)
          PROVE  Newer(admin[a].doc.grant)'
      BY <2>1 DEF Quiet, Newer
    <2>. QED
      BY <2>1 DEF Quiet, Held
  <1>8. Carried'
    BY <1>6 DEF Quiet, Carried
  <1>9. Usable'
    BY <1>6 DEF Quiet, Usable, SameToken
  <1>10. Calls'
    BY DEF Quiet, Calls
  <1>. QED
    BY <1>2, <1>3, <1>4, <1>5, <1>7, <1>8, <1>9, <1>10

(* A refresh: a worker uses a token and carries the next one, or loses it.  *)
Rotates(w) ==
    LET d == worker[w].snap IN
    /\ Active(w) /\ ~Carrier(w) /\ Token(d) \in live /\ Grant(d)
    /\ UNCHANGED <<row, admin, admins>> /\ (Spoilt => Spoilt')
    /\ \A v \in Workers \ {w} : worker'[v] = worker[v]
    /\ \/ Carrier(w)' /\ worker'[w].snap = d
       \/ ~Active(w)' /\ Spoilt'

\* The next token of a grant is newer than all there is.
LEMMA NextToken ==
    ASSUME Typed, Newest, NEW d \in Docs, Token(d) \in live
    PROVE  /\ \A e \in Around : e.grant = d.grant => e.n <= d.n
           /\ \A v \in Workers : Carrier(v) /\ worker[v].snap.grant = d.grant => worker[v].snap.n < d.n
           /\ \A t \in live : t[1] = d.grant /\ d \in Around => d.n <= t[2]
           /\ \A t \in live : t # Token(d) => ~(t[1] = d.grant /\ t[2] = d.n)
  <1>1. Token(d)[1] = d.grant /\ Token(d)[2] = d.n
    BY Tokens
  <1>2. \A t \in live : t = <<t[1], t[2]>>
    BY DEF Typed
  <1>. QED
    BY <1>1, <1>2 DEF Newest, Token

LEMMA RotatesKeeps ==
    ASSUME Typed, Typed', Interleaved, NEW w \in Workers, Rotates(w)
    PROVE  Interleaved'
  <1>. USE DEF Interleaved
  <1>. DEFINE d == worker[w].snap
  <1>0. d \in Docs /\ d \in Around /\ Rotated(d) \in Docs
    BY DocFacts DEF Typed, Around, Rotates
  <1>1. Around' \subseteq Around
    BY DEF Rotates, Around, Active, Carrier, Writing
  <1>2. /\ \A e \in Around : e.grant = d.grant => e.n <= d.n
        /\ \A v \in Workers : Carrier(v) /\ worker[v].snap.grant = d.grant => worker[v].snap.n < d.n
        /\ \A t \in live : t[1] = d.grant => d.n <= t[2]
        /\ \A t \in live : t # Token(d) => ~(t[1] = d.grant /\ t[2] = d.n)
    BY <1>0, NextToken DEF Rotates
  <1>3. Token(Rotated(d))[1] = d.grant /\ Token(Rotated(d))[2] = d.n + 1
    BY <1>0, Tokens, DocFacts
  <1>4. live' = (live \ {Token(d)}) \cup {Token(Rotated(d))}
    BY DEF Rotates, Grant
  <1>5. \A v \in Workers : Carrier(v)' => /\ worker'[v].snap = worker[v].snap
                                          /\ Carrier(v) \/ v = w
    BY DEF Rotates, Carrier, Active
  <1>6. \A v \in Workers : Active(v)' => Active(v) /\ worker'[v].snap = worker[v].snap
    BY DEF Rotates, Carrier, Active
  <1>. HIDE DEF d
  <1>10. Calls' /\ Numbered'
    BY <1>1 DEF Rotates, Calls, Numbered
  <1>11. Newest'
    <2>1. ASSUME NEW t \in live', NEW e \in Around', e.grant = t[1] PROVE e.n <= t[2]
      <3>0. e \in Around /\ e \in Docs /\ d.n \in Nat
        BY <1>0, <1>1, AroundDocs DEF Docs
      <3>1. CASE t \in live
        BY <2>1, <3>0, <3>1 DEF Newest
      <3>2. CASE t = Token(Rotated(d))
        BY <1>2, <1>3, <2>1, <3>0, <3>2 DEF Docs
      <3>. QED
        BY <1>4, <3>1, <3>2
    <2>2. ASSUME NEW t \in live', NEW v \in Workers, Carrier(v)', worker'[v].snap.grant = t[1]
          PROVE  worker'[v].snap.n < t[2]
      <3>0. /\ worker[v].snap \in Docs /\ d.n \in Nat /\ worker[v].snap.n \in Nat
            /\ worker'[v].snap = worker[v].snap /\ worker[v].snap.grant = t[1]
        BY <1>0, <1>5, <2>2 DEF Typed, Docs
      <3>1. CASE t \in live /\ t # Token(d)
        <4>1. CASE v = w
          <5>1. worker[v].snap = d
            BY <4>1 DEF d
          <5>2. t[2] \in Nat
            BY <3>1 DEF Typed
          <5>. QED
            BY <1>2, <3>0, <3>1, <5>1, <5>2
        <4>2. CASE Carrier(v)
          BY <3>0, <3>1, <4>2 DEF Newest
        <4>. QED
          BY <1>5, <2>2, <4>1, <4>2
      <3>2. CASE t = Token(Rotated(d))
        <4>1. CASE v = w
          BY <1>3, <3>0, <3>2, <4>1 DEF d
        <4>2. CASE Carrier(v)
          BY <1>2, <1>3, <3>0, <3>2, <4>2
        <4>. QED
          BY <1>5, <2>2, <4>1, <4>2
      <3>. QED
        BY <1>4, <3>1, <3>2
    <2>. QED
      BY <2>1, <2>2 DEF Newest
  <1>12. Sole'
    <2>1. ASSUME NEW v \in Workers, Carrier(v)', NEW e \in Around' PROVE ~Follows(e, worker'[v].snap)
      <3>1. CASE Carrier(v)
        BY <1>1, <1>5, <2>1, <3>1 DEF Sole
      <3>2. CASE v = w
        <4>1. e \in Around /\ e \in Docs /\ worker'[v].snap = d
          BY <1>1, <1>5, <2>1, <3>2, AroundDocs DEF d
        <4>. QED
          BY <1>0, <1>2, <4>1 DEF Follows, Docs
      <3>. QED
        BY <1>5, <2>1, <3>1, <3>2
    <2>2. ASSUME NEW u \in Workers, NEW v \in Workers, Carrier(u)', Carrier(v)', u # v
          PROVE  ~SameToken(worker'[u].snap, worker'[v].snap)
      <3>0. /\ worker'[u].snap = worker[u].snap /\ worker'[v].snap = worker[v].snap
            /\ worker[u].snap.n \in Nat /\ worker[v].snap.n \in Nat /\ d = worker[w].snap
        BY <1>5, <2>2 DEF Typed, Docs, d
      <3>1. CASE Carrier(u) /\ Carrier(v)
        BY <2>2, <3>0, <3>1 DEF Sole
      <3>2. CASE u = w /\ Carrier(v)
        BY <1>2, <3>0, <3>2 DEF SameToken
      <3>3. CASE v = w /\ Carrier(u)
        BY <1>2, <3>0, <3>3 DEF SameToken
      <3>. QED
        BY <1>5, <2>2, <3>1, <3>2, <3>3
    <2>. QED
      BY <2>1, <2>2 DEF Sole
  <1>15. UNCHANGED <<row, admin>> /\ Active(w) /\ d = worker[w].snap
    BY DEF Rotates, d
  <1>16. Own'
    <2>1. \A a \in Operations : (Pending(a)' <=> Pending(a)) /\ (Writing(a)' <=> Writing(a))
      BY <1>15 DEF Pending, Writing
    <2>. QED
      BY <1>6, <1>15, <2>1 DEF Own
  <1>17. Held'
    <2>1. ASSUME NEW a \in Operations, Pending(a)', ~Spoilt'
          PROVE  Token(admin'[a].doc) \in live' \/ Newer(admin[a].doc.grant)'
      <3>1. Pending(a) /\ ~Spoilt /\ admin'[a].doc = admin[a].doc /\ admin[a].doc \in Docs
        BY <1>15, <2>1 DEF Rotates, Pending, Typed
      <3>2. Token(admin[a].doc) # Token(d)
        BY <1>0, <1>15, <3>1, Tokens DEF Own
      <3>3. Newer(admin[a].doc.grant) => Newer(admin[a].doc.grant)'
        BY <1>15 DEF Newer, Pending
      <3>. QED
        BY <1>4, <3>1, <3>2, <3>3 DEF Held
    <2>. QED
      BY <2>1 DEF Held
  <1>18. SomePending' <=> SomePending
    BY <1>15 DEF SomePending, Pending
  <1>13. Carried'
    <2>1. ASSUME NEW v \in Workers, Carrier(v)', ~Spoilt', ~SomePending', SameToken(row'.doc, worker'[v].snap)
          PROVE  Token(Rotated(worker'[v].snap)) \in live'
      <3>0. /\ worker'[v].snap = worker[v].snap /\ worker[v].snap \in Docs
            /\ UNCHANGED <<row, admin>> /\ ~Spoilt /\ d = worker[w].snap
        BY <1>5, <2>1 DEF Rotates, Typed, d
      <3>1. CASE v = w
        BY <1>4, <3>0, <3>1
      <3>2. CASE Carrier(v)
        <4>1. Token(Rotated(worker[v].snap)) \in live
          BY <1>18, <2>1, <3>0, <3>2 DEF Carried
        <4>2. Token(d) # Token(Rotated(worker[v].snap))
          BY <1>0, <3>0, <3>2, Tokens DEF Sole
        <4>. QED
          BY <1>4, <3>0, <4>1, <4>2
      <3>. QED
        BY <1>5, <2>1, <3>1, <3>2
    <2>. QED
      BY <2>1 DEF Carried
  <1>14. Usable'
    <2>1. ASSUME ~Spoilt', ~SomePending'
          PROVE  \/ Token(row'.doc) \in live'
                 \/ \E v \in Workers : Carrier(v)' /\ SameToken(worker'[v].snap, row'.doc)
      <3>0. /\ UNCHANGED <<row, admin>> /\ ~Spoilt /\ Carrier(w)' /\ worker'[w].snap = d
            /\ row.doc \in Docs
        BY <2>1 DEF Rotates, Typed, d
      <3>1. CASE Token(row.doc) \in live
        <4>1. Token(row.doc) = Token(d) => SameToken(d, row.doc)
          BY <1>0, <3>0, Tokens
        <4>. QED
          BY <1>4, <3>0, <3>1, <4>1
      <3>2. ASSUME NEW v \in Workers, Carrier(v), SameToken(worker[v].snap, row.doc)
            PROVE  Carrier(v)' /\ SameToken(worker'[v].snap, row'.doc)
        BY <3>0, <3>2 DEF Rotates, Carrier
      <3>. QED
        BY <1>18, <2>1, <3>0, <3>1, <3>2 DEF Usable
    <2>. QED
      BY <2>1 DEF Usable
  <1>. QED
    BY <1>10, <1>11, <1>12, <1>13, <1>14, <1>16, <1>17

(* A store: the row takes the document that a worker carries.               *)
StoresBy(w) ==
    LET d == worker[w].snap IN
    /\ Carrier(w) /\ row'.doc = Rotated(d) /\ UNCHANGED <<live, admin, admins>>
    /\ (Spoilt => Spoilt') /\ (Spoilt' \/ row.doc = d)
    /\ \A v \in Workers \ {w} : worker'[v] = worker[v]
    /\ ~Active(w)'

LEMMA StoresKeeps ==
    ASSUME Typed, Typed', Interleaved, NEW w \in Workers, StoresBy(w)
    PROVE  Interleaved'
  <1>. USE DEF Interleaved
  <1>. DEFINE d == worker[w].snap
  <1>0. /\ d \in Docs /\ d \in Around /\ Rotated(d) \in Docs /\ Carrier(w)
        /\ Rotated(d).grant = d.grant /\ Rotated(d).n = d.n + 1
        /\ row'.doc = Rotated(d) /\ UNCHANGED <<live, admin, admins>>
    BY DocFacts DEF Typed, Around, StoresBy, Active, Carrier
  <1>1. Around' \subseteq Around \cup {Rotated(d)}
    BY DEF StoresBy, Around, Active, Carrier, Writing
  <1>2. \A v \in Workers : Active(v)' => /\ Active(v) /\ v # w
                                         /\ worker'[v].snap = worker[v].snap
    BY DEF StoresBy, Active
  <1>3. \A v \in Workers : Carrier(v)' => Carrier(v) /\ Active(v)'
    BY DEF StoresBy, Active, Carrier
  <1>4. \A v \in Workers : v # w /\ Carrier(v) => ~SameToken(worker[v].snap, d)
    BY <1>0 DEF Sole
  <1>5. \A e \in Docs : SameToken(e, Rotated(d)) <=> Follows(e, d)
    BY <1>0 DEF SameToken, Follows
  <1>6. Around \subseteq Docs /\ \A v \in Workers : worker[v].snap \in Docs
    BY AroundDocs DEF Typed
  <1>. HIDE DEF d
  <1>10. Calls' /\ Numbered'
    BY <1>0, <1>1 DEF Calls, Numbered
  <1>11. Newest'
    <2>1. ASSUME NEW t \in live, t[1] = d.grant PROVE d.n + 1 <= t[2]
      <3>1. d.n < t[2]
        BY <1>0, <2>1 DEF Newest, d
      <3>2. d.n \in Nat /\ t[2] \in Nat
        BY <1>0 DEF Docs, Typed
      <3>. QED
        BY <3>1, <3>2
    <2>2. ASSUME NEW t \in live, NEW e \in Around', e.grant = t[1] PROVE e.n <= t[2]
      BY <1>0, <1>1, <2>1, <2>2 DEF Newest
    <2>3. ASSUME NEW t \in live, NEW v \in Workers, Carrier(v)', worker'[v].snap.grant = t[1]
          PROVE  worker'[v].snap.n < t[2]
      BY <1>2, <1>3, <2>3 DEF Newest
    <2>. QED
      BY <1>0, <2>2, <2>3 DEF Newest
  <1>12. Sole'
    <2>1. ASSUME NEW v \in Workers, Carrier(v)', NEW e \in Around' PROVE ~Follows(e, worker'[v].snap)
      <3>1. Carrier(v) /\ v # w /\ worker'[v].snap = worker[v].snap
        BY <1>2, <1>3, <2>1
      <3>2. CASE e = Rotated(d)
        <4>1. d.n \in Nat /\ worker[v].snap.n \in Nat
          BY <1>0, <1>6 DEF Docs
        <4>. QED
          BY <1>0, <1>4, <3>1, <3>2, <4>1 DEF Follows, SameToken
      <3>. QED
        BY <1>1, <3>1, <3>2 DEF Sole
    <2>2. \A u, v \in Workers :
            Carrier(u)' /\ Carrier(v)' /\ u # v => ~SameToken(worker'[u].snap, worker'[v].snap)
      BY <1>2, <1>3 DEF Sole
    <2>. QED
      BY <2>1, <2>2 DEF Sole
  <1>15. \A a \in Operations : (Pending(a)' <=> Pending(a)) /\ (Writing(a)' <=> Writing(a))
    BY <1>0 DEF Pending, Writing
  <1>16. Own'
    <2>1. ASSUME NEW a \in Operations, Pending(a) PROVE ~SameToken(admin[a].doc, Rotated(d))
      <3>1. admin[a].doc \in Around
        BY <2>1 DEF Pending, Around, Writing
      <3>2. ~Follows(admin[a].doc, d)
        BY <1>0, <3>1 DEF Sole, d
      <3>. QED
        BY <1>5, <1>6, <3>1, <3>2
    <2>. QED
      BY <1>0, <1>2, <1>15, <2>1 DEF Own
  <1>17. Held'
    <2>1. ASSUME NEW a \in Operations, Pending(a), ~Spoilt', Newer(admin[a].doc.grant)
          PROVE  Newer(admin[a].doc.grant)'
      <3>1. row'.doc.grant = row.doc.grant
        BY <1>0, <2>1 DEF StoresBy, d
      <3>. QED
        BY <1>0, <1>15, <2>1, <3>1 DEF Newer
    <2>. QED
      BY <1>0, <1>15, <2>1 DEF Held, StoresBy
  <1>13. Carried'
    <2>1. ASSUME NEW v \in Workers, Carrier(v)' PROVE ~SameToken(row'.doc, worker'[v].snap)
      <3>1. Carrier(v) /\ worker'[v].snap = worker[v].snap /\ worker[v].snap \in Around
        BY <1>2, <1>3, <2>1 DEF Around
      <3>2. ~Follows(worker[v].snap, d)
        BY <1>0, <3>1 DEF Sole, d
      <3>3. SameToken(Rotated(d), worker[v].snap) <=> SameToken(worker[v].snap, Rotated(d))
        BY DEF SameToken
      <3>. QED
        BY <1>0, <1>5, <1>6, <3>1, <3>2, <3>3
    <2>. QED
      BY <2>1 DEF Carried
  <1>14. Usable'
    <2>1. ASSUME ~Spoilt', ~SomePending PROVE Token(row'.doc) \in live'
      <3>1. SameToken(row.doc, d) /\ ~Spoilt
        BY <2>1 DEF StoresBy, SameToken, d
      <3>. QED
        BY <1>0, <2>1, <3>1 DEF Carried, d
    <2>. QED
      BY <1>0, <1>15, <2>1 DEF Usable, SomePending
  <1>. QED
    BY <1>10, <1>11, <1>12, <1>13, <1>14, <1>16, <1>17


(* A reauthorization begins: a token of a new grant.                        *)
OthersKept(a) == \A b \in Operations \ {a} : admin'[b] = admin[b]

Reauthorizes(a) ==
    LET new == admin'[a].doc IN
    /\ a = admins + 1 /\ new.grant = a /\ new.n = 0 /\ Pending(a)' /\ ~Writing(a) /\ OthersKept(a)
    /\ admins' = admins + 1 /\ UNCHANGED <<row, worker, blame>>
    /\ \E kept \in {live, {}} : live' = kept \cup {Token(new)}
    /\ admin'[a].pc # "call"

LEMMA ReauthorizesKeeps ==
    ASSUME Typed, Typed', Interleaved, NEW a \in Operations, Reauthorizes(a)
    PROVE  Interleaved'
  <1>. USE DEF Interleaved
  <1>. DEFINE d == admin'[a].doc
  <1>0. /\ d \in Docs /\ admins \in Nat /\ Around \subseteq Docs
        /\ \A w \in Workers : worker[w].snap \in Docs
        /\ d.grant = admins + 1 /\ d.n = 0 /\ UNCHANGED <<row, worker, blame>> /\ Pending(a)'
        /\ live' \subseteq live \cup {Token(d)} /\ Token(d) \in live'
    BY AroundDocs DEF Typed, Reauthorizes
  <1>00. \A b \in Operations : b = a \/ (/\ b # a /\ admin'[b] = admin[b]
                                         /\ (Pending(b)' <=> Pending(b)) /\ (Writing(b)' <=> Writing(b)))
    BY DEF Reauthorizes, OthersKept, Pending, Writing
  <1>1. Around' \subseteq Around \cup {d}
    BY <1>0 DEF Reauthorizes, OthersKept, Around, Active, Writing, d
  <1>2. \A w \in Workers : Active(w) => worker[w].snap \in Around
    BY DEF Around
  <1>3. \A w \in Workers : Carrier(w)' <=> Carrier(w)
    BY <1>0 DEF Carrier
  <1>4. \A w \in Workers : (Active(w)' <=> Active(w)) /\ (Carrier(w) => Active(w))
    BY <1>0 DEF Active, Carrier
  <1>5. \A e \in Around : e.grant \in Nat /\ e.grant <= admins /\ e.grant # d.grant
    BY <1>0 DEF Numbered, Docs
  <1>6. Token(d)[1] = d.grant /\ Token(d)[2] = 0
    BY <1>0, Tokens
  <1>. HIDE DEF d
  <1>10. Calls' /\ Numbered'
    <2>1. admins' = admins + 1 /\ Calls'
      <3>1. /\ a = admins + 1 /\ admins' = admins + 1 /\ admins \in Nat
            /\ OthersKept(a) /\ admin'[a].pc # "call"
        BY <1>0 DEF Reauthorizes
      <3>2. \A b \in Operations : b \in Nat
        BY DEF Operations
      <3>3. ASSUME NEW b \in Operations
            PROVE  /\ admin'[b].pc = "call" => admin'[b].kind = "refresh"
                   /\ admins' < b => admin'[b].pc = "idle"
        <4>1. CASE b = a
          BY <3>1, <4>1
        <4>2. CASE b # a
          <5>1. admin'[b] = admin[b]
            BY <3>1, <4>2 DEF OthersKept
          <5>2. admins' < b => admins < b
            BY <3>1, <3>2
          <5>. QED
            BY <5>1, <5>2 DEF Calls
        <4>. QED
          BY <4>1, <4>2
      <3>. QED
        BY <3>1, <3>3 DEF Calls
    <2>. QED
      BY <1>0, <1>1, <1>5, <2>1 DEF Numbered
  <1>11. Newest'
    <2>1. ASSUME NEW t \in live', NEW e \in Around', e.grant = t[1] PROVE e.n <= t[2]
      <3>1. CASE t \in live /\ e \in Around
        BY <2>1, <3>1 DEF Newest
      <3>2. CASE e = d
        <4>1. t[2] \in Nat
          BY <1>0, <1>6 DEF Typed
        <4>. QED
          BY <1>0, <3>2, <4>1
      <3>3. CASE t = Token(d) /\ e \in Around
        BY <1>5, <1>6, <2>1, <3>3
      <3>. QED
        BY <1>0, <1>1, <3>1, <3>2, <3>3
    <2>2. ASSUME NEW t \in live', NEW w \in Workers, Carrier(w)', worker'[w].snap.grant = t[1]
          PROVE  worker'[w].snap.n < t[2]
      <3>1. Carrier(w) /\ worker'[w].snap = worker[w].snap /\ worker[w].snap \in Around
        BY <1>0, <1>2, <1>3, <1>4, <2>2
      <3>2. t # Token(d)
        BY <1>5, <1>6, <2>2, <3>1
      <3>. QED
        BY <1>0, <2>2, <3>1, <3>2 DEF Newest
    <2>. QED
      BY <2>1, <2>2 DEF Newest
  <1>12. Sole'
    <2>1. ASSUME NEW v \in Workers, Carrier(v)', NEW e \in Around' PROVE ~Follows(e, worker'[v].snap)
      <3>1. Carrier(v) /\ worker'[v].snap = worker[v].snap /\ worker[v].snap \in Around
        BY <1>0, <1>2, <1>3, <1>4, <2>1
      <3>2. CASE e = d
        BY <1>5, <3>1, <3>2 DEF Follows
      <3>. QED
        BY <1>1, <3>1, <3>2 DEF Sole
    <2>2. \A u, v \in Workers :
            Carrier(u)' /\ Carrier(v)' /\ u # v => ~SameToken(worker'[u].snap, worker'[v].snap)
      BY <1>0, <1>3 DEF Sole
    <2>. QED
      BY <2>1, <2>2 DEF Sole
  <1>14. \A e \in Around : ~SameToken(d, e) /\ ~SameToken(e, d)
    BY <1>5 DEF SameToken
  <1>15. /\ row.doc \in Around
         /\ \A b \in Operations : (Pending(b) => Writing(b)) /\ (Writing(b) => admin[b].doc \in Around)
    BY DEF Around, Pending, Writing
  <1>16. ~Writing(a) /\ ~Pending(a)
    BY <1>15 DEF Reauthorizes
  <1>17. Own'
    <2>1. /\ ~SameToken(d, row'.doc)
          /\ \A w \in Workers : Active(w)' => ~SameToken(d, worker'[w].snap)
          /\ \A b \in Operations \ {a} : Writing(b)' => ~SameToken(d, admin'[b].doc)
      BY <1>0, <1>00, <1>2, <1>4, <1>14, <1>15
    <2>2. ASSUME NEW b \in Operations \ {a}, Pending(b)'
          PROVE  /\ ~SameToken(admin'[b].doc, row'.doc)
                 /\ \A w \in Workers : Active(w)' => ~SameToken(admin'[b].doc, worker'[w].snap)
                 /\ \A c \in Operations \ {b} : Writing(c)' => ~SameToken(admin'[b].doc, admin'[c].doc)
      <3>1. Pending(b) /\ admin'[b].doc = admin[b].doc /\ admin[b].doc \in Around
        BY <1>00, <1>15, <2>2
      <3>2. ~SameToken(admin[b].doc, d)
        BY <1>14, <3>1
      <3>. QED
        BY <1>0, <1>00, <1>4, <3>1, <3>2 DEF Own, d
    <2>. QED
      BY <2>1, <2>2 DEF Own, d
  <1>18. Held'
    <2>1. ASSUME NEW b \in Operations \ {a}, Pending(b)' PROVE Newer(admin[b].doc.grant)'
      <3>1. Pending(b) /\ admin'[b].doc = admin[b].doc /\ admin[b].doc \in Around
        BY <1>00, <1>15, <2>1
      <3>2. admin[b].doc.grant < d.grant
        BY <1>0, <1>5, <3>1
      <3>. QED
        BY <1>0, <3>1, <3>2 DEF Newer, d
    <2>. QED
      BY <1>0, <2>1 DEF Held, d
  <1>13. Carried' /\ Usable'
    BY <1>0 DEF Carried, Usable, SomePending
  <1>. QED
    BY <1>10, <1>11, <1>12, <1>13, <1>17, <1>18

(* A refresh by hand: its answer is written next, or lost.                  *)
CallRotates(a) ==
    LET d == admin[a].doc IN
    /\ admin[a].pc = "call" /\ Token(d) \in live /\ Grant(d)
    /\ UNCHANGED <<row, worker, admins>> /\ (Spoilt => Spoilt')
    /\ admin'[a].pc # "call" /\ OthersKept(a)
    /\ \/ Pending(a)' /\ admin'[a].doc = Rotated(d)
       \/ ~Writing(a)' /\ Spoilt'

LEMMA CallRotatesKeeps ==
    ASSUME Typed, Typed', Interleaved, NEW a \in Operations, CallRotates(a)
    PROVE  Interleaved'
  <1>. USE DEF Interleaved
  <1>. DEFINE d == admin[a].doc
  <1>0. /\ d \in Docs /\ d \in Around /\ Rotated(d) \in Docs /\ d.n \in Nat
        /\ Rotated(d).grant = d.grant /\ Rotated(d).n = d.n + 1
        /\ UNCHANGED <<row, worker, admins>> /\ Around \subseteq Docs
        /\ live' = (live \ {Token(d)}) \cup {Token(Rotated(d))}
    BY DocFacts, AroundDocs DEF Typed, Around, CallRotates, Grant, Writing, Docs
  <1>1. Around' \subseteq Around \cup {Rotated(d)}
    BY <1>0 DEF CallRotates, OthersKept, Around, Active, Writing, Pending
  <1>00. \A b \in Operations : b = a \/ (/\ b # a /\ admin'[b] = admin[b]
                                         /\ (Pending(b)' <=> Pending(b)) /\ (Writing(b)' <=> Writing(b)))
    BY DEF CallRotates, OthersKept, Pending, Writing
  <1>2. /\ \A e \in Around : e.grant = d.grant => e.n <= d.n
        /\ \A v \in Workers : Carrier(v) /\ worker[v].snap.grant = d.grant => worker[v].snap.n < d.n
        /\ \A t \in live : t[1] = d.grant => d.n <= t[2]
        /\ \A t \in live : t # Token(d) => ~(t[1] = d.grant /\ t[2] = d.n)
    BY <1>0, NextToken DEF CallRotates
  <1>3. Token(Rotated(d))[1] = d.grant /\ Token(Rotated(d))[2] = d.n + 1
    BY <1>0, Tokens
  <1>4. \A v \in Workers :
          /\ (Active(v)' <=> Active(v)) /\ (Carrier(v)' <=> Carrier(v))
          /\ Active(v) => worker[v].snap \in Around
          /\ worker[v].snap \in Docs /\ worker[v].snap.n \in Nat
    BY <1>0 DEF Active, Carrier, Around, Typed, Docs
  <1>5. \A t \in live : t[2] \in Nat
    BY DEF Typed
  <1>. HIDE DEF d
  <1>10. Calls' /\ Numbered'
    BY <1>0, <1>1 DEF CallRotates, OthersKept, Calls, Numbered
  <1>11. Newest'
    <2>1. ASSUME NEW t \in live', NEW e \in Around', e.grant = t[1] PROVE e.n <= t[2]
      <3>1. CASE t \in live /\ t # Token(d)
        <4>1. CASE e = Rotated(d)
          <5>1. t[1] = d.grant
            BY <1>0, <2>1, <4>1
          <5>. QED
            BY <1>0, <1>2, <1>5, <3>1, <4>1, <5>1
        <4>. QED
          BY <1>1, <2>1, <3>1, <4>1 DEF Newest
      <3>2. CASE t = Token(Rotated(d))
        <4>1. e \in Around => e.n \in Nat
          BY <1>0 DEF Docs
        <4>. QED
          BY <1>0, <1>1, <1>2, <1>3, <2>1, <3>2, <4>1
      <3>. QED
        BY <1>0, <3>1, <3>2
    <2>2. ASSUME NEW t \in live', NEW v \in Workers, Carrier(v)', worker'[v].snap.grant = t[1]
          PROVE  worker'[v].snap.n < t[2]
      <3>1. Carrier(v) /\ worker'[v].snap = worker[v].snap
        BY <1>0, <1>4, <2>2
      <3>2. CASE t = Token(Rotated(d))
        BY <1>0, <1>2, <1>3, <1>4, <2>2, <3>1, <3>2
      <3>. QED
        BY <1>0, <2>2, <3>1, <3>2 DEF Newest
    <2>. QED
      BY <2>1, <2>2 DEF Newest
  <1>12. Sole'
    <2>1. ASSUME NEW v \in Workers, Carrier(v)', NEW e \in Around' PROVE ~Follows(e, worker'[v].snap)
      <3>1. Carrier(v) /\ worker'[v].snap = worker[v].snap
        BY <1>0, <1>4, <2>1
      <3>2. CASE e = Rotated(d)
        BY <1>0, <1>2, <1>4, <3>1, <3>2 DEF Follows
      <3>. QED
        BY <1>1, <3>1, <3>2 DEF Sole
    <2>2. \A u, v \in Workers :
            Carrier(u)' /\ Carrier(v)' /\ u # v => ~SameToken(worker'[u].snap, worker'[v].snap)
      BY <1>0, <1>4 DEF Sole
    <2>. QED
      BY <2>1, <2>2 DEF Sole
  <1>14. \A e \in Around : ~SameToken(Rotated(d), e) /\ ~SameToken(e, Rotated(d))
    BY <1>0, <1>2 DEF SameToken, Docs
  <1>15. /\ row.doc \in Around
         /\ \A b \in Operations : (Pending(b) => Writing(b)) /\ (Writing(b) => admin[b].doc \in Around)
    BY DEF Around, Pending, Writing
  <1>16. ~Pending(a) /\ Writing(a)
    BY DEF CallRotates, Pending, Writing
  <1>17. Own'
    <2>1. ASSUME Pending(a)'
          PROVE  /\ ~SameToken(admin'[a].doc, row'.doc)
                 /\ \A w \in Workers : Active(w)' => ~SameToken(admin'[a].doc, worker'[w].snap)
                 /\ \A b \in Operations \ {a} : Writing(b)' => ~SameToken(admin'[a].doc, admin'[b].doc)
      <3>1. admin'[a].doc = Rotated(d)
        BY <2>1 DEF CallRotates, Pending, Writing, d
      <3>. QED
        BY <1>0, <1>00, <1>4, <1>14, <1>15, <3>1
    <2>2. ASSUME NEW b \in Operations \ {a}, Pending(b)'
          PROVE  /\ ~SameToken(admin'[b].doc, row'.doc)
                 /\ \A w \in Workers : Active(w)' => ~SameToken(admin'[b].doc, worker'[w].snap)
                 /\ \A c \in Operations \ {b} : Writing(c)' => ~SameToken(admin'[b].doc, admin'[c].doc)
      <3>1. Pending(b) /\ admin'[b].doc = admin[b].doc /\ admin[b].doc \in Around
        BY <1>00, <1>15, <2>2
      <3>2. Writing(a)' => ~SameToken(admin[b].doc, admin'[a].doc)
        <4>1. Writing(a)' => admin'[a].doc = Rotated(d)
          BY DEF CallRotates, d
        <4>. QED
          BY <1>14, <3>1, <4>1
      <3>. QED
        BY <1>0, <1>00, <1>4, <3>1, <3>2 DEF Own
    <2>. QED
      BY <2>1, <2>2 DEF Own
  <1>18. Held'
    <2>1. Pending(a)' => Token(admin'[a].doc) \in live'
      BY <1>0 DEF CallRotates, Pending, Writing, d
    <2>2. ASSUME NEW b \in Operations \ {a}, Pending(b)', ~Spoilt'
          PROVE  Token(admin'[b].doc) \in live' \/ Newer(admin[b].doc.grant)'
      <3>1. Pending(b) /\ ~Spoilt /\ admin'[b].doc = admin[b].doc /\ admin[b].doc \in Docs
        BY <1>00, <2>2 DEF CallRotates, Typed
      <3>2. Token(admin[b].doc) # Token(d)
        BY <1>0, <1>16, <3>1, Tokens DEF Own, d
      <3>3. Newer(admin[b].doc.grant) => Newer(admin[b].doc.grant)'
        BY <1>0, <1>00, <1>16 DEF Newer
      <3>. QED
        BY <1>0, <3>1, <3>2, <3>3 DEF Held
    <2>. QED
      BY <2>1, <2>2 DEF Held
  <1>13. SomePending' \/ Spoilt'
    BY DEF CallRotates, SomePending
  <1>19. Carried' /\ Usable'
    BY <1>13 DEF Carried, Usable
  <1>. QED
    BY <1>10, <1>11, <1>12, <1>17, <1>18, <1>19

(* An operation writes.                                                     *)
Writes(a) ==
    LET d == admin[a].doc IN
    /\ admin[a].pc = "write" /\ SameToken(row'.doc, d)
    /\ UNCHANGED <<live, worker, admins>> /\ (Spoilt => Spoilt')
    /\ ~Writing(a)' /\ OthersKept(a)
    /\ Spoilt' \/ row.doc.grant <= d.grant
    /\ ~Pending(a) => Spoilt' \/ SameToken(row.doc, d)

LEMMA WritesKeeps ==
    ASSUME Typed, Typed', Interleaved, NEW a \in Operations, Writes(a)
    PROVE  Interleaved'
  <1>. USE DEF Interleaved
  <1>. DEFINE d == admin[a].doc
  <1>0. /\ d \in Docs /\ d \in Around /\ Around \subseteq Docs /\ row.doc \in Docs /\ row'.doc \in Docs
        /\ UNCHANGED <<live, worker, admins>> /\ SameToken(row'.doc, d) /\ ~Writing(a)' /\ ~Pending(a)'
    BY AroundDocs DEF Typed, Around, Writes, Writing, Pending
  <1>00. \A b \in Operations \ {a} : /\ admin'[b] = admin[b]
                                     /\ (Pending(b)' <=> Pending(b)) /\ (Writing(b)' <=> Writing(b))
    BY DEF Writes, OthersKept, Pending, Writing
  <1>1. \A e \in Around' : e \in Around \/ e = row'.doc
    BY <1>0, <1>00 DEF Around, Active
  <1>2. \A e \in Around' : \E f \in Around : SameToken(e, f)
    BY <1>0, <1>1 DEF SameToken
  <1>3. \A v \in Workers : (Active(v)' <=> Active(v)) /\ (Carrier(v)' <=> Carrier(v))
                            /\ (Carrier(v) => Active(v)) /\ worker[v].snap \in Docs
    BY <1>0 DEF Active, Carrier, Typed
  <1>4. Writing(a)
    BY DEF Writes, Writing
  <1>. HIDE DEF d
  <1>10. Calls' /\ Numbered'
    <2>1. Calls'
      BY <1>0, <1>00, <1>4 DEF Calls, Writing
    <2>. QED
      BY <1>0, <1>2, <2>1 DEF Numbered, SameToken
  <1>11. Newest'
    BY <1>0, <1>2, <1>3 DEF Newest, SameToken
  <1>12. Sole'
    <2>1. ASSUME NEW v \in Workers, Carrier(v)', NEW e \in Around' PROVE ~Follows(e, worker'[v].snap)
      BY <1>0, <1>2, <1>3, <2>1 DEF Sole, SameToken, Follows
    <2>2. \A u, v \in Workers :
            Carrier(u)' /\ Carrier(v)' /\ u # v => ~SameToken(worker'[u].snap, worker'[v].snap)
      BY <1>0, <1>3 DEF Sole
    <2>. QED
      BY <2>1, <2>2 DEF Sole
  <1>13. Own'
    <2>1. ASSUME NEW b \in Operations, Pending(b)'
          PROVE  /\ ~SameToken(admin'[b].doc, row'.doc)
                 /\ \A w \in Workers : Active(w)' => ~SameToken(admin'[b].doc, worker'[w].snap)
                 /\ \A c \in Operations \ {b} : Writing(c)' => ~SameToken(admin'[b].doc, admin'[c].doc)
      <3>1. b # a /\ Pending(b) /\ admin'[b] = admin[b]
        BY <1>0, <1>00, <2>1
      <3>2. ~SameToken(admin[b].doc, d)
        BY <1>4, <3>1 DEF Own, d
      <3>3. ~SameToken(admin[b].doc, row'.doc)
        BY <1>0, <3>2 DEF SameToken
      <3>. QED
        BY <1>0, <1>00, <1>3, <3>1, <3>3 DEF Own
    <2>. QED
      BY <2>1 DEF Own
  <1>14. ASSUME NEW g \in Nat, Newer(g), ~Spoilt' PROVE Newer(g)'
    <2>0. row.doc.grant <= d.grant /\ row'.doc.grant = d.grant /\ d.grant \in Nat /\ row.doc.grant \in Nat
      BY <1>0, <1>14 DEF Writes, SameToken, Docs, d
    <2>1. CASE g < row.doc.grant
      BY <2>0, <2>1 DEF Newer
    <2>2. ASSUME NEW b \in Operations, Pending(b), g < admin[b].doc.grant PROVE Newer(g)'
      BY <1>00, <2>0, <2>2 DEF Newer, d
    <2>. QED
      BY <1>14, <2>1, <2>2 DEF Newer
  <1>15. Held'
    <2>1. ASSUME NEW b \in Operations, Pending(b)', ~Spoilt'
          PROVE  Token(admin'[b].doc) \in live' \/ Newer(admin[b].doc.grant)'
      <3>1. b # a /\ Pending(b) /\ admin'[b] = admin[b] /\ ~Spoilt /\ admin[b].doc.grant \in Nat
        BY <1>0, <1>00, <2>1 DEF Writes, Typed, Docs
      <3>. QED
        BY <1>0, <1>14, <2>1, <3>1 DEF Held
    <2>. QED
      BY <2>1 DEF Held
  <1>16. ASSUME Pending(a) PROVE Usable' /\ Carried'
    <2>1. \A v \in Workers : Active(v) => ~SameToken(row'.doc, worker[v].snap)
      <3>1. \A v \in Workers : Active(v) => ~SameToken(d, worker[v].snap)
        BY <1>16 DEF Own, d
      <3>. QED
        BY <1>0, <3>1 DEF SameToken
    <2>2. Spoilt' \/ SomePending' \/ Token(row'.doc) \in live'
      <3>1. SUFFICES ASSUME ~Spoilt' PROVE SomePending' \/ Token(row'.doc) \in live'
        OBVIOUS
      <3>2. row.doc.grant <= d.grant /\ row.doc.grant \in Nat /\ d.grant \in Nat /\ ~Spoilt
        BY <1>0, <3>1 DEF Writes, Docs, d
      <3>3. CASE Token(d) \in live
        BY <1>0, <3>3, Tokens
      <3>4. ASSUME NEW b \in Operations, Pending(b), d.grant < admin[b].doc.grant PROVE SomePending'
        <4>1. b # a
          BY <3>2, <3>4 DEF d
        <4>. QED
          BY <1>00, <3>4, <4>1 DEF SomePending
      <3>5. ~(d.grant < row.doc.grant)
        BY <3>2
      <3>. QED
        BY <1>16, <3>2, <3>3, <3>4, <3>5 DEF Held, Newer, d
    <2>. QED
      BY <1>0, <1>3, <2>1, <2>2 DEF Usable, Carried
  <1>17. ASSUME ~Pending(a) PROVE Usable' /\ Carried'
    <2>0. SomePending => SomePending'
      BY <1>00, <1>17 DEF SomePending
    <2>1. Spoilt' \/ (SameToken(row'.doc, row.doc) /\ Token(row'.doc) = Token(row.doc))
      BY <1>0, <1>17, Tokens DEF Writes, SameToken, d
    <2>2. Usable'
      BY <1>0, <1>3, <2>0, <2>1 DEF Writes, Usable, SameToken
    <2>3. Carried'
      BY <1>0, <1>3, <2>0, <2>1 DEF Writes, Carried, SameToken
    <2>. QED
      BY <2>2, <2>3
  <1>. QED
    BY <1>10, <1>11, <1>12, <1>13, <1>15, <1>16, <1>17

(* Every step is one of these.                                              *)
Others(w) == \A v \in Workers \ {w} : worker'[v] = worker[v]

QuietBy(w) ==
    /\ UNCHANGED <<live, admin, admins>> /\ row'.doc = row.doc /\ (Spoilt => Spoilt')
    /\ Others(w) /\ ~Carrier(w)'
    /\ Active(w)' => \/ worker'[w].snap = row.doc
                     \/ Active(w) /\ worker'[w].snap = worker[w].snap
    /\ Carrier(w) => Spoilt' \/ ~SameToken(row.doc, worker[w].snap)

LEMMA QuietByQuiet ==
    ASSUME TypeOK, NEW w \in Workers, QuietBy(w)
    PROVE  Quiet
  <1>1. admins <= admins'
    BY GrantNumbers DEF QuietBy
  <1>2. \A v \in Workers \ {w} :
          /\ Carrier(v)' <=> Carrier(v)
          /\ Active(v)' <=> Active(v)
          /\ worker'[v].snap = worker[v].snap
    BY DEF QuietBy, Others, Carrier, Active
  <1>3. /\ UNCHANGED admin /\ (Calls' <=> Calls)
        /\ \A a \in Operations : (Writing(a)' <=> Writing(a)) /\ (Pending(a)' <=> Pending(a))
    BY DEF QuietBy, Writing, Pending, Calls
  <1>. QED
    BY <1>1, <1>2, <1>3 DEF QuietBy, Quiet

LEMMA Changes ==
    ASSUME worker \in [Workers -> WorkerType], NEW w \in Workers
    PROVE  /\ \A p, d : Leave(w, p, d) => Others(w) /\ worker'[w].pc = "release"
           /\ \A p : Goto(w, p) => /\ Others(w) /\ worker'[w].pc = p
                                   /\ worker'[w].snap = worker[w].snap
  <1>1. ASSUME NEW p, NEW d, Leave(w, p, d) PROVE Others(w) /\ worker'[w].pc = "release"
    BY <1>1 DEF Leave, WorkerType, Others
  <1>2. ASSUME NEW p, Goto(w, p)
        PROVE  Others(w) /\ worker'[w].pc = p /\ worker'[w].snap = worker[w].snap
    BY <1>2 DEF Goto, WorkerType, Others
  <1>. QED
    BY <1>1, <1>2

LEMMA OutsideQuiet ==
    ASSUME TypeOK, NEW w \in Workers,
           Start(w) \/ Acquire(w) \/ MutexTimeout(w) \/ Release(w) \/ Outcome(w)
    PROVE  QuietBy(w)
  <1>0. worker \in [Workers -> WorkerType] /\ row \in RowType
    BY TypeParts DEF Data
  <1>. DEFINE Away == /\ UNCHANGED <<live, admin, admins>> /\ row'.doc = row.doc
                      /\ blame \subseteq blame' /\ Others(w)
                      /\ ~Active(w) /\ ~Active(w)'
  <1>1. CASE Start(w)
    <2>1. Away
      BY <1>0, <1>1 DEF Start, adminVars, Others, Active, Idle
    <2>. QED
      BY <2>1 DEF QuietBy, Spoilt, Active, Carrier
  <1>2. CASE Acquire(w)
    <2>1. UNCHANGED <<row, live, admin, admins>> /\ blame \subseteq blame' /\ worker[w].pc = "lock"
      BY <1>2 DEF Acquire, adminVars, Blame
    <2>2. \/ worker' = [worker EXCEPT ![w].pc = "read", ![w].owns = TRUE]
          \/ worker' = [worker EXCEPT ![w] = Idle]
          \/ Goto(w, "read")
      BY <1>2 DEF Acquire
    <2>3. Others(w) /\ worker'[w].pc \in {"read", "idle"}
      BY <1>0, <2>2, Changes DEF Others, Idle, WorkerType
    <2>. QED
      BY <2>1, <2>3 DEF QuietBy, Spoilt, Active, Carrier
  <1>3. CASE MutexTimeout(w)
    <2>1. UNCHANGED <<row, live, admin, admins, blame>> /\ worker[w].pc = "lock"
      BY <1>3 DEF MutexTimeout, adminVars
    <2>2. Others(w) /\ worker'[w].pc \in {"retry", "idle"}
      BY <1>0, <1>3 DEF MutexTimeout, Others, Idle, WorkerType
    <2>. QED
      BY <2>1, <2>2 DEF QuietBy, Spoilt, Active, Carrier
  <1>4. CASE Release(w)
    <2>1. UNCHANGED <<row, live, admin, admins, blame>> /\ worker[w].pc = "release"
      BY <1>4 DEF Release, adminVars
    <2>2. Others(w) /\ worker'[w].pc \in {"retry", "mark", "post", "idle"}
      BY <1>0, <1>4 DEF Release, Others, Idle, WorkerType
    <2>. QED
      BY <2>1, <2>2 DEF QuietBy, Spoilt, Active, Carrier
  <1>5. CASE Retry(w)
    <2>1. UNCHANGED <<row, live, admin, admins, blame>> /\ worker[w].pc = "retry"
      BY <1>5 DEF Retry, adminVars
    <2>2. Others(w) /\ worker'[w].pc \in {"lock", "cool"}
      BY <1>0, <1>5 DEF Retry, Others, WorkerType
    <2>. QED
      BY <2>1, <2>2 DEF QuietBy, Spoilt, Active, Carrier
  <1>6. ASSUME Mark(w) \/ Cool(w) \/ PostRefresh(w) PROVE QuietBy(w)
    <2>1. UNCHANGED <<live, admin, admins>> /\ worker[w].pc \in {"mark", "cool", "post"}
      BY <1>6 DEF Mark, Cool, PostRefresh, adminVars
    <2>2. Others(w) /\ worker'[w].pc = "idle"
      <3>1. worker' = [worker EXCEPT ![w] = Idle]
        BY <1>6 DEF Mark, Cool, PostRefresh
      <3>. QED
        BY <1>0, <3>1 DEF Others, Idle
    <2>3. row'.doc = row.doc
      BY <1>0, <1>6 DEF Mark, Cool, PostRefresh, RowType
    <2>4. blame \subseteq blame'
      BY <1>6 DEF Mark, Cool, PostRefresh, Blame
    <2>. QED
      BY <2>1, <2>2, <2>3, <2>4 DEF QuietBy, Spoilt, Active, Carrier
  <1>. QED
    BY <1>1, <1>2, <1>3, <1>4, <1>5, <1>6 DEF Outcome

LEMMA AttemptShapes ==
    ASSUME TypeOK, NEW w \in Workers, Reread(w) \/ Refresh(w) \/ Recover(w) \/ Persist(w)
    PROVE  QuietBy(w) \/ Rotates(w) \/ StoresBy(w)
  <1>0. /\ worker \in [Workers -> WorkerType] /\ row \in RowType
        /\ row.doc \in Docs /\ worker[w].snap \in Docs
    BY TypeParts DEF Data, WorkerType, RowType
  <1>. DEFINE d == worker[w].snap
  <1>1. CASE Reread(w)
    <2>1. UNCHANGED <<row, live, admin, admins, blame>> /\ worker[w].pc = "read"
      BY <1>1 DEF Reread, adminVars
    <2>2. \/ worker' = [worker EXCEPT ![w].pc = "refresh", ![w].snap = row.doc,
                                      ![w].sawCool = row.cooldown]
          \/ Leave(w, "idle", First)
      BY <1>1 DEF Reread, LeaveDone
    <2>3. /\ Others(w)
          /\ worker'[w].pc = "release" \/ (worker'[w].pc = "refresh" /\ worker'[w].snap = row.doc)
      BY <1>0, <2>2, Changes DEF Others, WorkerType
    <2>. QED
      BY <2>1, <2>3 DEF QuietBy, Spoilt, Active, Carrier
  <1>2. CASE Refresh(w)
    <2>1. UNCHANGED <<row, admin, admins>> /\ worker[w].pc = "refresh" /\ blame \subseteq blame'
      BY <1>2 DEF Refresh, adminVars, Blame
    <2>2. CASE Token(d) \in live /\ Grant(d) /\ Goto(w, "persist")
      BY <1>0, <2>1, <2>2, Changes DEF Rotates, Active, Carrier, Spoilt, Others
    <2>3. CASE Goto(w, "recover") /\ UNCHANGED live
      BY <1>0, <2>1, <2>3, Changes DEF QuietBy, Active, Carrier, Spoilt, Others
    <2>4. ASSUME NEW h, Leave(w, AfterFailure(w), h), UNCHANGED live PROVE QuietBy(w)
      BY <1>0, <2>1, <2>4, Changes DEF QuietBy, Active, Carrier, Spoilt, Others
    <2>5. ASSUME NEW h, Leave(w, AfterFailure(w), h), Token(d) \in live, Grant(d), Blame("lost", TRUE)
          PROVE  Rotates(w)
      BY <1>0, <2>1, <2>5, Changes DEF Rotates, Active, Carrier, Spoilt, Others, Blame
    <2>. QED
      BY <1>2, <2>2, <2>3, <2>4, <2>5 DEF Refresh
  <1>3. CASE Recover(w)
    <2>1. UNCHANGED <<row, live, admin, admins, blame>> /\ worker[w].pc = "recover"
      BY <1>3 DEF Recover, adminVars
    <2>2. \E p, h : Leave(w, p, h)
      BY <1>3 DEF Recover, LeaveDone
    <2>. QED
      BY <1>0, <2>1, <2>2, Changes DEF QuietBy, Spoilt, Active, Carrier
  <1>4. CASE Persist(w)
    <2>1. UNCHANGED <<live, admin, admins>> /\ worker[w].pc = "persist" /\ blame \subseteq blame'
      BY <1>4 DEF Persist, adminVars, PersistGrok, PersistOther, Blame
    <2>2. \E p, h : Leave(w, p, h)
      BY <1>4 DEF Persist, PersistGrok, PersistOther, LeaveDone, LeaveStored
    <2>3. Others(w) /\ worker'[w].pc = "release"
      BY <1>0, <2>2, Changes
    <2>4. \/ Store(d) /\ (row.doc = d \/ "clobbered" \in blame')
          \/ UNCHANGED row /\ ("lost" \in blame' \/ Token(row.doc) # Token(d))
      BY <1>4 DEF Persist, PersistGrok, PersistOther, Blame
    <2>5. CASE Store(d) /\ (row.doc = d \/ "clobbered" \in blame')
      <3>1. row'.doc = Rotated(d)
        BY <1>0, <2>5 DEF Store, RowType
      <3>. QED
        BY <2>1, <2>3, <2>5, <3>1 DEF StoresBy, Active, Carrier, Spoilt, Others
    <2>6. CASE UNCHANGED row /\ ("lost" \in blame' \/ Token(row.doc) # Token(d))
      <3>1. Token(row.doc) # Token(d) => ~SameToken(row.doc, d)
        BY <1>0, Tokens
      <3>. QED
        BY <2>1, <2>3, <2>6, <3>1 DEF QuietBy, Active, Carrier, Spoilt, Others
    <2>. QED
      BY <2>4, <2>5, <2>6
  <1>. QED
    BY <1>1, <1>2, <1>3, <1>4

LEMMA RestQuiet ==
    ASSUME TypeOK, BecomeDue \/ CooldownEnds \/ LeaseEnds \/ (\E p \in Processes : Crash(p))
                   \/ UNCHANGED vars
    PROVE  Quiet
  <1>0. worker \in [Workers -> WorkerType] /\ row \in RowType /\ admins \in Nat
    BY TypeParts, GrantNumbers DEF Data
  <1>1. UNCHANGED <<live, admin, admins>> /\ blame \subseteq blame'
    BY DEF BecomeDue, CooldownEnds, LeaseEnds, Crash, vars, adminVars, Blame
  <1>2. row'.doc = row.doc
    BY <1>0 DEF BecomeDue, CooldownEnds, LeaseEnds, Crash, vars, RowType
  <1>3. \A v \in Workers : \/ worker'[v] = worker[v]
                          \/ /\ worker'[v].pc = "idle"
                             /\ worker[v].pc = "persist" => "lost" \in blame'
    <2>1. ASSUME NEW p \in Processes, Crash(p), NEW v \in Workers
          PROVE  \/ worker'[v] = worker[v]
                 \/ worker'[v].pc = "idle" /\ (worker[v].pc = "persist" => "lost" \in blame')
      BY <1>0, <2>1 DEF Crash, Blame, Idle
    <2>2. UNCHANGED worker \/ \E p \in Processes : Crash(p)
      BY DEF BecomeDue, CooldownEnds, LeaseEnds, vars
    <2>. QED
      BY <2>1, <2>2
  <1>. QED
    BY <1>0, <1>1, <1>2, <1>3 DEF Quiet, Carrier, Active, Writing, Pending, Calls, Spoilt

\* What an operation's own step leaves of the others.
LEMMA OthersQuiet ==
    ASSUME TypeOK, NEW a \in Operations, OthersKept(a), UNCHANGED <<live, worker>>,
           row'.doc = row.doc, admins <= admins', blame \subseteq blame', Calls => Calls',
           Writing(a)' => admin'[a].doc = row.doc,
           ~Pending(a)', Pending(a) => Spoilt'
    PROVE  Quiet
  <1>1. \A b \in Operations \ {a} : /\ admin'[b] = admin[b]
                                    /\ (Pending(b)' <=> Pending(b)) /\ (Writing(b)' <=> Writing(b))
    BY DEF OthersKept, Pending, Writing
  <1>. QED
    BY <1>1 DEF Quiet, Carrier, Active, Spoilt

LEMMA BeginShape ==
    ASSUME TypeOK, Calls, AdminBegin
    PROVE  Quiet \/ \E a \in Operations : Reauthorizes(a)
  <1>0. /\ admin \in [Operations -> AdminType] /\ row \in RowType /\ admins \in Nat
        /\ row.doc \in Docs
    BY GrantNumbers
  <1>00. admins + 1 \in Operations
    BY <1>0, Bounds DEF AdminBegin, Operations
  <1>. PICK a \in Operations : a = admins + 1
    BY <1>00
  <1>1. /\ UNCHANGED <<row, worker, blame>> /\ a = admins + 1 /\ admins' = a
    BY DEF AdminBegin
  <1>2. admin[a].pc = "idle" /\ ~Pending(a)
    BY <1>0, <1>1 DEF Calls, Pending
  <1>3. ASSUME NEW k \in {"edit", "refresh", "reauth"}, NEW d, ReadRow(a, k, d)
        PROVE  /\ OthersKept(a) /\ admin'[a].doc = d /\ admin'[a].kind = k
               /\ admin'[a].pc = IF k = "refresh" THEN "call" ELSE "write"
    BY <1>0, <1>1, <1>3 DEF ReadRow, OthersKept
  <1>4. ASSUME NEW k \in {"edit", "refresh"}, ReadRow(a, k, row.doc), UNCHANGED live
        PROVE  Quiet
    <2>1. /\ OthersKept(a) /\ admin'[a].doc = row.doc /\ admin'[a].kind = k
          /\ admin'[a].pc = IF k = "refresh" THEN "call" ELSE "write"
      BY <1>3, <1>4
    <2>2. ~Pending(a)' /\ (admin'[a].pc = "call" => admin'[a].kind = "refresh")
      BY <2>1 DEF Pending
    <2>3. Calls'
      <3>1. \A b \in Operations : b \in Nat
        BY DEF Operations
      <3>. QED
        BY <1>0, <1>1, <2>1, <2>2, <3>1 DEF Calls, OthersKept
    <2>. QED
      BY <1>0, <1>1, <1>2, <1>4, <2>1, <2>2, <2>3, OthersQuiet
  <1>5. ASSUME NEW new, new = [grant |-> a, n |-> 0, cfg |-> row.doc.cfg],
               ReadRow(a, "reauth", new), \E kept \in {live, {}} : live' = kept \cup {Token(new)}
        PROVE  Reauthorizes(a)
    <2>1. /\ OthersKept(a) /\ admin'[a].doc = new /\ admin'[a].kind = "reauth"
          /\ admin'[a].pc = "write"
      BY <1>3, <1>5
    <2>2. new.grant = a /\ new.n = 0
      BY <1>5
    <2>. QED
      BY <1>1, <1>2, <1>5, <2>1, <2>2 DEF Reauthorizes, Pending, Writing
  <1>. QED
    BY <1>1, <1>4, <1>5 DEF AdminBegin

LEMMA CallShape ==
    ASSUME TypeOK, Calls, NEW a \in Operations, AdminCall(a)
    PROVE  Quiet \/ CallRotates(a)
  <1>. DEFINE d == admin[a].doc
  <1>0. /\ admin \in [Operations -> AdminType] /\ row \in RowType /\ admins \in Nat
        /\ admin[a] \in AdminType /\ \A b \in Operations : b \in Nat
    BY GrantNumbers DEF Operations
  <1>1. /\ UNCHANGED <<row, worker, admins>> /\ admin[a].pc = "call" /\ admin[a].kind = "refresh"
        /\ blame \subseteq blame'
    BY DEF AdminCall, Calls, Blame
  <1>2. CASE /\ Token(d) \in live /\ Grant(d)
             /\ admin' = [admin EXCEPT ![a] = [@ EXCEPT !.pc = "write", !.doc = Rotated(d),
                                                        !.status = row.status, !.due = FALSE]]
    <2>1. /\ admin'[a].pc = "write" /\ admin'[a].kind = "refresh" /\ admin'[a].doc = Rotated(d)
          /\ OthersKept(a)
      BY <1>0, <1>1, <1>2 DEF AdminType, OthersKept
    <2>. QED
      BY <1>1, <1>2, <2>1 DEF CallRotates, Pending, Spoilt
  <1>3. CASE /\ admin' = [admin EXCEPT ![a] = AdminIdle]
             /\ UNCHANGED live \/ (Token(d) \in live /\ Grant(d) /\ Blame("lost", TRUE))
    <2>1. admin'[a].pc = "idle" /\ OthersKept(a)
      BY <1>0, <1>3 DEF AdminIdle, OthersKept
    <2>2. Calls => Calls'
      BY <1>1, <2>1 DEF Calls, OthersKept
    <2>3. CASE UNCHANGED live
      BY <1>0, <1>1, <2>1, <2>2, <2>3, OthersQuiet DEF Writing, Pending
    <2>4. CASE Token(d) \in live /\ Grant(d) /\ Blame("lost", TRUE)
      BY <1>1, <2>1, <2>4 DEF CallRotates, Writing, Spoilt, Blame
    <2>. QED
      BY <1>3, <2>3, <2>4
  <1>. QED
    BY <1>2, <1>3 DEF AdminCall

LEMMA WriteShape ==
    ASSUME TypeOK, NEW a \in Operations, AdminWrite(a)
    PROVE  Quiet \/ Writes(a)
  <1>. DEFINE d == admin[a].doc
  <1>0. /\ admin \in [Operations -> AdminType] /\ row \in RowType /\ admins \in Nat
        /\ d \in Docs /\ row.doc \in Docs /\ admin[a] \in AdminType
    BY GrantNumbers
  <1>1. UNCHANGED <<live, worker, admins>> /\ admin[a].pc = "write" /\ blame \subseteq blame'
    BY DEF AdminWrite, Blame
  <1>2. admin'[a].pc \in {"clear", "idle"} /\ OthersKept(a)
    <2>1. \E r \in {AdminIdle, [admin[a] EXCEPT !.pc = "clear"]} : admin' = [admin EXCEPT ![a] = r]
      BY DEF AdminWrite
    <2>2. \A r \in {AdminIdle, [admin[a] EXCEPT !.pc = "clear"]} : r.pc \in {"clear", "idle"}
      BY <1>0 DEF AdminIdle, AdminType
    <2>. QED
      BY <1>0, <2>1, <2>2 DEF OthersKept
  <1>3. Calls => Calls'
    <2>1. admins < a => admin[a].pc = "idle" \/ ~Calls
      BY DEF Calls
    <2>. QED
      BY <1>1, <1>2, <2>1 DEF Calls, OthersKept
  <1>4. CASE UNCHANGED row /\ Blame("lost", admin[a].kind # "edit")
    <2>1. Pending(a) => Spoilt'
      BY <1>4 DEF Pending, Spoilt, Blame
    <2>. QED
      BY <1>0, <1>1, <1>2, <1>3, <1>4, <2>1, OthersQuiet DEF Writing, Pending
  <1>5. CASE /\ \E new \in (IF admin[a].kind = "edit" THEN {d, [d EXCEPT !.cfg = @ + 1]} ELSE {d}) :
                  row' = [row EXCEPT !.doc = new, !.status = admin[a].status,
                            !.due = (admin[a].kind = "edit" /\ admin[a].due)]
             /\ Clobbers(a) => "clobbered" \in blame'
    <2>1. \A new \in {d, [d EXCEPT !.cfg = @ + 1]} : SameToken(new, d)
      BY <1>0 DEF Docs, SameToken
    <2>2. row'.doc \in {d, [d EXCEPT !.cfg = @ + 1]}
      BY <1>0, <1>5 DEF RowType
    <2>3. ASSUME ~Clobbers(a) PROVE row.doc.grant <= d.grant /\ (~Pending(a) => SameToken(row.doc, d))
      <3>0. row.doc.grant \in Nat /\ d.grant \in Nat
        BY <1>0 DEF Docs
      <3>1. CASE admin[a].kind = "reauth"
        BY <1>1, <2>3, <3>0, <3>1 DEF Clobbers, Pending
      <3>2. CASE admin[a].kind = "refresh"
        <4>1. [d EXCEPT !.n = @ - 1].grant = d.grant
          BY <1>0 DEF Docs
        <4>2. Token(row.doc) = Token([d EXCEPT !.n = @ - 1])
          BY <2>3, <3>2 DEF Clobbers, TokenRead
        <4>3. row.doc.grant = d.grant
          BY <4>1, <4>2 DEF Token
        <4>. QED
          BY <1>1, <3>0, <3>2, <4>3 DEF Pending
      <3>3. CASE admin[a].kind = "edit"
        <4>1. Token(row.doc) = Token(d)
          BY <2>3, <3>3 DEF Clobbers, TokenRead
        <4>2. SameToken(row.doc, d)
          BY <1>0, <4>1, Tokens
        <4>. QED
          BY <3>0, <4>2 DEF SameToken
      <3>. QED
        BY <1>0, <3>1, <3>2, <3>3 DEF AdminType
    <2>4. Clobbers(a) => Spoilt'
      BY <1>5 DEF Spoilt
    <2>. QED
      BY <1>1, <1>2, <2>1, <2>2, <2>3, <2>4 DEF Writes, Writing, Spoilt
  <1>. QED
    BY <1>4, <1>5 DEF AdminWrite

LEMMA AdminShapes ==
    ASSUME TypeOK, Calls, Admin
    PROVE  Quiet \/ \E a \in Operations : Reauthorizes(a) \/ CallRotates(a) \/ Writes(a)
  <1>1. ASSUME NEW a \in Operations, AdminClear(a) PROVE Quiet
    <2>0. /\ admin \in [Operations -> AdminType] /\ row \in RowType /\ admins \in Nat
      BY GrantNumbers
    <2>1. UNCHANGED <<live, worker, admins>> /\ admin[a].pc = "clear" /\ blame \subseteq blame'
      BY <1>1 DEF AdminClear, Blame
    <2>2. row'.doc = row.doc
      BY <1>1, <2>0 DEF AdminClear, RowType
    <2>3. admin'[a].pc = "idle" /\ OthersKept(a)
      BY <1>1, <2>0 DEF AdminClear, AdminIdle, OthersKept
    <2>4. Calls => Calls'
      BY <2>1, <2>3 DEF Calls, OthersKept
    <2>. QED
      BY <2>0, <2>1, <2>2, <2>3, <2>4, OthersQuiet DEF Writing, Pending
  <1>. QED
    BY <1>1, BeginShape, CallShape, WriteShape DEF Admin

LEMMA InterleavedInit == Init => Interleaved
  <1>. SUFFICES ASSUME Init PROVE Interleaved
    OBVIOUS
  <1>1. /\ \A w \in Workers : ~Active(w) /\ ~Carrier(w)
        /\ \A a \in Operations : ~Writing(a) /\ ~Pending(a) /\ admin[a].pc = "idle"
        /\ row.doc = First /\ admins = 0
        /\ live \subseteq {Token(First)} /\ (Token(First) \in live \/ Spoilt)
    BY DEF Init, Active, Carrier, Writing, Pending, Idle, AdminIdle, Spoilt
  <1>2. Around = {First}
    BY <1>1 DEF Around
  <1>3. First.grant = 0 /\ First.n = 0 /\ Token(First)[1] = 0 /\ Token(First)[2] = 0
    BY DEF First, Token
  <1>. QED
    BY <1>1, <1>2, <1>3 DEF Interleaved, Calls, Numbered, Newest, Sole, Own, Held, Carried, Usable

LEMMA StepShape ==
    ASSUME TypeOK, Calls, [Next]_vars
    PROVE  \/ Quiet
           \/ \E a \in Operations : Reauthorizes(a) \/ CallRotates(a) \/ Writes(a)
           \/ \E w \in Workers : Rotates(w) \/ StoresBy(w)
  <1>1. ASSUME NEW w \in Workers, Start(w) \/ Attempt(w) \/ Outcome(w)
        PROVE  Quiet \/ Rotates(w) \/ StoresBy(w)
    BY <1>1, OutsideQuiet, AttemptShapes, QuietByQuiet DEF Attempt
  <1>. QED
    BY <1>1, AdminShapes, RestQuiet DEF Next

LEMMA TypedNext == ASSUME TypeOK, [Next]_vars PROVE Typed /\ Typed'
  <1>1. TypeOK' /\ Typed
    BY TypeNext, TypedFromType
  <1>2. admins' \in 0 .. MaxAdmin
    BY <1>1 DEF TypeOK
  <1>3. admins' \in Nat
    BY <1>2, Bounds, Ranges, Zenon
  <1>. QED
    BY <1>1, <1>3 DEF TypeOK, Typed

LEMMA InterleavedNext == TypeOK /\ Interleaved /\ [Next]_vars => Interleaved'
  <1>. SUFFICES ASSUME TypeOK, Interleaved, [Next]_vars PROVE Interleaved'
    OBVIOUS
  <1>1. Typed /\ Typed' /\ Calls
    BY TypedNext DEF Interleaved
  <1>. QED
    BY <1>1, StepShape, QuietKeeps, ReauthorizesKeeps, CallRotatesKeeps, WritesKeeps,
       RotatesKeeps, StoresKeeps

(* The account does not lose its grant by the interleaving of refreshers:   *)
(* not even of refreshers that overlap because a lock was skipped.          *)
THEOREM StoredStaysUsable == Spec => []StoredUsable
  <1>1. TypeOK /\ Interleaved => StoredUsable
    <2>. SUFFICES ASSUME TypeOK, Interleaved, ~Spoilt PROVE StoredUsable
      BY DEF StoredUsable, Spoilt
    <2>1. Typed
      BY TypedFromType
    <2>2. \A w \in Workers : SameToken(worker[w].snap, row.doc) =>
                             Token(worker[w].snap) = Token(row.doc)
      BY <2>1, Tokens DEF Typed
    <2>. QED
      BY <2>2 DEF Interleaved, Usable, StoredUsable, Carrier, SomePending, Pending
  <1>. QED
    BY <1>1, TypeInit, TypeNext, InterleavedInit, InterleavedNext, PTL DEF Spec

-----------------------------------------------------------------------------
(* No sound account is put out of service.                                  *)

\* A token that was refused stays refused: what is accepted is newer.
OutOfDate(d, grants, accepted) ==
    /\ d.grant <= grants
    /\ \A t \in accepted : t[1] = d.grant => d.n < t[2]
Dead(d) == OutOfDate(d, admins, live)
DeadNext(d) == OutOfDate(d, admins', live')

\* Nobody carries the successor of d to the database.
Uncarried(d) == \A v \in Workers : Carrier(v) => ~SameToken(worker[v].snap, d)

\* The worker is about to put the account out of service.
Marking(w) ==
    worker[w].pc = "mark" \/ (worker[w].pc = "release" /\ worker[w].then = "mark")

Refused == \A w \in Workers :
    /\ worker[w].pc = "recover" => Dead(worker[w].snap)
    /\ Marking(w) => Dead(worker[w].held)

\* The token that is judged has no successor on its way.
Apart == "unlocked" \notin blame =>
    /\ \A w \in Workers : Marking(w) => Uncarried(worker[w].held)
    /\ \A a \in Operations : admin[a].pc = "write" => admin[a].kind # "refresh"

Excused ==
    \/ "unlocked" \in blame \/ "not cleared" \in blame \/ "stale error" \in blame
    \/ "stale mark" \in blame \/ (platform = "other" /\ "clobbered" \in blame)

Clearing == \E a \in Operations : admin[a].pc = "clear"

Errors == ~Excused /\ row.status = "error" /\ ~Clearing => Dead(row.doc) /\ Uncarried(row.doc)

\* A grok account is marked only with the document that was refused.
Compared == platform = "grok" => "stale mark" \notin blame

Judged == Refused /\ Apart /\ Errors /\ Compared

LEMMA DeadStays ==
    ASSUME TypeOK, Interleaved, [Next]_vars
    PROVE  \A d \in Docs : Dead(d) => DeadNext(d)
  <1>. SUFFICES ASSUME NEW d \in Docs, Dead(d) PROVE DeadNext(d)
    OBVIOUS
  <1>0. /\ Typed /\ Typed' /\ Calls /\ d.grant \in Nat /\ d.n \in Nat
        /\ admins \in Nat /\ admins' \in Nat
    BY TypedNext DEF Interleaved, Docs, Typed
  <1>1. CASE Quiet
    BY <1>0, <1>1 DEF Quiet, Dead, DeadNext, OutOfDate
  <1>2. ASSUME NEW a \in Operations, Reauthorizes(a) PROVE DeadNext(d)
    <2>1. admin'[a].doc \in Docs /\ Token(admin'[a].doc)[1] = admins + 1
      BY <1>0, <1>2, Tokens DEF Typed, Reauthorizes
    <2>2. /\ \A t \in live' : t \in live \/ t = Token(admin'[a].doc)
          /\ admins' = admins + 1
      BY <1>2 DEF Reauthorizes
    <2>. QED
      BY <1>0, <2>1, <2>2 DEF Dead, DeadNext, OutOfDate
  <1>3. ASSUME NEW e \in Docs, Token(e) \in live, Grant(e), UNCHANGED admins PROVE DeadNext(d)
    <2>1. /\ Token(e)[1] = e.grant /\ Token(e)[2] = e.n /\ e.n \in Nat
          /\ Token(Rotated(e))[1] = e.grant /\ Token(Rotated(e))[2] = e.n + 1
      BY Tokens, DocFacts DEF Docs
    <2>2. \A t \in live' : t \in live \/ t = Token(Rotated(e))
      BY <1>3 DEF Grant
    <2>3. d.grant = e.grant => d.n < e.n
      BY <1>3, <2>1 DEF Dead, DeadNext, OutOfDate
    <2>. QED
      BY <1>0, <1>3, <2>1, <2>2, <2>3 DEF Dead, DeadNext, OutOfDate
  <1>4. ASSUME NEW a \in Operations, CallRotates(a) PROVE DeadNext(d)
    BY <1>0, <1>3, <1>4 DEF CallRotates, Typed
  <1>5. ASSUME NEW a \in Operations, Writes(a) PROVE DeadNext(d)
    BY <1>5 DEF Writes, Dead, DeadNext
  <1>6. ASSUME NEW w \in Workers, Rotates(w) PROVE DeadNext(d)
    BY <1>0, <1>3, <1>6 DEF Rotates, Typed
  <1>7. ASSUME NEW w \in Workers, StoresBy(w) PROVE DeadNext(d)
    BY <1>7 DEF StoresBy, Dead, DeadNext
  <1>. QED
    BY <1>0, <1>1, <1>2, <1>4, <1>5, <1>6, <1>7, StepShape

\* How a worker comes to use, to judge and to carry a token, and to mark.
LEMMA WorkerSteps ==
    ASSUME TypeOK, [Next]_vars, NEW v \in Workers
    PROVE  /\ Marking(v)' =>
                 \/ Marking(v) /\ worker'[v].held = worker[v].held
                 \/ worker[v].pc = "recover" /\ worker'[v].held = worker[v].snap
           /\ worker'[v].pc = "recover" =>
                 /\ worker'[v].snap = worker[v].snap
                 /\ \/ worker[v].pc = "recover"
                    \/ worker[v].pc = "refresh" /\ Token(worker[v].snap) \notin live
           /\ worker'[v].pc = "persist" =>
                 /\ worker'[v].snap = worker[v].snap
                 /\ \/ worker[v].pc = "persist"
                    \/ worker[v].pc = "refresh" /\ Token(worker[v].snap) \in live
           /\ worker'[v].pc = "refresh" =>
                 \/ worker[v].pc = "refresh" /\ worker'[v].snap = worker[v].snap
                 \/ worker[v].pc = "read" /\ worker'[v].snap = row.doc
  <1>0. worker \in [Workers -> WorkerType]
    BY TypeParts DEF Data
  <1>. DEFINE Mild == ~Marking(v)' /\ worker'[v].pc \notin {"refresh", "recover", "persist"}
              Same == worker'[v] = worker[v]
  <1>1. ASSUME NEW p, NEW d, Leave(v, p, d)
        PROVE  worker'[v].pc = "release" /\ worker'[v].then = p /\ worker'[v].held = d
    BY <1>0, <1>1 DEF Leave, WorkerType
  <1>2. CASE Same
    BY <1>2 DEF Marking
  <1>3. CASE Start(v) \/ MutexTimeout(v) \/ Retry(v)
    <2>1. CASE Start(v)
      BY <1>0, <2>1 DEF Start, Marking, Idle
    <2>2. CASE MutexTimeout(v)
      BY <1>0, <2>2 DEF MutexTimeout, Marking, Idle, WorkerType
    <2>3. CASE Retry(v)
      BY <1>0, <2>3 DEF Retry, Marking, WorkerType
    <2>. QED
      BY <1>3, <2>1, <2>2, <2>3
  <1>4. CASE Acquire(v)
    <2>1. \/ worker' = [worker EXCEPT ![v].pc = "read", ![v].owns = TRUE]
          \/ worker' = [worker EXCEPT ![v] = Idle]
          \/ worker' = [worker EXCEPT ![v].pc = "read"]
      BY <1>4 DEF Acquire, Goto
    <2>2. worker'[v].pc \in {"read", "idle"}
      BY <1>0, <2>1 DEF Idle, WorkerType
    <2>. QED
      BY <2>2 DEF Marking
  <1>5. CASE Reread(v)
    <2>1. \/ worker' = [worker EXCEPT ![v].pc = "refresh", ![v].snap = row.doc,
                                      ![v].sawCool = row.cooldown]
          \/ Leave(v, "idle", First)
      BY <1>5 DEF Reread, LeaveDone
    <2>2. worker[v].pc = "read"
      BY <1>5 DEF Reread
    <2>3. \/ worker'[v].pc = "refresh" /\ worker'[v].snap = row.doc
          \/ worker'[v].pc = "release" /\ worker'[v].then = "idle"
      BY <1>0, <1>1, <2>1 DEF WorkerType
    <2>. QED
      BY <2>2, <2>3 DEF Marking
  <1>6. CASE Refresh(v)
    <2>1. CASE Goto(v, "persist") /\ Token(worker[v].snap) \in live
      <3>1. worker'[v].pc = "persist" /\ worker'[v].snap = worker[v].snap /\ worker[v].pc = "refresh"
        BY <1>0, <1>6, <2>1 DEF Goto, WorkerType, Refresh
      <3>. QED
        BY <2>1, <3>1 DEF Marking
    <2>2. CASE Goto(v, "recover") /\ Token(worker[v].snap) \notin live
      <3>1. worker'[v].pc = "recover" /\ worker'[v].snap = worker[v].snap /\ worker[v].pc = "refresh"
        BY <1>0, <1>6, <2>2 DEF Goto, WorkerType, Refresh
      <3>. QED
        BY <2>2, <3>1 DEF Marking
    <2>3. ASSUME NEW h, Leave(v, AfterFailure(v), h) PROVE Mild
      BY <1>1, <2>3 DEF AfterFailure, Marking
    <2>. QED
      BY <1>6, <2>1, <2>2, <2>3 DEF Refresh
  <1>7. CASE Recover(v)
    <2>1. \/ Leave(v, "idle", First) \/ Leave(v, "idle", worker[v].snap)
          \/ Leave(v, "mark", worker[v].snap)
      BY <1>7 DEF Recover, LeaveDone
    <2>2. worker[v].pc = "recover"
      BY <1>7 DEF Recover
    <2>3. /\ worker'[v].pc = "release"
          /\ worker'[v].then = "idle" \/ worker'[v].held = worker[v].snap
      BY <1>1, <2>1
    <2>. QED
      BY <2>2, <2>3 DEF Marking
  <1>8. CASE Persist(v)
    <2>1. \E p \in {"idle", "post", "retry"} : \E h : Leave(v, p, h)
      BY <1>8 DEF Persist, PersistGrok, PersistOther, LeaveDone, LeaveStored, AfterFailure
    <2>2. worker'[v].pc = "release" /\ worker'[v].then \in {"idle", "post", "retry"}
      BY <1>1, <2>1
    <2>. QED
      BY <2>2 DEF Marking
  <1>9. CASE Release(v)
    <2>1. /\ worker[v].pc = "release"
          /\ \/ worker[v].then = "idle" /\ worker'[v].pc = "idle"
             \/ worker'[v].pc = worker[v].then /\ worker'[v].held = worker[v].held
      BY <1>0, <1>9 DEF Release, Idle, WorkerType
    <2>2. worker[v].then \in {"idle", "retry", "mark", "post"}
      BY <1>0 DEF WorkerType
    <2>. QED
      BY <2>1, <2>2 DEF Marking
  <1>10. CASE Mark(v) \/ Cool(v) \/ PostRefresh(v)
    <2>1. worker' = [worker EXCEPT ![v] = Idle]
      BY <1>10 DEF Mark, Cool, PostRefresh
    <2>. QED
      BY <1>0, <2>1 DEF Idle, Marking
  <1>11. ASSUME NEW w \in Workers \ {v}, Start(w) \/ Attempt(w) \/ Outcome(w) PROVE Same
    <2>1. CASE Start(w) \/ MutexTimeout(w) \/ Outcome(w)
      BY <2>1, OutsideShape
    <2>2. CASE Reread(w) \/ Refresh(w) \/ Recover(w) \/ Persist(w)
      BY <2>2, AttemptShape
    <2>3. CASE Acquire(w) \/ Release(w)
      BY <2>3, OutsideQuiet DEF QuietBy, Others
    <2>. QED
      BY <1>11, <2>1, <2>2, <2>3 DEF Attempt
  <1>12. ASSUME NEW p \in Processes, Crash(p) PROVE Same \/ Mild
    BY <1>0, <1>12 DEF Crash, Idle, Marking
  <1>13. CASE Admin \/ BecomeDue \/ CooldownEnds \/ LeaseEnds \/ UNCHANGED vars
    BY <1>13, <1>2 DEF Admin, adminVars, AdminBegin, AdminCall, AdminWrite, AdminClear, BecomeDue,
                       CooldownEnds, LeaseEnds, vars
  <1>. QED
    BY <1>2, <1>3, <1>4, <1>5, <1>6, <1>7, <1>8, <1>9, <1>10, <1>11, <1>12, <1>13
       DEF Next, Attempt, Outcome

LEMMA BlameGrows == ASSUME TypeOK, [Next]_vars PROVE blame \subseteq blame' /\ UNCHANGED platform
  <1>1. ASSUME NEW w \in Workers, Start(w) \/ Attempt(w) \/ Outcome(w)
        PROVE  blame \subseteq blame' /\ UNCHANGED platform
    <2>1. UNCHANGED platform
      BY <1>1 DEF Start, Attempt, Outcome, Acquire, MutexTimeout, Reread, Refresh, Recover,
                  Persist, Release, Retry, Mark, Cool, PostRefresh
    <2>2. CASE Start(w) \/ MutexTimeout(w) \/ Outcome(w)
      BY <2>1, <2>2, OutsideShape
    <2>3. CASE Reread(w) \/ Refresh(w) \/ Recover(w) \/ Persist(w)
      BY <2>1, <2>3, AttemptShape
    <2>4. CASE Acquire(w) \/ Release(w)
      BY <2>1, <2>4 DEF Acquire, Release, Blame
    <2>. QED
      BY <1>1, <2>2, <2>3, <2>4 DEF Attempt
  <1>2. CASE Admin
    BY <1>2 DEF Admin, AdminBegin, AdminCall, AdminWrite, AdminClear, Blame
  <1>3. CASE BecomeDue \/ CooldownEnds \/ LeaseEnds \/ UNCHANGED vars
    BY <1>3 DEF BecomeDue, CooldownEnds, LeaseEnds, vars, Blame
  <1>4. ASSUME NEW p \in Processes, Crash(p) PROVE blame \subseteq blame' /\ UNCHANGED platform
    BY <1>4 DEF Crash, Blame
  <1>. QED
    BY <1>1, <1>2, <1>3, <1>4 DEF Next

LEMMA RefusedNext ==
    ASSUME TypeOK, Interleaved, Refused, [Next]_vars
    PROVE  Refused'
  <1>0. TypeOK' /\ Typed /\ \A w \in Workers : worker[w].held \in Docs /\ worker[w].snap \in Docs
    BY TypeNext, TypedNext DEF TypeOK, Typed
  <1>1. ASSUME NEW v \in Workers, worker'[v].pc = "recover" PROVE DeadNext(worker'[v].snap)
    <2>1. worker'[v].snap = worker[v].snap
      BY <1>1, WorkerSteps
    <2>2. CASE worker[v].pc = "recover"
      BY <1>0, <2>1, <2>2, DeadStays DEF Refused
    <2>3. CASE worker[v].pc = "refresh" /\ Token(worker[v].snap) \notin live
      <3>1. worker[v].snap \in Around
        BY <2>3 DEF Around, Active
      <3>2. \A t \in live : t = <<t[1], t[2]>> /\ t[2] \in Nat
        BY <1>0 DEF Typed
      <3>3. \A t \in live : t[1] = worker[v].snap.grant => t[2] # worker[v].snap.n
        BY <2>3, <3>2 DEF Token
      <3>4. worker[v].snap.n \in Nat
        BY <1>0 DEF Docs
      <3>5. Dead(worker[v].snap)
        BY <3>1, <3>2, <3>3, <3>4 DEF Dead, OutOfDate, Interleaved, Numbered, Newest
      <3>. QED
        BY <1>0, <2>1, <3>5, DeadStays
    <2>. QED
      BY <1>1, <2>2, <2>3, WorkerSteps
  <1>2. ASSUME NEW v \in Workers, Marking(v)' PROVE DeadNext(worker'[v].held)
    <2>1. CASE Marking(v) /\ worker'[v].held = worker[v].held
      BY <1>0, <2>1, DeadStays DEF Refused
    <2>2. CASE worker[v].pc = "recover" /\ worker'[v].held = worker[v].snap
      BY <1>0, <2>2, DeadStays DEF Refused
    <2>. QED
      BY <1>2, <2>1, <2>2, WorkerSteps
  <1>. QED
    BY <1>1, <1>2 DEF Refused, Dead, DeadNext

\* A refused token is not accepted, and neither is one equal to it.
LEMMA DeadTokens ==
    ASSUME TypeOK, NEW d \in Docs, NEW e \in Docs, Dead(d), SameToken(d, e)
    PROVE  Dead(e) /\ Token(d) \notin live /\ Token(e) \notin live
  <1>1. /\ Token(d)[1] = d.grant /\ Token(d)[2] = d.n /\ d.n \in Nat
        /\ Token(e)[1] = e.grant /\ Token(e)[2] = e.n
    BY Tokens DEF Docs
  <1>. QED
    BY <1>1 DEF Dead, OutOfDate, SameToken

\* A token that is refused gets no successor.
LEMMA UncarriedStays ==
    ASSUME TypeOK, Interleaved, [Next]_vars, NEW d \in Docs, Dead(d), Uncarried(d)
    PROVE  Uncarried(d)'
  <1>0. \A v \in Workers : worker[v].snap \in Docs
    BY TypedNext DEF Typed
  <1>1. ASSUME NEW v \in Workers, Carrier(v)', SameToken(worker'[v].snap, d) PROVE FALSE
    <2>1. worker'[v].snap = worker[v].snap /\ (Carrier(v) \/ Token(worker[v].snap) \in live)
      BY <1>1, WorkerSteps DEF Carrier
    <2>2. SameToken(d, worker[v].snap)
      BY <1>1, <2>1 DEF SameToken
    <2>3. Token(worker[v].snap) \notin live
      BY <1>0, <2>2, DeadTokens
    <2>. QED
      BY <1>1, <2>1, <2>3 DEF Uncarried
  <1>. QED
    BY <1>1 DEF Uncarried

\* What a step that is not an operation's does to the row.
RowKept == row'.doc = row.doc /\ row'.status = row.status
RowMarked ==
    /\ row'.doc = row.doc /\ row'.status = "error"
    /\ "stale mark" \in blame' \/ \E w \in Workers : Marking(w) /\ SameToken(row.doc, worker[w].held)
RowStored ==
    /\ row'.status = row.status
    /\ \/ \E w \in Workers : Carrier(w) /\ worker[w].snap = row.doc
       \/ platform = "other" /\ "clobbered" \in blame'

LEMMA RowSteps ==
    ASSUME TypeOK, [Next]_vars, ~Admin
    PROVE  UNCHANGED admin /\ (RowKept \/ RowMarked \/ RowStored)
  <1>0. row \in RowType /\ row.doc \in Docs /\ \A w \in Workers : worker[w].held \in Docs
    BY TypeParts DEF Data, RowType, WorkerType
  <1>1. ASSUME NEW w \in Workers, Start(w) \/ Attempt(w) \/ Outcome(w)
        PROVE  UNCHANGED admin /\ (RowKept \/ RowMarked \/ RowStored)
    <2>1. UNCHANGED admin
      BY <1>1 DEF Start, Attempt, Outcome, Acquire, MutexTimeout, Reread, Refresh, Recover,
                  Persist, Release, Retry, Mark, Cool, PostRefresh, adminVars
    <2>2. CASE Start(w) \/ Acquire(w) \/ MutexTimeout(w) \/ Reread(w) \/ Refresh(w) \/ Recover(w)
               \/ Release(w) \/ Retry(w)
      BY <2>1, <2>2 DEF Start, Acquire, MutexTimeout, Reread, Refresh, Recover, Release, Retry, RowKept
    <2>3. CASE Cool(w) \/ PostRefresh(w)
      BY <1>0, <2>1, <2>3 DEF Cool, PostRefresh, RowType, RowKept
    <2>4. CASE Mark(w)
      <3>1. \/ UNCHANGED row
            \/ /\ row' = [row EXCEPT !.status = "error"]
               /\ Blame("stale mark", Token(row.doc) # Token(worker[w].held))
        BY <2>4 DEF Mark
      <3>2. Marking(w)
        BY <2>4 DEF Mark, Marking
      <3>3. CASE UNCHANGED row
        BY <2>1, <3>3 DEF RowKept
      <3>4. CASE /\ row' = [row EXCEPT !.status = "error"]
                 /\ Blame("stale mark", Token(row.doc) # Token(worker[w].held))
        <4>1. row'.doc = row.doc /\ row'.status = "error"
          BY <1>0, <3>4 DEF RowType
        <4>2. "stale mark" \in blame' \/ SameToken(row.doc, worker[w].held)
          BY <1>0, <3>4, Tokens DEF Blame
        <4>. QED
          BY <2>1, <3>2, <4>1, <4>2 DEF RowMarked
      <3>. QED
        BY <3>1, <3>3, <3>4
    <2>5. CASE Persist(w)
      <3>1. \/ UNCHANGED row
            \/ /\ Store(worker[w].snap)
               /\ row.doc = worker[w].snap \/ (platform = "other" /\ "clobbered" \in blame')
        BY <2>5 DEF Persist, PersistGrok, PersistOther, Blame
      <3>2. Carrier(w)
        BY <2>5 DEF Persist, Carrier
      <3>3. Store(worker[w].snap) => row'.status = row.status
        BY <1>0 DEF Store, RowType
      <3>. QED
        BY <2>1, <3>1, <3>2, <3>3 DEF RowKept, RowStored
    <2>. QED
      BY <1>1, <2>2, <2>3, <2>4, <2>5 DEF Attempt, Outcome
  <1>2. CASE BecomeDue \/ CooldownEnds
    BY <1>0, <1>2 DEF BecomeDue, CooldownEnds, adminVars, RowType, RowKept
  <1>3. CASE LeaseEnds \/ UNCHANGED vars \/ \E p \in Processes : Crash(p)
    BY <1>3 DEF LeaseEnds, Crash, vars, adminVars, RowKept
  <1>. QED
    BY <1>1, <1>2, <1>3 DEF Next

\* What an operation does to it, without a refresh by hand: an error is written
\* back over the same error, or marked as stale.
ClearKept == Clearing => Clearing' \/ "not cleared" \in blame'
RowAgain ==
    /\ SameToken(row.doc, row'.doc)
    /\ row'.status = "error" => row.status = "error"
    /\ ClearKept

LEMMA AdminSteps ==
    ASSUME TypeOK, Calls, Apart, "unlocked" \notin blame', "unlocked" \notin blame, Admin
    PROVE  /\ UNCHANGED worker
           /\ \A a \in Operations : admin'[a].pc = "write" => admin'[a].kind # "refresh"
           /\ RowAgain \/ row'.status = "active" \/ Clearing' \/ "stale error" \in blame'
  <1>0. /\ row \in RowType /\ row.doc \in Docs /\ admin \in [Operations -> AdminType] /\ admins \in Nat
        /\ \A a \in Operations : admin[a].doc \in Docs /\ a \in Nat
        /\ \A a \in Operations : admin[a].pc = "write" => admin[a].kind # "refresh"
    BY GrantNumbers DEF Operations, Apart
  <1>00. UNCHANGED worker
    BY DEF Admin, AdminBegin, AdminCall, AdminWrite, AdminClear
  <1>000. row' = row /\ ClearKept => RowAgain
    BY DEF RowAgain, SameToken
  <1>1. CASE AdminBegin
    <2>1. UNCHANGED row /\ admins + 1 \in Operations
      BY <1>0, <1>1, Bounds DEF AdminBegin, Operations
    <2>. PICK o \in Operations : o = admins + 1
      BY <2>1
    <2>2. ASSUME NEW kind \in {"edit", "reauth", "refresh"}, NEW d, ReadRow(o, kind, d)
          PROVE  /\ \A a \in Operations \ {o} : admin'[a] = admin[a]
                 /\ admin'[o].kind = kind
                 /\ admin'[o].pc = IF kind = "refresh" THEN "call" ELSE "write"
      BY <1>0, <2>2 DEF ReadRow
    <2>3. /\ \A a \in Operations \ {o} : admin'[a] = admin[a]
          /\ admin'[o].pc = "write" => admin'[o].kind # "refresh"
      <3>1. \/ ReadRow(o, "edit", row.doc) \/ ReadRow(o, "refresh", row.doc)
            \/ \E d : ReadRow(o, "reauth", d)
        BY <1>1 DEF AdminBegin
      <3>. QED
        BY <2>2, <3>1
    <2>4. admin[o].pc = "idle"
      BY <1>0 DEF Calls
    <2>5. ClearKept
      BY <2>3, <2>4 DEF ClearKept, Clearing
    <2>. QED
      BY <1>0, <1>00, <1>000, <2>1, <2>3, <2>5
  <1>2. ASSUME NEW a \in Operations, AdminCall(a)
        PROVE  RowAgain /\ \A b \in Operations : admin'[b].pc = "write" => admin'[b].kind # "refresh"
    <2>1. UNCHANGED row /\ admin[a].pc = "call" /\ admin' = [admin EXCEPT ![a] = AdminIdle]
      BY <1>2 DEF AdminCall, Blame
    <2>2. \A b \in Operations : \/ b # a /\ admin'[b] = admin[b]
                                \/ b = a /\ admin'[b].pc = "idle"
      BY <1>0, <2>1 DEF AdminIdle
    <2>3. ClearKept
      BY <2>1, <2>2 DEF ClearKept, Clearing
    <2>. QED
      BY <1>0, <1>000, <2>1, <2>2, <2>3
  <1>3. ASSUME NEW a \in Operations, AdminWrite(a)
        PROVE  /\ RowAgain \/ row'.status = "active" \/ Clearing' \/ "stale error" \in blame'
               /\ \A b \in Operations : admin'[b].pc = "write" => admin'[b].kind # "refresh"
    <2>1. admin[a].kind \in {"edit", "reauth"} /\ admin[a].pc = "write" /\ admin[a].status \in {"active", "error"}
      BY <1>0, <1>3 DEF AdminWrite, AdminType
    <2>2. /\ \A b \in Operations \ {a} : admin'[b] = admin[b]
          /\ admin'[a].pc \in {"idle", "clear"}
      <3>1. \E r \in {AdminIdle, [admin[a] EXCEPT !.pc = "clear"]} : admin' = [admin EXCEPT ![a] = r]
        BY <1>3 DEF AdminWrite
      <3>2. \A r \in {AdminIdle, [admin[a] EXCEPT !.pc = "clear"]} : r.pc \in {"idle", "clear"}
        BY <1>0 DEF AdminIdle, AdminType
      <3>. QED
        BY <1>0, <3>1, <3>2
    <2>3. ClearKept
      BY <2>1, <2>2 DEF ClearKept, Clearing
    <2>4. \A b \in Operations : admin'[b].pc = "write" => admin'[b].kind # "refresh"
      BY <1>0, <2>2
    <2>5. CASE UNCHANGED row
      BY <1>000, <2>3, <2>4, <2>5
    <2>6. CASE /\ admin[a].kind = "reauth"
               /\ admin' = [admin EXCEPT ![a] = [@ EXCEPT !.pc = "clear"]]
      <3>1. admin'[a].pc = "clear"
        BY <1>0, <2>6 DEF AdminType
      <3>. QED
        BY <2>4, <3>1 DEF Clearing
    <2>7. CASE /\ admin[a].kind = "edit"
               /\ \E new \in {admin[a].doc, [admin[a].doc EXCEPT !.cfg = @ + 1]} :
                    row' = [row EXCEPT !.doc = new, !.status = admin[a].status,
                              !.due = (admin[a].kind = "edit" /\ admin[a].due)]
               /\ RestoresError(a) => "stale error" \in blame'
      <3>1. PICK new \in {admin[a].doc, [admin[a].doc EXCEPT !.cfg = @ + 1]} :
                row'.doc = new /\ row'.status = admin[a].status
        BY <1>0, <2>7 DEF RowType
      <3>2. SameToken(admin[a].doc, new)
        BY <1>0, <3>1 DEF SameToken, Docs
      <3>3. CASE admin[a].status = "error" /\ ~RestoresError(a)
        <4>1. row.status = "error" /\ Token(row.doc) = Token(admin[a].doc)
          BY <2>7, <3>3 DEF RestoresError, TokenRead
        <4>2. SameToken(row.doc, admin[a].doc)
          BY <1>0, <4>1, Tokens
        <4>. QED
          BY <2>3, <2>4, <3>1, <3>2, <4>1, <4>2 DEF RowAgain, SameToken
      <3>. QED
        BY <2>1, <2>4, <2>7, <3>1, <3>3
    <2>. QED
      BY <1>3, <2>1, <2>5, <2>6, <2>7 DEF AdminWrite
  <1>4. ASSUME NEW a \in Operations, AdminClear(a)
        PROVE  /\ RowAgain \/ row'.status = "active"
               /\ \A b \in Operations : admin'[b].pc = "write" => admin'[b].kind # "refresh"
    <2>1. /\ admin' = [admin EXCEPT ![a] = AdminIdle]
          /\ \/ row' = [row EXCEPT !.status = "active", !.cooldown = FALSE]
             \/ UNCHANGED row /\ "not cleared" \in blame'
      BY <1>4 DEF AdminClear, Blame
    <2>2. \A b \in Operations : admin'[b] = admin[b] \/ admin'[b].pc = "idle"
      BY <1>0, <2>1 DEF AdminIdle
    <2>3. CASE row' = [row EXCEPT !.status = "active", !.cooldown = FALSE]
      BY <1>0, <2>2, <2>3 DEF RowType
    <2>4. CASE UNCHANGED row /\ "not cleared" \in blame'
      BY <1>0, <1>000, <2>2, <2>4 DEF ClearKept
    <2>. QED
      BY <2>1, <2>3, <2>4
  <1>. QED
    BY <1>00, <1>1, <1>2, <1>3, <1>4 DEF Admin

LEMMA ApartNext ==
    ASSUME TypeOK, Interleaved, Locked, Refused, Apart, [Next]_vars
    PROVE  Apart'
  <1>. SUFFICES ASSUME "unlocked" \notin blame' PROVE Apart'
    BY DEF Apart
  <1>0. /\ "unlocked" \notin blame /\ Calls
        /\ \A w \in Workers : worker[w].held \in Docs
    BY BlameGrows DEF Interleaved, TypeOK
  <1>1. ASSUME NEW w \in Workers, Marking(w)' PROVE Uncarried(worker[w].held)'
    <2>1. CASE worker[w].pc = "recover" /\ worker'[w].held = worker[w].snap
      <3>1. \A v \in Workers : worker[v].pc \notin {"refresh", "persist"}
        BY <1>0, <2>1 DEF Locked, Inside
      <3>2. \A v \in Workers : worker'[v].pc # "persist"
        BY <3>1, WorkerSteps
      <3>. QED
        BY <3>2 DEF Uncarried, Carrier
    <2>2. CASE Marking(w) /\ worker'[w].held = worker[w].held
      <3>. DEFINE d == worker[w].held
      <3>1. d \in Docs /\ Dead(d) /\ Uncarried(d)
        BY <1>0, <2>2 DEF Refused, Apart
      <3>2. \A e \in Docs : Dead(e) /\ Uncarried(e) =>
                \A v \in Workers : Carrier(v)' => ~SameToken(worker'[v].snap, e)
        BY UncarriedStays DEF Uncarried
      <3>3. \A v \in Workers : Carrier(v)' => ~SameToken(worker'[v].snap, d)
        BY <3>1, <3>2
      <3>. QED
        BY <2>2, <3>3 DEF Uncarried
    <2>. QED
      BY <1>1, <2>1, <2>2, WorkerSteps
  <1>2. \A a \in Operations : admin'[a].pc = "write" => admin'[a].kind # "refresh"
    <2>1. CASE Admin
      BY <1>0, <2>1, AdminSteps
    <2>2. CASE ~Admin
      BY <1>0, <2>2, RowSteps DEF Apart
    <2>. QED
      BY <2>1, <2>2
  <1>. QED
    BY <1>1, <1>2 DEF Apart

LEMMA ErrorsNext ==
    ASSUME TypeOK, Interleaved, Refused, Apart, Errors, [Next]_vars
    PROVE  Errors'
  <1>. SUFFICES ASSUME ~Excused', row'.status = "error", ~Clearing'
                PROVE  DeadNext(row'.doc) /\ Uncarried(row.doc)'
    BY DEF Errors, Dead, DeadNext
  <1>0. /\ row.doc \in Docs /\ row'.doc \in Docs /\ \A w \in Workers : worker[w].held \in Docs
        /\ ~Excused /\ "unlocked" \notin blame /\ "unlocked" \notin blame' /\ Calls
    BY TypedNext, BlameGrows DEF Typed, Excused, TypeOK, Interleaved
  \* The same token was refused before the step, and was not carried.
  <1>1. ASSUME NEW d \in Docs, Dead(d), Uncarried(d), SameToken(d, row'.doc)
        PROVE  DeadNext(row'.doc) /\ Uncarried(row.doc)'
    <2>1. DeadNext(d) /\ Uncarried(d)'
      BY <1>1, DeadStays, UncarriedStays
    <2>2. \A e : SameToken(e, row'.doc) <=> SameToken(e, d)
      BY <1>1 DEF SameToken
    <2>. QED
      BY <1>1, <2>1, <2>2 DEF DeadNext, OutOfDate, SameToken, Uncarried
  <1>2. ASSUME row.status = "error", SameToken(row.doc, row'.doc), ~Clearing
        PROVE  DeadNext(row'.doc) /\ Uncarried(row.doc)'
    BY <1>0, <1>1, <1>2 DEF Errors
  <1>3. CASE Admin
    <2>1. RowAgain
      BY <1>0, <1>3, AdminSteps DEF Excused
    <2>2. ~Clearing
      BY <2>1 DEF RowAgain, ClearKept, Excused
    <2>. QED
      BY <1>2, <2>1, <2>2 DEF RowAgain
  <1>4. CASE ~Admin
    <2>1. UNCHANGED admin /\ (RowKept \/ RowMarked \/ RowStored)
      BY <1>4, RowSteps
    <2>2. ~Clearing
      BY <2>1 DEF Clearing
    <2>3. CASE RowKept
      BY <1>2, <2>2, <2>3 DEF RowKept, SameToken
    <2>4. CASE RowMarked
      <3>1. PICK w \in Workers : Marking(w) /\ SameToken(row.doc, worker[w].held)
        BY <2>4 DEF RowMarked, Excused
      <3>2. Dead(worker[w].held) /\ Uncarried(worker[w].held)
        BY <1>0, <3>1 DEF Refused, Apart
      <3>. QED
        BY <1>0, <1>1, <2>4, <3>1, <3>2 DEF RowMarked, SameToken
    <2>5. CASE RowStored
      <3>1. PICK w \in Workers : Carrier(w) /\ worker[w].snap = row.doc
        BY <2>5, BlameGrows DEF RowStored, Excused
      <3>2. Uncarried(row.doc)
        BY <1>0, <2>2, <2>5 DEF Errors, RowStored
      <3>. QED
        BY <3>1, <3>2 DEF Uncarried, SameToken
    <2>. QED
      BY <2>1, <2>3, <2>4, <2>5
  <1>. QED
    BY <1>3, <1>4

LEMMA ComparedNext == TypeOK /\ Compared /\ [Next]_vars => Compared'
  <1>. SUFFICES ASSUME TypeOK, Compared, [Next]_vars, platform = "grok", "stale mark" \notin blame
       PROVE "stale mark" \notin blame'
    BY BlameGrows DEF Compared
  <1>0. row.doc \in Docs /\ \A w \in Workers : worker[w].held \in Docs
    BY TypeParts DEF Data, RowType, WorkerType
  <1>1. ASSUME NEW w \in Workers, Mark(w) PROVE "stale mark" \notin blame'
    BY <1>0, <1>1 DEF Mark, Blame
  <1>2. ASSUME NEW b \in {"unlocked", "lost", "clobbered", "not cleared"}, NEW cond, Blame(b, cond)
        PROVE  "stale mark" \notin blame'
    BY <1>2 DEF Blame
  <1>3. ASSUME NEW w \in Workers, Attempt(w) PROVE "stale mark" \notin blame'
    <2>1. CASE Acquire(w)
      BY <1>2, <2>1 DEF Acquire
    <2>2. CASE Refresh(w)
      BY <1>2, <2>2 DEF Refresh
    <2>3. CASE Persist(w)
      BY <1>2, <2>3 DEF Persist, PersistGrok, PersistOther
    <2>4. CASE MutexTimeout(w) \/ Reread(w) \/ Recover(w) \/ Release(w)
      BY <2>4 DEF MutexTimeout, Reread, Recover, Release
    <2>. QED
      BY <1>3, <2>1, <2>2, <2>3, <2>4 DEF Attempt
  <1>4. ASSUME NEW w \in Workers, Start(w) \/ Retry(w) \/ Cool(w) \/ PostRefresh(w)
        PROVE  "stale mark" \notin blame'
    BY <1>4 DEF Start, Retry, Cool, PostRefresh
  <1>5. CASE Admin
    <2>1. CASE AdminBegin
      BY <2>1 DEF AdminBegin
    <2>2. ASSUME NEW a \in Operations, AdminCall(a) \/ AdminClear(a) PROVE "stale mark" \notin blame'
      BY <1>2, <2>2 DEF AdminCall, AdminClear
    <2>3. ASSUME NEW a \in Operations, AdminWrite(a) PROVE "stale mark" \notin blame'
      <3>. DEFINE C == IF Clobbers(a) THEN {"clobbered"} ELSE {}
                  E == IF RestoresError(a) THEN {"stale error"} ELSE {}
      <3>1. blame' = blame \cup C \cup E \/ Blame("lost", admin[a].kind # "edit")
        BY <2>3 DEF AdminWrite
      <3>2. "stale mark" \notin C /\ "stale mark" \notin E
        OBVIOUS
      <3>. HIDE DEF C, E
      <3>3. CASE blame' = blame \cup C \cup E
        BY <3>2, <3>3
      <3>4. CASE Blame("lost", admin[a].kind # "edit")
        BY <3>4 DEF Blame
      <3>. QED
        BY <3>1, <3>3, <3>4
    <2>. QED
      BY <1>5, <2>1, <2>2, <2>3 DEF Admin
  <1>6. CASE BecomeDue \/ CooldownEnds \/ LeaseEnds \/ UNCHANGED vars \/ \E p \in Processes : Crash(p)
    BY <1>2, <1>6 DEF BecomeDue, CooldownEnds, LeaseEnds, Crash, vars
  <1>. QED
    BY <1>1, <1>3, <1>4, <1>5, <1>6 DEF Next, Outcome

LEMMA JudgedInit == Init => Judged
  <1>. SUFFICES ASSUME Init PROVE Judged
    OBVIOUS
  <1>1. \A w \in Workers : worker[w].pc = "idle"
    BY DEF Init, Idle
  <1>2. /\ row.status = "active" /\ "stale mark" \notin blame
        /\ \A a \in Operations : admin[a].pc = "idle"
    BY DEF Init, AdminIdle
  <1>. QED
    BY <1>1, <1>2 DEF Judged, Refused, Apart, Errors, Compared, Marking

LEMMA JudgedNext == TypeOK /\ Interleaved /\ Locked /\ Judged /\ [Next]_vars => Judged'
    BY RefusedNext, ApartNext, ErrorsNext, ComparedNext DEF Judged

(* An account is put out of service only with a refresh token the provider  *)
(* refuses, on every platform, except as QuarantineJustified says.          *)
THEOREM QuarantineHolds == Spec => []QuarantineJustified
  <1>1. TypeOK /\ Judged => QuarantineJustified
    <2>. SUFFICES ASSUME TypeOK, Judged, ~Excused, row.status = "error", ~Clearing
         PROVE  Token(row.doc) \notin live
      BY TypeParts DEF QuarantineJustified, Excused, Clearing, Judged, Compared, Flags
    <2>1. Dead(row.doc) /\ row.doc \in Docs
      BY TypedFromType DEF Judged, Errors, Typed
    <2>. QED
      BY <2>1, DeadTokens DEF SameToken
  <1>. QED
    BY <1>1, TypeInit, TypeNext, LockedInit, LockedNext, InterleavedInit, InterleavedNext,
       JudgedInit, JudgedNext, PTL DEF Spec
=============================================================================
