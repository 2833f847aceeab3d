---------------------------- MODULE TokenRefresh ----------------------------
(***************************************************************************)
(* Refresh of the OAuth credentials of ONE upstream account whose provider *)
(* rotates the refresh token at every use: a refresh kills the token it    *)
(* was given and answers with the next one of the same grant.              *)
(*                                                                         *)
(* Workers of several processes refresh the account: the background cycle  *)
(* (TokenRefreshService.refreshWithRetry) and requests that find the       *)
(* access token about to expire (the token providers).  Both go through    *)
(* OAuthRefreshAPI.RefreshIfNeeded, under a mutex of the process and a     *)
(* lock in Redis that is a key without an owner.  Administrators edit,     *)
(* reauthorize and refresh the account outside of that lock, and their     *)
(* requests overlap.                                                       *)
(*                                                                         *)
(* A credential document is a record: the grant it belongs to, the number  *)
(* of rotations since, and the other configuration kept in the document.   *)
(* The account is of a "grok" platform, whose writes compare the document  *)
(* they were computed from, or of an "other" one, whose writes do not.     *)
(***************************************************************************)
EXTENDS Naturals, FiniteSets

CONSTANTS
    Background,    \* the workers of the background cycles
    Requests,      \* the requests that may refresh the account
    Processes,     \* the service's processes
    ProcessOf,     \* the process a worker runs in
    MaxAttempts,   \* token_refresh.max_retries
    MaxFaults,     \* bound: failed calls, crashes, leases outlived
    MaxDue,        \* bound: times the credentials come up for a refresh again
    MaxAdmin,      \* bound: operations of administrators
    MaxEvents      \* bound: all three of them together

Workers == Background \cup Requests

(* The operations of administrators, numbered as they begin. *)
Operations == 1 .. MaxAdmin

ASSUME RefreshAssumption ==
    /\ Background \cap Requests = {}
    /\ ProcessOf \in [Workers -> Processes]
    /\ MaxAttempts \in Nat \ {0}
    /\ MaxFaults \in Nat /\ MaxDue \in Nat /\ MaxAdmin \in Nat /\ MaxEvents \in Nat

VARIABLES
    platform,  \* "grok" or "other"
    row,       \* the account in the database
    live,      \* the refresh tokens the provider accepts
    lock,      \* does the lock's key exist in Redis?
    worker,    \* the local state of each worker
    admin,     \* the local state of each operation
    faults, dues, admins,   \* how much of each bound is used
    blame,     \* what happened that the code does not defend against
    overtaken  \* history: operations under way when another changed the row's grant

vars == <<platform, row, live, lock, worker, admin, faults, dues, admins, blame, overtaken>>

Docs == [grant : Nat, n : Nat, cfg : Nat]
Token(d) == <<d.grant, d.n>>
Rotated(d) == [d EXCEPT !.n = @ + 1]
First == [grant |-> 0, n |-> 0, cfg |-> 0]

(* A worker is "inside" while it holds the mutex of its process. *)
Inside == {"read", "refresh", "recover", "persist", "release"}
PCs == Inside \cup {"idle", "lock", "retry", "mark", "cool", "post"}
Idle == [pc |-> "idle", held |-> First, snap |-> First, owns |-> FALSE,
         tries |-> 0, sawCool |-> FALSE, then |-> "idle"]
AdminIdle == [pc |-> "idle", kind |-> "edit", doc |-> First,
              status |-> "active", due |-> FALSE]

(* The provider may have revoked the grant before. *)
Init ==
    /\ platform \in {"grok", "other"}
    /\ row = [doc |-> First, status |-> "active", due |-> TRUE, cooldown |-> FALSE]
    /\ live \in {{Token(First)}, {}}
    /\ lock = FALSE
    /\ worker = [w \in Workers |-> Idle]
    /\ admin = [a \in Operations |-> AdminIdle]
    /\ faults = 0 /\ dues = 0 /\ admins = 0
    /\ blame = IF live = {} THEN {"lost"} ELSE {}
    /\ overtaken = {}

Room == faults + dues + admins < MaxEvents
Fault == Room /\ faults < MaxFaults /\ faults' = faults + 1
NoFault == UNCHANGED faults

Blame(b, cond) == blame' = IF cond THEN blame \cup {b} ELSE blame

adminVars == <<admin, overtaken>>

(* Worker w goes on at p. *)
Goto(w, p) == worker' = [worker EXCEPT ![w].pc = p]

(* RefreshIfNeeded returns: its deferred calls run next, then p, with the  *)
(* document the caller holds.                                              *)
Leave(w, p, d) ==
    worker' = [worker EXCEPT ![w] = [@ EXCEPT !.pc = "release", !.then = p, !.held = d,
                                              !.snap = First, !.sawCool = FALSE]]
LeaveDone(w) == Leave(w, "idle", First)

(* After a stored refresh the background cycle lifts a cooldown it saw. *)
LeaveStored(w, sawCool) ==
    Leave(w, IF w \in Background /\ sawCool THEN "post" ELSE "idle", First)

-----------------------------------------------------------------------------
(* The refresh protocol. *)

(* The cycle lists active accounts that are due and in no refresh cooldown; *)
(* a request is given an account that can be scheduled.                     *)
Start(w) ==
    /\ worker[w].pc = "idle"
    /\ row.status = "active" /\ row.due /\ ~row.cooldown
    /\ worker' = [worker EXCEPT ![w] = [Idle EXCEPT !.pc = "lock",
                                       !.held = IF w \in Background THEN row.doc ELSE First]]
    /\ UNCHANGED <<platform, row, live, lock, adminVars, faults, dues, admins, blame>>

MutexFree(w) ==
    \A v \in Workers \ {w} :
        ProcessOf[v] = ProcessOf[w] => worker[v].pc \notin Inside

(* Mutant: the release is deferred before the answer is looked at. *)
AcquireDeletes(w) ==
    /\ worker[w].pc = "lock" /\ MutexFree(w)
    /\ \/ /\ ~lock /\ lock' = TRUE
          /\ worker' = [worker EXCEPT ![w].pc = "read", ![w].owns = TRUE]
       \/ lock /\ lock' = FALSE /\ worker' = [worker EXCEPT ![w] = Idle]
    /\ UNCHANGED <<platform, row, live, adminVars, faults, dues, admins, blame>>

(* SETNX with a TTL.  A key that is there sends the worker away; an error  *)
(* of Redis lets it go on without the lock, though the key may be set.     *)
Acquire(w) ==
    /\ worker[w].pc = "lock"
    /\ MutexFree(w)
    /\ \/ /\ ~lock /\ lock' = TRUE
          /\ worker' = [worker EXCEPT ![w].pc = "read", ![w].owns = TRUE]
          /\ NoFault /\ UNCHANGED blame
       \/ /\ lock /\ worker' = [worker EXCEPT ![w] = Idle]
          /\ NoFault /\ UNCHANGED <<lock, blame>>
       \/ /\ Goto(w, "read") /\ Blame("unlocked", TRUE)
          /\ Fault /\ lock' \in {lock, TRUE}
    /\ UNCHANGED <<platform, row, live, adminVars, dues, admins>>

(* The context of the attempt is over while it waits for the mutex. *)
MutexTimeout(w) ==
    /\ worker[w].pc = "lock" /\ ~MutexFree(w) /\ Fault
    /\ worker' = [worker EXCEPT ![w] = IF w \in Background
                                       THEN [worker[w] EXCEPT !.pc = "retry"] ELSE Idle]
    /\ UNCHANGED <<platform, row, live, lock, adminVars, dues, admins, blame>>

(* The row is read again under the lock: an account that was stopped or    *)
(* refreshed meanwhile is left alone.                                      *)
Reread(w) ==
    /\ worker[w].pc = "read"
    /\ \/ /\ row.status = "active" /\ row.due
          /\ w \in Requests /\ platform = "grok" => ~row.cooldown
          /\ worker' = [worker EXCEPT ![w].pc = "refresh", ![w].snap = row.doc,
                                      ![w].sawCool = row.cooldown]
          /\ NoFault
       \/ /\ \/ row.status # "active" \/ ~row.due
             \/ w \in Requests /\ platform = "grok" /\ row.cooldown
          /\ LeaveDone(w) /\ NoFault
       \/ LeaveDone(w) /\ Fault
    /\ UNCHANGED <<platform, row, live, lock, adminVars, dues, admins, blame>>

(* The provider rotates a token it accepts. *)
Grant(d) == live' = (live \ {Token(d)}) \cup {Token(Rotated(d))}

(* What an attempt that got no usable answer leads to. *)
AfterFailure(w) == IF w \in Background THEN "retry" ELSE "idle"

(* The call of the provider: the next token, invalid_grant, a failure       *)
(* before the provider acted, or after it (the answer is lost, or comes     *)
(* when the context is over, and is not stored).                            *)
Refresh(w) ==
    LET d == worker[w].snap IN
    /\ worker[w].pc = "refresh"
    /\ \/ /\ Token(d) \in live /\ Grant(d)
          /\ Goto(w, "persist") /\ NoFault /\ UNCHANGED blame
       \/ /\ Token(d) \notin live
          /\ Goto(w, "recover") /\ NoFault /\ UNCHANGED <<live, blame>>
       \/ /\ \/ UNCHANGED <<live, blame>>
             \/ Token(d) \in live /\ Grant(d) /\ Blame("lost", TRUE)
          /\ \E h \in {d, worker[w].held} : Leave(w, AfterFailure(w), h)
          /\ Fault
    /\ UNCHANGED <<platform, row, lock, adminVars, dues, admins>>

(* tryRecoverFromRefreshRace: a row with another refresh token means that   *)
(* somebody else refreshed.  Otherwise the refusal stands.                  *)
Recover(w) ==
    LET d == worker[w].snap
        Refused == Leave(w, IF w \in Background \/ platform = "grok"
                            THEN "mark" ELSE "idle", d)
    IN
    /\ worker[w].pc = "recover"
    /\ \/ Token(row.doc) # Token(d) /\ LeaveDone(w) /\ NoFault
       \/ Token(row.doc) = Token(d) /\ Refused /\ NoFault
       \/ Refused /\ Fault
    /\ UNCHANGED <<platform, row, live, lock, adminVars, dues, admins, blame>>

(* Mutant: the old refresh token is kept when the new fields are merged in. *)
StoreMerged(d) == row' = [row EXCEPT !.doc = d, !.due = FALSE]

(* The new document takes the place of d and is not due. *)
Store(d) == row' = [row EXCEPT !.doc = Rotated(d), !.due = FALSE]

(* Mutant: the document is not compared. *)
PersistGrokBlind(w) ==
    /\ platform = "grok" /\ Store(worker[w].snap)
    /\ LeaveStored(w, row.cooldown)
    /\ UNCHANGED <<faults, blame>>

(* UpdateGrokOAuthCredentialsIfUnchanged: nothing is written over a         *)
(* document the refresh did not start from; an error ends the cycle for     *)
(* the provider.                                                            *)
PersistGrok(w) ==
    LET d == worker[w].snap IN
    /\ platform = "grok"
    /\ \/ /\ row.doc = d /\ Store(d) /\ NoFault /\ UNCHANGED blame
          /\ LeaveStored(w, row.cooldown)
       \/ /\ row.doc # d /\ UNCHANGED row /\ NoFault
          /\ Blame("lost", Token(row.doc) = Token(d))
          /\ LeaveDone(w)
       \/ /\ \/ row.doc = d /\ Store(d) /\ UNCHANGED blame
             \/ UNCHANGED row /\ Blame("lost", TRUE)
          /\ LeaveDone(w) /\ Fault

(* persistAccountCredentials writes whatever the row holds by now; an error *)
(* is retried like a failure of the provider.                               *)
PersistOther(w) ==
    LET d == worker[w].snap
        Overwrite == Store(d) /\ Blame("clobbered", row.doc # d)
    IN
    /\ platform = "other"
    /\ \/ Overwrite /\ LeaveStored(w, worker[w].sawCool) /\ NoFault
       \/ /\ \/ Overwrite
             \/ UNCHANGED row /\ Blame("lost", TRUE)
          /\ Leave(w, AfterFailure(w), worker[w].held) /\ Fault

Persist(w) ==
    /\ worker[w].pc = "persist"
    /\ PersistGrok(w) \/ PersistOther(w)
    /\ UNCHANGED <<platform, live, lock, adminVars, dues, admins>>

(* The deferred calls: DEL of the key, whoever set it, and the mutex. *)
Release(w) ==
    /\ worker[w].pc = "release"
    /\ \/ lock' = (lock /\ ~worker[w].owns) /\ NoFault
       \/ worker[w].owns /\ UNCHANGED lock /\ Fault
    /\ LET p == worker[w].then IN
       worker' = [worker EXCEPT ![w] =
          IF p = "idle" THEN Idle
          ELSE [worker[w] EXCEPT !.pc = p, !.owns = FALSE, !.then = "idle"]]
    /\ UNCHANGED <<platform, row, live, adminVars, dues, admins, blame>>

-----------------------------------------------------------------------------
(* What the caller does with the outcome, outside of the locks. *)

(* Mutant: one attempt too many. *)
RetryOnceMore(w) ==
    /\ worker[w].pc = "retry"
    /\ worker' = [worker EXCEPT ![w] =
          IF worker[w].tries < MaxAttempts
          THEN [worker[w] EXCEPT !.pc = "lock", !.tries = worker[w].tries + 1]
          ELSE [worker[w] EXCEPT !.pc = "cool"]]
    /\ UNCHANGED <<platform, row, live, lock, adminVars, faults, dues, admins, blame>>

(* Another attempt of the cycle, or the end of the attempts. *)
Retry(w) ==
    /\ worker[w].pc = "retry"
    /\ worker' = [worker EXCEPT ![w] =
          IF worker[w].tries + 1 < MaxAttempts
          THEN [worker[w] EXCEPT !.pc = "lock", !.tries = worker[w].tries + 1]
          ELSE [worker[w] EXCEPT !.pc = "cool"]]
    /\ UNCHANGED <<platform, row, live, lock, adminVars, faults, dues, admins, blame>>

(* Mutant: SetError for every platform. *)
MarkBlind(w) ==
    /\ worker[w].pc = "mark"
    /\ worker' = [worker EXCEPT ![w] = Idle]
    /\ row' = [row EXCEPT !.status = "error"]
    /\ Blame("stale mark", Token(row.doc) # Token(worker[w].held))
    /\ UNCHANGED <<platform, live, lock, adminVars, faults, dues, admins>>

(* invalid_grant puts the account out of service: for grok only if it is    *)
(* active with the refused document, for the others whatever it holds.      *)
Mark(w) ==
    LET d == worker[w].held
        Applies == platform = "other" \/ (/\ row.status = "active" /\ row.doc = d
                                          /\ w \in Requests => ~row.cooldown)
        SetError == /\ row' = [row EXCEPT !.status = "error"]
                    /\ Blame("stale mark", Token(row.doc) # Token(d))
    IN
    /\ worker[w].pc = "mark"
    /\ worker' = [worker EXCEPT ![w] = Idle]
    /\ \/ Applies /\ SetError /\ NoFault
       \/ ~Applies /\ NoFault /\ UNCHANGED <<row, blame>>
       \/ Fault /\ UNCHANGED <<row, blame>>
    /\ UNCHANGED <<platform, live, lock, adminVars, dues, admins>>

(* "token refresh retry exhausted": no refresh for ten minutes, unless the  *)
(* write fails, which is only logged.                                       *)
Cool(w) ==
    LET Applies == \/ platform = "other"
                   \/ row.status = "active" /\ row.doc = worker[w].held
    IN
    /\ worker[w].pc = "cool"
    /\ worker' = [worker EXCEPT ![w] = Idle]
    /\ \/ Applies /\ row' = [row EXCEPT !.cooldown = TRUE]
       \/ UNCHANGED row
    /\ UNCHANGED <<platform, live, lock, adminVars, faults, dues, admins, blame>>

(* postRefreshActions lifts a cooldown the account was read with; again a   *)
(* failure is only logged.                                                  *)
PostRefresh(w) ==
    /\ worker[w].pc = "post"
    /\ worker' = [worker EXCEPT ![w] = Idle]
    /\ row' \in {row, [row EXCEPT !.cooldown = FALSE]}
    /\ UNCHANGED <<platform, live, lock, adminVars, faults, dues, admins, blame>>

-----------------------------------------------------------------------------
(* The administrators, outside of the lock.  UpdateAccount reads the whole  *)
(* row and writes it back, status and credentials included; nothing orders  *)
(* the requests, which may all be between their read and their write.       *)

ReadRow(a, kind, d) ==
    admin' = [admin EXCEPT ![a] = [pc |-> IF kind = "refresh" THEN "call" ELSE "write",
                                   kind |-> kind, doc |-> d,
                                   status |-> row.status, due |-> row.due]]

(* The next operation begins.  Before a reauthorization is applied the      *)
(* provider has issued a new grant, and may have revoked the old ones.      *)
AdminBegin ==
    LET a == admins + 1 IN
    /\ admins < MaxAdmin /\ Room
    /\ admins' = a
    /\ \/ \E kind \in {"edit", "refresh"} : ReadRow(a, kind, row.doc) /\ UNCHANGED live
       \/ LET new == [grant |-> a, n |-> 0, cfg |-> row.doc.cfg] IN
          /\ ReadRow(a, "reauth", new)
          /\ \E kept \in {live, {}} : live' = kept \cup {Token(new)}
    /\ UNCHANGED <<platform, row, lock, worker, faults, dues, blame, overtaken>>

(* refreshSingleAccount calls the provider with the row it was given and    *)
(* takes no lock; UpdateAccount then reads the row for the other columns.   *)
AdminCall(a) ==
    LET d == admin[a].doc IN
    /\ admin[a].pc = "call"
    /\ \/ /\ Token(d) \in live /\ Grant(d) /\ Blame("unlocked", TRUE) /\ NoFault
          /\ admin' = [admin EXCEPT ![a] = [@ EXCEPT !.pc = "write", !.doc = Rotated(d),
                                                     !.status = row.status, !.due = FALSE]]
       \/ /\ Token(d) \notin live /\ admin' = [admin EXCEPT ![a] = AdminIdle]
          /\ NoFault /\ UNCHANGED <<live, blame>>
       \/ /\ Token(d) \in live /\ Grant(d) /\ Blame("lost", TRUE)
          /\ admin' = [admin EXCEPT ![a] = AdminIdle] /\ Fault
    /\ UNCHANGED <<platform, row, lock, worker, dues, admins, overtaken>>

(* The token in the row when operation a read it. *)
TokenRead(a) ==
    Token(IF admin[a].kind = "refresh" THEN [admin[a].doc EXCEPT !.n = @ - 1] ELSE admin[a].doc)

(* Is another refresh token written over, or a reauthorization that is      *)
(* newer, or an error that is over or was of another token brought back?    *)
Clobbers(a) ==
    IF admin[a].kind = "reauth" THEN row.doc.grant > admin[a].doc.grant
    ELSE Token(row.doc) # TokenRead(a)
RestoresError(a) ==
    /\ admin[a].kind = "edit" /\ admin[a].status = "error"
    /\ row.status # "error" \/ Token(row.doc) # TokenRead(a)

(* An edit may change the configuration kept with the credentials. *)
AdminWrite(a) ==
    LET d == admin[a].doc
        Written == IF admin[a].kind = "edit" THEN {d, [d EXCEPT !.cfg = @ + 1]} ELSE {d}
    IN
    /\ admin[a].pc = "write"
    /\ \/ /\ \E new \in Written :
               row' = [row EXCEPT !.doc = new, !.status = admin[a].status,
                         !.due = (admin[a].kind = "edit" /\ admin[a].due)]
          /\ blame' = blame \cup (IF Clobbers(a) THEN {"clobbered"} ELSE {})
                            \cup (IF RestoresError(a) THEN {"stale error"} ELSE {})
          /\ overtaken' = IF d.grant = row.doc.grant THEN overtaken
                          ELSE overtaken \cup {b \in Operations \ {a} : admin[b].pc # "idle"}
          /\ admin' = [admin EXCEPT ![a] = IF admin[a].kind = "reauth"
                                           THEN [@ EXCEPT !.pc = "clear"] ELSE AdminIdle]
          /\ NoFault
       \/ /\ Blame("lost", admin[a].kind # "edit") /\ UNCHANGED <<row, overtaken>>
          /\ admin' = [admin EXCEPT ![a] = AdminIdle] /\ Fault
    /\ UNCHANGED <<platform, live, lock, worker, dues, admins>>

(* ClearAccountError after a reauthorization; its failure is only logged. *)
AdminClear(a) ==
    /\ admin[a].pc = "clear" /\ admin' = [admin EXCEPT ![a] = AdminIdle]
    /\ \/ /\ row' = [row EXCEPT !.status = "active", !.cooldown = FALSE]
          /\ NoFault /\ UNCHANGED blame
       \/ UNCHANGED row /\ Blame("not cleared", TRUE) /\ Fault
    /\ UNCHANGED <<platform, live, lock, worker, dues, admins, overtaken>>

Admin == AdminBegin \/ \E a \in Operations : AdminCall(a) \/ AdminWrite(a) \/ AdminClear(a)

-----------------------------------------------------------------------------
(* Time and crashes. *)

(* The access token comes near its expiry again. *)
BecomeDue ==
    /\ ~row.due /\ dues < MaxDue /\ Room
    /\ row' = [row EXCEPT !.due = TRUE] /\ dues' = dues + 1
    /\ UNCHANGED <<platform, live, lock, worker, adminVars, faults, admins, blame>>

CooldownEnds ==
    /\ row.cooldown /\ row' = [row EXCEPT !.cooldown = FALSE]
    /\ UNCHANGED <<platform, live, lock, worker, adminVars, faults, dues, admins, blame>>

Owners == {w \in Workers : worker[w].owns}

(* Mutant: the key is set without a TTL. *)
LeaseNeverEnds == FALSE /\ UNCHANGED vars

(* The lock's key expires.  A background attempt is over before its lease   *)
(* and a grok request after eight seconds; only a request of the other      *)
(* platforms can still be waiting for the provider.                         *)
LeaseEnds ==
    /\ lock /\ lock' = FALSE
    /\ \/ Owners = {} /\ NoFault /\ UNCHANGED blame
       \/ /\ platform = "other" /\ Owners \cap Requests # {}
          /\ Owners \cap Background = {}
          /\ Blame("unlocked", TRUE) /\ Fault
    /\ UNCHANGED <<platform, row, live, worker, adminVars, dues, admins>>

(* A process stops; what its workers were about to store is gone, and the   *)
(* keys they set stay until they expire.                                    *)
Crash(p) ==
    LET Gone == {w \in Workers : ProcessOf[w] = p} IN
    /\ Fault
    /\ \E w \in Gone : worker[w].pc # "idle"
    /\ worker' = [w \in Workers |-> IF w \in Gone THEN Idle ELSE worker[w]]
    /\ Blame("lost", \E w \in Gone : worker[w].pc = "persist")
    /\ UNCHANGED <<platform, row, live, lock, adminVars, dues, admins>>

Attempt(w) ==
    \/ Acquire(w) \/ MutexTimeout(w) \/ Reread(w) \/ Refresh(w) \/ Recover(w) \/ Persist(w) \/ Release(w)

Outcome(w) == Retry(w) \/ Mark(w) \/ Cool(w) \/ PostRefresh(w)

Next ==
    \/ \E w \in Workers : Start(w) \/ Attempt(w) \/ Outcome(w)
    \/ Admin
    \/ BecomeDue \/ CooldownEnds \/ LeaseEnds
    \/ \E p \in Processes : Crash(p)

Spec == Init /\ [][Next]_vars

(* The cycle's ticker and the steps of the code go on; a channel serves     *)
(* the waiters of a process's mutex in order; a key and a cooldown expire.  *)
Fairness ==
    /\ \A w \in Background : WF_vars(Start(w)) /\ SF_vars(Acquire(w))
    /\ \A w \in Workers : WF_vars(Attempt(w)) /\ WF_vars(Outcome(w))
    /\ WF_vars(LeaseEnds) /\ WF_vars(CooldownEnds)

FairSpec == Spec /\ Fairness

-----------------------------------------------------------------------------
(* Properties. *)

(* Every variable has its type; a pair of grant and rotation is a token.    *)
TypeOK ==
    /\ platform \in {"grok", "other"}
    /\ row \in [doc : Docs, status : {"active", "error"}, due : BOOLEAN, cooldown : BOOLEAN]
    /\ live \subseteq Nat \X Nat
    /\ lock \in BOOLEAN
    /\ worker \in [Workers -> [pc : PCs, held : Docs, snap : Docs, owns : BOOLEAN,
                               tries : 0 .. (MaxAttempts - 1), sawCool : BOOLEAN,
                               then : {"idle", "retry", "mark", "post"}]]
    /\ admin \in [Operations -> [pc : {"idle", "call", "write", "clear"},
                                 kind : {"edit", "reauth", "refresh"}, doc : Docs,
                                 status : {"active", "error"}, due : BOOLEAN]]
    /\ faults \in 0 .. MaxFaults /\ dues \in 0 .. MaxDue /\ admins \in 0 .. MaxAdmin
    /\ blame \subseteq {"unlocked", "lost", "clobbered", "stale mark", "not cleared",
                        "stale error"}
    /\ overtaken \subseteq Operations

(* As long as Redis answers, no lease is outlived and no administrator      *)
(* refreshes by hand, one worker of all processes is between its reread of  *)
(* the account and the release of the lock.                                 *)
OneRefresher ==
    "unlocked" \notin blame =>
        \A v, w \in Workers : worker[v].pc \in Inside /\ worker[w].pc \in Inside => v = w

(* The stored refresh token is one the provider accepts, or its successor   *)
(* is on its way to the database, or the new document of an operation is,   *)
(* unless an answer, a write or a process was lost or a stale row was       *)
(* written back: the account does not lose its grant by the interleaving of *)
(* the refreshers alone, whether or not they hold the lock.                 *)
StoredUsable ==
    blame \cap {"lost", "clobbered"} = {} =>
        \/ Token(row.doc) \in live
        \/ \E w \in Workers : worker[w].pc = "persist" /\ Token(worker[w].snap) = Token(row.doc)
        \/ \E a \in Operations : admin[a].pc = "write" /\ admin[a].kind # "edit"

(* An account is out of service only with a refresh token the provider      *)
(* refuses, whatever answers, writes or processes were lost.  Excused are   *)
(* refreshes that overlap outside of the lock, a reauthorization whose      *)
(* error is not cleared (yet), an edit that writes an error back which is   *)
(* over, and on the platforms other than grok a mark or a write that comes  *)
(* after the account was given another token.                               *)
QuarantineJustified ==
    row.status = "error" =>
        \/ Token(row.doc) \notin live
        \/ blame \cap {"unlocked", "not cleared", "stale error"} # {}
        \/ \E a \in Operations : admin[a].pc = "clear"
        \/ platform = "other" /\ blame \cap {"stale mark", "clobbered"} # {}

(* On grok no refresher, however long its call takes, brings a token of an  *)
(* earlier grant back over a reauthorization: the only write that does is   *)
(* that of an administrator's operation which was under way when another    *)
(* one changed the grant.                                                   *)
ReauthKept ==
    [][platform = "grok" /\ row'.doc.grant < row.doc.grant =>
         \E a \in overtaken : admin[a].pc = "write" /\ admin'[a] # admin[a]]_vars

(* An active account that is due is refreshed or put out of service, past   *)
(* every crashed holder of the lock, cooldown and lost answer.              *)
DueServed ==
    (row.due /\ row.status = "active") ~> (~row.due \/ row.status = "error")
=============================================================================
