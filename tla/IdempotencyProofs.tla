------------------------- MODULE IdempotencyProofs -------------------------
(***************************************************************************)
(* Proofs about Idempotency, for any callers, requests and durations.      *)
(*                                                                         *)
(* None of the properties is inductive by itself.  A result is stored by   *)
(* id, so the type of the record and the origin of its answer need that a  *)
(* caller's id stands for a record of its own fingerprint (Ident).  That   *)
(* nobody takes over a record in work needs that a caller which saw the    *)
(* record expired began before its present lease ends (Outlived).  That    *)
(* the operation takes effect once needs what each step of a caller and    *)
(* each status of the record say about the effects so far (Effects).       *)
(***************************************************************************)
EXTENDS Idempotency, TLAPS

\* The id a caller holds is that of a record for the same request.
Ident == \A c \in known : row # NoRow /\ pc[c] # "idle" /\ req[c].fp = row.fp

\* Only failed records are taken over before they expire.
SeenFailed == \A c \in Callers : pc[c] = "takeFailed" => req[c].seen = "failed_retryable"

\* A working caller holds a record in progress that has not expired, and works alone.
Holds(c) == /\ c \in known
            /\ row.status = "processing"
            /\ row.expiresAt > time
            /\ \A d \in Callers : pc[d] \in Working => d = c

\* Whoever saw the record in progress and expired, before its present owner claimed
\* it, began before the owner's lease ends.
Outlived == \A d \in known : pc[d] = "takeExpired" /\ req[d].seen = "processing"
                               => req[d].now < row.lockedUntil

Owner == mishaps \subseteq {"staleReclaim"} =>
           \A c \in Callers : pc[c] \in Working => Holds(c) /\ Outlived

Effects == mishaps = {} =>
             /\ effects <= 1
             /\ \A c \in Callers : pc[c] \in {"execute", "fail"} => effects = 0
             /\ row # NoRow /\ row.status = "failed_retryable" => effects = 0

Inv == TypeOK /\ Ident /\ AnswerFits /\ SeenFailed /\ Owner /\ Effects

-----------------------------------------------------------------------------
LEMMA NoRowIsNoRecord == NoRow \notin Row
  BY NoRowAssumption DEF Row

-----------------------------------------------------------------------------
(* What the updates of the record do, field by field. *)

LEMMA MarkSucceededRow ==
  ASSUME TypeOK, Ident, NEW c \in Callers, c \in known, MarkSucceeded(c)
  PROVE  row \in Row /\ row' \in Row /\ row'.fp = row.fp /\ row'.answers = req[c].fp
         /\ row'.status = "succeeded"
<1>1. row \in Row /\ req[c] \in Request
  BY DEF TypeOK, Ident, MarkSucceeded, At
<1>2. req[c].fp \in Fingerprints /\ ResultExpiry(c) \in Nat
  BY <1>1, DurationsAssumption DEF ResultExpiry, Request, TypeOK
<1>3. PICK a \in Fingerprints, e \in Nat :
         a = req[c].fp /\ row' = [row EXCEPT !.status = "succeeded", !.answers = a,
                                             !.lockedUntil = 0, !.expiresAt = e]
  BY <1>2 DEF MarkSucceeded
<1>. QED BY <1>1, <1>3 DEF Row

LEMMA MarkFailedRow ==
  ASSUME TypeOK, Ident, NEW c \in Callers, c \in known, MarkFailedRetryable(c)
  PROVE  row \in Row /\ row' \in Row /\ row'.fp = row.fp /\ row'.answers = row.answers
         /\ row'.status = "failed_retryable"
<1>1. row \in Row /\ req[c] \in Request
  BY DEF TypeOK, Ident, MarkFailedRetryable, At
<1>2. time + Backoff \in Nat /\ ResultExpiry(c) \in Nat
  BY <1>1, DurationsAssumption DEF ResultExpiry, Request, TypeOK
<1>3. PICK l \in Nat, e \in Nat :
         row' = [row EXCEPT !.status = "failed_retryable", !.lockedUntil = l, !.expiresAt = e]
  BY <1>2 DEF MarkFailedRetryable
<1>. QED BY <1>1, <1>3 DEF Row

LEMMA TryReclaimRow ==
  ASSUME TypeOK, Ident, NEW c \in Callers, Reclaimable(c), TryReclaim(c)
  PROVE  row \in Row /\ row' \in Row /\ row'.fp = row.fp /\ row'.answers = row.answers
         /\ row'.status = "processing" /\ row'.lockedUntil = req[c].now + Lease
         /\ row'.expiresAt = req[c].now + TTL
<1>1. row \in Row /\ req[c] \in Request
  BY DEF TypeOK, Reclaimable, TryReclaim
<1>2. req[c].now + Lease \in Nat /\ req[c].now + TTL \in Nat
  BY <1>1, DurationsAssumption DEF Request
<1>3. PICK l \in Nat, e \in Nat :
         /\ l = req[c].now + Lease /\ e = req[c].now + TTL
         /\ row' = [row EXCEPT !.status = "processing", !.lockedUntil = l, !.expiresAt = e]
  BY <1>2 DEF TryReclaim, Deadlines
<1>. QED BY <1>1, <1>3 DEF Row

LEMMA ExtendRow ==
  ASSUME TypeOK, Ident, NEW c \in Callers, ExtendProcessingLock(c),
         c \in known /\ row.status = "processing"
  PROVE  row \in Row /\ row' \in Row /\ row'.fp = row.fp /\ row'.answers = row.answers
         /\ row'.status = "processing" /\ row'.lockedUntil = time + Lease
         /\ row'.expiresAt = time + TTL
<1>1. row \in Row
  BY DEF TypeOK, Ident
<1>2. time + Lease \in Nat /\ time + TTL \in Nat
  BY DurationsAssumption DEF TypeOK
<1>3. PICK l \in Nat, e \in Nat :
         /\ l = time + Lease /\ e = time + TTL
         /\ row' = [row EXCEPT !.lockedUntil = l, !.expiresAt = e]
  BY <1>2 DEF ExtendProcessingLock
<1>. QED BY <1>1, <1>3 DEF Row

LEMMA ExtendRequest ==
  ASSUME TypeOK, NEW c \in Callers, ExtendProcessingLock(c)
  PROVE  /\ req' \in [Callers -> Request \cup {NoRequest}]
         /\ \A d \in Callers : /\ req[d] \in Request => req'[d] \in Request
                               /\ req'[d].fp = req[d].fp /\ req'[d].now = req[d].now
                               /\ req'[d].seen = req[d].seen
<1>1. req[c] \in Request
  BY DEF ExtendProcessingLock, TypeOK, Working
<1>2. LET q == [req[c] EXCEPT !.renewal = "ended"]
      IN  q \in Request /\ q.fp = req[c].fp /\ q.now = req[c].now /\ q.seen = req[c].seen
  BY <1>1 DEF Request
<1>3. req' = req \/ req' = [req EXCEPT ![c] = [req[c] EXCEPT !.renewal = "ended"]]
  BY DEF ExtendProcessingLock
<1>. QED BY <1>1, <1>2, <1>3 DEF TypeOK

\* The types are preserved: a result is stored only through an id that stands for a
\* record, and a lease never ends before the clock starts.
LEMMA TypeStep ==
  ASSUME TypeOK, Ident, [Next]_vars
  PROVE  TypeOK'
<1>. USE NoRowIsNoRecord, DurationsAssumption
<1>. USE DEF TypeOK, Row, Request, Steps, Working, Ident
<1>1. ASSUME NEW c \in Callers, Execute(c) PROVE TypeOK'
  BY <1>1 DEF Execute, At
<1>2. ASSUME NEW c \in Callers, CreateProcessing(c) PROVE TypeOK'
  <2>1. req[c] \in Request
    BY <1>2 DEF CreateProcessing, At
  <2>2. CASE row = NoRow
    <3>1. row' \in Row /\ known' = {c}
      BY <1>2, <2>1, <2>2 DEF CreateProcessing, Deadlines
    <3>2. mishaps' \subseteq {"lateClaim", "overrun", "staleReclaim"}
      BY <1>2, <2>2 DEF CreateProcessing, NoteLateClaim
    <3>. QED BY <1>2, <2>2, <3>1, <3>2 DEF CreateProcessing, At, Go
  <2>3. CASE row # NoRow
    BY <1>2, <2>3 DEF CreateProcessing, At, Go
  <2>. QED BY <2>2, <2>3
<1>3. ASSUME NEW c \in Callers, GetExisting(c) PROVE TypeOK'
  BY <1>3 DEF GetExisting, At, Return, Remember, MayRetry
<1>4. ASSUME NEW c \in Callers, GetLatest(c) PROVE TypeOK'
  BY <1>4 DEF GetLatest, At, Return, Remember, MayRetry
<1>5. ASSUME NEW c \in Callers, TryReclaim(c) PROVE TypeOK'
  <2>1. CASE Reclaimable(c)
    <3>1. mishaps' \subseteq {"lateClaim", "overrun", "staleReclaim"}
      BY <1>5, <2>1 DEF TryReclaim, NoteLateClaim
    <3>2. effects' \in Nat
      BY <1>5, <2>1 DEF TryReclaim
    <3>3. /\ pc' = [pc EXCEPT ![c] = "execute"] /\ pc[c] # "idle"
          /\ UNCHANGED <<req, known, time>>
      BY <1>5, <2>1 DEF TryReclaim, Go
    <3>4. row' \in Row
      BY <1>5, <2>1, TryReclaimRow
    <3>. QED BY <3>1, <3>2, <3>3, <3>4
  <2>2. CASE ~Reclaimable(c)
    BY <1>5, <2>2 DEF TryReclaim, At, Go, Return
  <2>. QED BY <2>1, <2>2
<1>6. ASSUME NEW c \in Callers, Operate(c) PROVE TypeOK'
  BY <1>6 DEF Operate, At, Go
<1>7. ASSUME NEW c \in Callers, MarkSucceeded(c) PROVE TypeOK'
  <2>1. CASE c \in known
    BY <1>7, <2>1, MarkSucceededRow DEF MarkSucceeded, At, Return
  <2>2. CASE ~(c \in known)
    BY <1>7, <2>2 DEF MarkSucceeded, At, Return
  <2>. QED BY <2>1, <2>2
<1>8. ASSUME NEW c \in Callers, MarkFailedRetryable(c) PROVE TypeOK'
  <2>1. CASE c \in known
    BY <1>8, <2>1, MarkFailedRow DEF MarkFailedRetryable, At, Return
  <2>2. CASE ~(c \in known)
    BY <1>8, <2>2 DEF MarkFailedRetryable, At, Return
  <2>. QED BY <2>1, <2>2
<1>9. ASSUME NEW c \in Callers, ExtendProcessingLock(c) PROVE TypeOK'
  <2>1. CASE c \in known /\ row.status = "processing"
    BY <1>9, <2>1, ExtendRow, ExtendRequest DEF ExtendProcessingLock
  <2>2. CASE ~(c \in known /\ row.status = "processing")
    BY <1>9, <2>2, ExtendRequest DEF ExtendProcessingLock
  <2>. QED BY <2>1, <2>2
<1>10. ASSUME NEW c \in Callers, Abort(c) PROVE TypeOK'
  BY <1>10 DEF Abort, At, Return
<1>11. ASSUME DeleteExpired PROVE TypeOK'
  BY <1>11 DEF DeleteExpired
<1>12. ASSUME Tick PROVE TypeOK'
  BY <1>12 DEF Tick
<1>13. ASSUME UNCHANGED vars PROVE TypeOK'
  BY <1>13 DEF vars
<1>. QED BY <1>1, <1>2, <1>3, <1>4, <1>5, <1>6, <1>7, <1>8, <1>9,
           <1>10, <1>11, <1>12, <1>13 DEF Next

\* An id is learned from a record of the same request, and forgotten with the record
\* or with the request.
LEMMA IdentStep ==
  ASSUME TypeOK, Ident, [Next]_vars
  PROVE  Ident'
<1>. USE NoRowIsNoRecord, DurationsAssumption
<1>. USE DEF TypeOK, Row, Request, Steps, Working, Ident
<1>1. ASSUME NEW c \in Callers, Execute(c) PROVE Ident'
  BY <1>1 DEF Execute, At
<1>2. ASSUME NEW c \in Callers, CreateProcessing(c) PROVE Ident'
  BY <1>2 DEF CreateProcessing, At, Go, Deadlines, NoteLateClaim
<1>3. ASSUME NEW c \in Callers, GetExisting(c) PROVE Ident'
  BY <1>3 DEF GetExisting, At, Return, Remember, MayRetry
<1>4. ASSUME NEW c \in Callers, GetLatest(c) PROVE Ident'
  BY <1>4 DEF GetLatest, At, Return, Remember, MayRetry
<1>5. ASSUME NEW c \in Callers, TryReclaim(c) PROVE Ident'
  <2>1. CASE Reclaimable(c)
    <3>1. /\ pc' = [pc EXCEPT ![c] = "execute"]
          /\ UNCHANGED <<req, known>>
      BY <1>5, <2>1 DEF TryReclaim, Go
    <3>2. row' # NoRow /\ row'.fp = row.fp
      BY <1>5, <2>1, TryReclaimRow
    <3>. QED BY <3>1, <3>2
  <2>2. CASE ~Reclaimable(c)
    BY <1>5, <2>2 DEF TryReclaim, At, Go, Return
  <2>. QED BY <2>1, <2>2
<1>6. ASSUME NEW c \in Callers, Operate(c) PROVE Ident'
  BY <1>6 DEF Operate, At, Go
<1>7. ASSUME NEW c \in Callers, MarkSucceeded(c) PROVE Ident'
  <2>1. CASE c \in known
    BY <1>7, <2>1, MarkSucceededRow DEF MarkSucceeded, At, Return
  <2>2. CASE ~(c \in known)
    BY <1>7, <2>2 DEF MarkSucceeded, At, Return
  <2>. QED BY <2>1, <2>2
<1>8. ASSUME NEW c \in Callers, MarkFailedRetryable(c) PROVE Ident'
  <2>1. CASE c \in known
    BY <1>8, <2>1, MarkFailedRow DEF MarkFailedRetryable, At, Return
  <2>2. CASE ~(c \in known)
    BY <1>8, <2>2 DEF MarkFailedRetryable, At, Return
  <2>. QED BY <2>1, <2>2
<1>9. ASSUME NEW c \in Callers, ExtendProcessingLock(c) PROVE Ident'
  <2>1. CASE c \in known /\ row.status = "processing"
    BY <1>9, <2>1, ExtendRow, ExtendRequest DEF ExtendProcessingLock
  <2>2. CASE ~(c \in known /\ row.status = "processing")
    BY <1>9, <2>2, ExtendRequest DEF ExtendProcessingLock
  <2>. QED BY <2>1, <2>2
<1>10. ASSUME NEW c \in Callers, Abort(c) PROVE Ident'
  BY <1>10 DEF Abort, At, Return
<1>11. ASSUME DeleteExpired PROVE Ident'
  BY <1>11 DEF DeleteExpired
<1>12. ASSUME Tick PROVE Ident'
  BY <1>12 DEF Tick
<1>13. ASSUME UNCHANGED vars PROVE Ident'
  BY <1>13 DEF vars
<1>. QED BY <1>1, <1>2, <1>3, <1>4, <1>5, <1>6, <1>7, <1>8, <1>9,
           <1>10, <1>11, <1>12, <1>13 DEF Next

\* An answer is stored by a caller that holds the record's id.
LEMMA AnswerStep ==
  ASSUME TypeOK, Ident, AnswerFits, [Next]_vars
  PROVE  AnswerFits'
<1>. USE NoRowIsNoRecord, DurationsAssumption
<1>. USE DEF TypeOK, Row, Request, Steps, Working, Ident, AnswerFits
<1>1. ASSUME NEW c \in Callers, Execute(c) PROVE AnswerFits'
  BY <1>1 DEF Execute, At
<1>2. ASSUME NEW c \in Callers, CreateProcessing(c) PROVE AnswerFits'
  BY <1>2 DEF CreateProcessing, At, Go, Deadlines, NoteLateClaim
<1>3. ASSUME NEW c \in Callers, GetExisting(c) PROVE AnswerFits'
  BY <1>3 DEF GetExisting, At, Return, Remember, MayRetry
<1>4. ASSUME NEW c \in Callers, GetLatest(c) PROVE AnswerFits'
  BY <1>4 DEF GetLatest, At, Return, Remember, MayRetry
<1>5. ASSUME NEW c \in Callers, TryReclaim(c) PROVE AnswerFits'
  BY <1>5 DEF TryReclaim, At, Go, Return, Reclaimable, Deadlines, NoteLateClaim
<1>6. ASSUME NEW c \in Callers, Operate(c) PROVE AnswerFits'
  BY <1>6 DEF Operate, At, Go
<1>7. ASSUME NEW c \in Callers, MarkSucceeded(c) PROVE AnswerFits'
  BY <1>7 DEF MarkSucceeded, At, Return, ResultExpiry
<1>8. ASSUME NEW c \in Callers, MarkFailedRetryable(c) PROVE AnswerFits'
  BY <1>8 DEF MarkFailedRetryable, At, Return, ResultExpiry
<1>9. ASSUME NEW c \in Callers, ExtendProcessingLock(c) PROVE AnswerFits'
  BY <1>9 DEF ExtendProcessingLock
<1>10. ASSUME NEW c \in Callers, Abort(c) PROVE AnswerFits'
  BY <1>10 DEF Abort, At, Return
<1>11. ASSUME DeleteExpired PROVE AnswerFits'
  BY <1>11 DEF DeleteExpired
<1>12. ASSUME Tick PROVE AnswerFits'
  BY <1>12 DEF Tick
<1>13. ASSUME UNCHANGED vars PROVE AnswerFits'
  BY <1>13 DEF vars
<1>. QED BY <1>1, <1>2, <1>3, <1>4, <1>5, <1>6, <1>7, <1>8, <1>9,
           <1>10, <1>11, <1>12, <1>13 DEF Next

\* A takeover before the expiry begins with a read of a failed record.
LEMMA SeenStep ==
  ASSUME TypeOK, SeenFailed, [Next]_vars
  PROVE  SeenFailed'
<1>. USE DEF TypeOK, Row, Request, Steps, Working, SeenFailed
<1>1. ASSUME NEW c \in Callers, Execute(c) PROVE SeenFailed'
  BY <1>1 DEF Execute, At
<1>2. ASSUME NEW c \in Callers, CreateProcessing(c) PROVE SeenFailed'
  BY <1>2 DEF CreateProcessing, At, Go, Deadlines, NoteLateClaim
<1>3. ASSUME NEW c \in Callers, GetExisting(c) PROVE SeenFailed'
  BY <1>3 DEF GetExisting, At, Return, Remember, MayRetry
<1>4. ASSUME NEW c \in Callers, GetLatest(c) PROVE SeenFailed'
  BY <1>4 DEF GetLatest, At, Return, Remember, MayRetry
<1>5. ASSUME NEW c \in Callers, TryReclaim(c) PROVE SeenFailed'
  BY <1>5 DEF TryReclaim, At, Go, Return, Reclaimable, Deadlines, NoteLateClaim
<1>6. ASSUME NEW c \in Callers, Operate(c) PROVE SeenFailed'
  BY <1>6 DEF Operate, At, Go
<1>7. ASSUME NEW c \in Callers, MarkSucceeded(c) PROVE SeenFailed'
  BY <1>7 DEF MarkSucceeded, At, Return, ResultExpiry
<1>8. ASSUME NEW c \in Callers, MarkFailedRetryable(c) PROVE SeenFailed'
  BY <1>8 DEF MarkFailedRetryable, At, Return, ResultExpiry
<1>9. ASSUME NEW c \in Callers, ExtendProcessingLock(c) PROVE SeenFailed'
  BY <1>9 DEF ExtendProcessingLock
<1>10. ASSUME NEW c \in Callers, Abort(c) PROVE SeenFailed'
  BY <1>10 DEF Abort, At, Return
<1>11. ASSUME DeleteExpired PROVE SeenFailed'
  BY <1>11 DEF DeleteExpired
<1>12. ASSUME Tick PROVE SeenFailed'
  BY <1>12 DEF Tick
<1>13. ASSUME UNCHANGED vars PROVE SeenFailed'
  BY <1>13 DEF vars
<1>. QED BY <1>1, <1>2, <1>3, <1>4, <1>5, <1>6, <1>7, <1>8, <1>9,
           <1>10, <1>11, <1>12, <1>13 DEF Next

\* A record is claimed only when nobody works on it, and keeps its owner until the
\* result is stored.
LEMMA OwnerStep ==
  ASSUME TypeOK, Ident, SeenFailed, Owner, [Next]_vars
  PROVE  Owner'
<1>. USE NoRowIsNoRecord, DurationsAssumption
<1>. USE DEF TypeOK, Row, Request, Steps, Working, Ident, SeenFailed, Owner, Holds, Outlived
<1>1. ASSUME NEW c \in Callers, Execute(c) PROVE Owner'
  BY <1>1 DEF Execute, At
<1>2. ASSUME NEW c \in Callers, CreateProcessing(c) PROVE Owner'
  BY <1>2 DEF CreateProcessing, At, Go, Deadlines, NoteLateClaim
<1>3. ASSUME NEW c \in Callers, GetExisting(c) PROVE Owner'
  BY <1>3 DEF GetExisting, At, Return, Remember, MayRetry
<1>4. ASSUME NEW c \in Callers, GetLatest(c) PROVE Owner'
  BY <1>4 DEF GetLatest, At, Return, Remember, MayRetry
<1>5. ASSUME NEW c \in Callers, TryReclaim(c) PROVE Owner'
  <2>1. CASE Reclaimable(c)
    <3>. SUFFICES ASSUME mishaps' \subseteq {"staleReclaim"} PROVE Owner'
      OBVIOUS
    <3>1. /\ row \in Row /\ row' \in Row /\ row'.status = "processing"
          /\ row'.lockedUntil = req[c].now + Lease /\ row'.expiresAt = req[c].now + TTL
      BY <1>5, <2>1, TryReclaimRow
    <3>2. mishaps \subseteq {"staleReclaim"} /\ "lateClaim" \notin mishaps'
      BY <1>5, <2>1 DEF TryReclaim
    <3>3. row'.lockedUntil > time /\ row'.expiresAt > time
      BY <1>5, <2>1, <3>1, <3>2 DEF TryReclaim, NoteLateClaim, Deadlines
    <3>4. /\ c \in known /\ row.status = req[c].seen /\ row.lockedUntil <= req[c].now
          /\ pc[c] \in {"takeExpired", "takeFailed"}
      BY <1>5, <2>1 DEF TryReclaim, Reclaimable
    <3>5. \A d \in Callers : pc[d] \notin Working
      BY <3>1, <3>2, <3>4
    <3>6. /\ pc' = [pc EXCEPT ![c] = "execute"]
          /\ UNCHANGED <<req, known, time>>
      BY <1>5, <2>1 DEF TryReclaim, Go
    <3>7. \A d \in known' : req'[d].now < row'.lockedUntil
      BY <3>1, <3>3, <3>6
    <3>. QED BY <3>1, <3>3, <3>4, <3>5, <3>6, <3>7
  <2>2. CASE ~Reclaimable(c)
    BY <1>5, <2>2 DEF TryReclaim, At, Go, Return
  <2>. QED BY <2>1, <2>2
<1>6. ASSUME NEW c \in Callers, Operate(c) PROVE Owner'
  BY <1>6 DEF Operate, At, Go
<1>7. ASSUME NEW c \in Callers, MarkSucceeded(c) PROVE Owner'
  BY <1>7 DEF MarkSucceeded, At, Return, ResultExpiry
<1>8. ASSUME NEW c \in Callers, MarkFailedRetryable(c) PROVE Owner'
  BY <1>8 DEF MarkFailedRetryable, At, Return, ResultExpiry
<1>9. ASSUME NEW c \in Callers, ExtendProcessingLock(c) PROVE Owner'
  <2>1. CASE c \in known /\ row.status = "processing"
    <3>1. /\ row' \in Row /\ row'.status = "processing"
          /\ row'.lockedUntil = time + Lease /\ row'.expiresAt = time + TTL
      BY <1>9, <2>1, ExtendRow
    <3>2. UNCHANGED <<req, pc, known, time, mishaps>>
      BY <1>9, <2>1 DEF ExtendProcessingLock
    <3>3. row'.expiresAt > time /\ \A d \in known : pc[d] # "idle" => req[d].now < row'.lockedUntil
      BY <3>1
    <3>. QED BY <3>1, <3>2, <3>3
  <2>2. CASE ~(c \in known /\ row.status = "processing")
    BY <1>9, <2>2, ExtendRequest DEF ExtendProcessingLock
  <2>. QED BY <2>1, <2>2
<1>10. ASSUME NEW c \in Callers, Abort(c) PROVE Owner'
  BY <1>10 DEF Abort, At, Return
<1>11. ASSUME DeleteExpired PROVE Owner'
  BY <1>11 DEF DeleteExpired
<1>12. ASSUME Tick PROVE Owner'
  BY <1>12 DEF Tick
<1>13. ASSUME UNCHANGED vars PROVE Owner'
  BY <1>13 DEF vars
<1>. QED BY <1>1, <1>2, <1>3, <1>4, <1>5, <1>6, <1>7, <1>8, <1>9,
           <1>10, <1>11, <1>12, <1>13 DEF Next

\* Before the operation is executed nothing has taken effect, and the one caller that
\* executes it is followed by another only after a failure or at the expiry.
LEMMA EffectsStep ==
  ASSUME TypeOK, Ident, SeenFailed, Owner, Effects, [Next]_vars
  PROVE  Effects'
<1>. USE NoRowIsNoRecord, DurationsAssumption
<1>. USE DEF TypeOK, Row, Request, Steps, Working, Ident, SeenFailed, Owner, Holds, Effects
<1>1. ASSUME NEW c \in Callers, Execute(c) PROVE Effects'
  BY <1>1 DEF Execute, At
<1>2. ASSUME NEW c \in Callers, CreateProcessing(c) PROVE Effects'
  BY <1>2 DEF CreateProcessing, At, Go, Deadlines, NoteLateClaim
<1>3. ASSUME NEW c \in Callers, GetExisting(c) PROVE Effects'
  BY <1>3 DEF GetExisting, At, Return, Remember, MayRetry
<1>4. ASSUME NEW c \in Callers, GetLatest(c) PROVE Effects'
  BY <1>4 DEF GetLatest, At, Return, Remember, MayRetry
<1>5. ASSUME NEW c \in Callers, TryReclaim(c) PROVE Effects'
  BY <1>5 DEF TryReclaim, At, Go, Return, Reclaimable, Deadlines, NoteLateClaim
<1>6. ASSUME NEW c \in Callers, Operate(c) PROVE Effects'
  BY <1>6 DEF Operate, At, Go
<1>7. ASSUME NEW c \in Callers, MarkSucceeded(c) PROVE Effects'
  BY <1>7 DEF MarkSucceeded, At, Return, ResultExpiry
<1>8. ASSUME NEW c \in Callers, MarkFailedRetryable(c) PROVE Effects'
  BY <1>8 DEF MarkFailedRetryable, At, Return, ResultExpiry
<1>9. ASSUME NEW c \in Callers, ExtendProcessingLock(c) PROVE Effects'
  BY <1>9 DEF ExtendProcessingLock
<1>10. ASSUME NEW c \in Callers, Abort(c) PROVE Effects'
  BY <1>10 DEF Abort, At, Return
<1>11. ASSUME DeleteExpired PROVE Effects'
  BY <1>11 DEF DeleteExpired
<1>12. ASSUME Tick PROVE Effects'
  BY <1>12 DEF Tick
<1>13. ASSUME UNCHANGED vars PROVE Effects'
  BY <1>13 DEF vars
<1>. QED BY <1>1, <1>2, <1>3, <1>4, <1>5, <1>6, <1>7, <1>8, <1>9,
           <1>10, <1>11, <1>12, <1>13 DEF Next

-----------------------------------------------------------------------------
\* Every reachable state satisfies the inductive invariant (the whole of Execute, with
\* its renewal and the cleanup service).
THEOREM Invariance == Spec => []Inv
<1>1. Init => Inv
  BY NoRowIsNoRecord, DurationsAssumption
     DEF Init, Inv, TypeOK, Ident, AnswerFits, SeenFailed, Owner, Effects, Holds, Working, Steps
<1>2. Inv /\ [Next]_vars => Inv'
  BY TypeStep, IdentStep, AnswerStep, SeenStep, OwnerStep, EffectsStep DEF Inv
<1>. QED BY <1>1, <1>2, PTL DEF Spec

\* The record, the clock and the requests keep their types; no deadline is negative.
THEOREM TypeCorrect == Spec => []TypeOK
<1>1. Inv => TypeOK
  BY DEF Inv
<1>. QED BY <1>1, Invariance, PTL

\* The operation never runs twice at the same time for one key, unless a caller claims
\* the record with deadlines that have passed or works past its expiry (Execute).
THEOREM SingleOwner == Spec => []OneOwner
<1>1. Inv => OneOwner
  BY DEF Inv, Owner, Holds, OneOwner
<1>. QED BY <1>1, Invariance, PTL

\* Unless, besides, a takeover of an expired record finds it renewed, the operation
\* takes effect at most once until the record expires (Execute).
THEOREM SingleEffect == Spec => []OneEffect
<1>1. Inv => OneEffect
  BY DEF Inv, Effects, OneEffect
<1>. QED BY <1>1, Invariance, PTL

\* A stored answer belongs to the request the record was made for, whatever the timing
\* of the callers (MarkSucceeded).
THEOREM AnswersFit == Spec => []AnswerFits
<1>1. Inv => AnswerFits
  BY DEF Inv
<1>. QED BY <1>1, Invariance, PTL
-----------------------------------------------------------------------------
\* what the step does to a stored result that has not expired
Kept == mishaps' = {} /\ row # NoRow /\ row.status = "succeeded" /\ row.expiresAt > time
          => row' = row

\* Nobody works on a record with a result, so only a takeover of one who saw it
\* expired could touch it, and that is noted as stale.
LEMMA ResultStep ==
  ASSUME Inv, [Next]_vars
  PROVE  Kept
<1>. USE DEF Kept
<1>1. ASSUME NEW c \in Callers, pc[c] \in Working, mishaps = {} PROVE row.status = "processing"
  BY <1>1 DEF Inv, Owner, Holds
<1>2. ASSUME NEW c \in Callers, Execute(c) PROVE Kept
  BY <1>2 DEF Execute
<1>3. ASSUME NEW c \in Callers, CreateProcessing(c) PROVE Kept
  BY <1>3 DEF CreateProcessing
<1>4. ASSUME NEW c \in Callers, GetExisting(c) PROVE Kept
  BY <1>4 DEF GetExisting
<1>5. ASSUME NEW c \in Callers, GetLatest(c) PROVE Kept
  BY <1>5 DEF GetLatest
<1>6. ASSUME NEW c \in Callers, TryReclaim(c) PROVE Kept
  <2>1. CASE Reclaimable(c)
    <3>1. CASE At(c, "takeExpired")
      BY <1>6, <2>1, <3>1 DEF TryReclaim
    <3>2. CASE At(c, "takeFailed")
      BY <1>6, <2>1, <3>2 DEF Reclaimable, At, Inv, SeenFailed
    <3>. QED BY <1>6, <3>1, <3>2 DEF TryReclaim, At
  <2>2. CASE ~Reclaimable(c)
    BY <1>6, <2>2 DEF TryReclaim
  <2>. QED BY <2>1, <2>2
<1>7. ASSUME NEW c \in Callers, Operate(c) PROVE Kept
  BY <1>7 DEF Operate
<1>8. ASSUME NEW c \in Callers, MarkSucceeded(c) PROVE Kept
  BY <1>1, <1>8 DEF MarkSucceeded, At, Working
<1>9. ASSUME NEW c \in Callers, MarkFailedRetryable(c) PROVE Kept
  BY <1>1, <1>9 DEF MarkFailedRetryable, At, Working
<1>10. ASSUME NEW c \in Callers, ExtendProcessingLock(c) PROVE Kept
  BY <1>10 DEF ExtendProcessingLock
<1>11. ASSUME NEW c \in Callers, Abort(c) PROVE Kept
  BY <1>11 DEF Abort
<1>12. ASSUME DeleteExpired PROVE Kept
  BY <1>12 DEF DeleteExpired, Inv, TypeOK, Row
<1>13. ASSUME Tick PROVE Kept
  BY <1>13 DEF Tick
<1>14. ASSUME UNCHANGED vars PROVE Kept
  BY <1>14 DEF vars
<1>. QED BY <1>2, <1>3, <1>4, <1>5, <1>6, <1>7, <1>8, <1>9,
           <1>10, <1>11, <1>12, <1>13, <1>14 DEF Next

\* As long as nobody is late, a stored result is not touched before it expires
\* (Execute, TryReclaim, DeleteExpired).
THEOREM ResultsKept == Spec => ResultKept
<1>1. ASSUME Inv, [Next]_vars
      PROVE  [mishaps' = {} /\ row # NoRow /\ row.status = "succeeded" /\ row.expiresAt > time
                => row' = row]_vars
  BY <1>1, ResultStep DEF Kept
<1>. QED BY <1>1, Invariance, PTL DEF Spec, ResultKept
=============================================================================
