SPECIFICATION Spec
CONSTANTS
  Callers = {c1, c2}
  Fingerprints = {f1, f2}
  Lease = 1
  Backoff = 1
  TTL = 2
  MaxTime = 5
  NoRow = NoRow
  NoRequest = NoRequest
SYMMETRY CallerSymmetry
INVARIANTS TypeOK OneOwner OneEffect AnswerFits
PROPERTIES ResultKept
\* The clock is bounded.
CHECK_DEADLOCK FALSE
