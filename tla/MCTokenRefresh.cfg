SPECIFICATION FairSpec
CONSTANTS
    b1 = b1
    b2 = b2
    q1 = q1
    p1 = p1
    p2 = p2
    Background = {b1, b2}
    Requests = {q1}
    Processes = {p1, p2}
    ProcessOf <- MCProcessOf
    MaxAttempts = 2
    MaxFaults = 2
    MaxDue = 1
    MaxAdmin = 2
    MaxEvents = 2
INVARIANTS
    TypeOK
    OneRefresher
    StoredUsable
    QuarantineJustified
CHECK_DEADLOCK FALSE
PROPERTIES
    ReauthKept
    DueServed
