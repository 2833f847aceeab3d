SPECIFICATION Spec
CONSTANTS
    r1 = r1
    r2 = r2
    t1 = t1
    t2 = t2
    i1 = i1
    Requests = {r1, r2}
    Tasks = {t1, t2}
    OwnerOf <- MCOwnerOf
    BillId <- MCBillId
    Mandatory <- MCMandatory
    Estimate <- MCEstimate
    Cost <- MCCost
    Openings = {2, 3}
    MinReserve = 0
    QueueSize = 1
    WriteSize = 1
    Faults = FALSE
    None = None
INVARIANTS
    AdmissionSeesCharges
CHECK_DEADLOCK FALSE
