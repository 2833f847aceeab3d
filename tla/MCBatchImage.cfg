SPECIFICATION Spec
CONSTANTS
    j1 = j1
    j2 = j2
    w1 = w1
    w2 = w2
    Jobs <- MCJobs
    Fresh <- MCFresh
    Workers <- MCWorkers
    Hold <- MCHold
    Costs <- MCCosts
    Opening = 2
    OpeningFrozen = 2
    MaxRetries = 1
    MaxFaults = 1
    None = None
SYMMETRY MCSymmetry
CHECK_DEADLOCK FALSE
INVARIANTS
    TypeOK
    SettledOnce
    OutcomeMatches
    WorkCovered
    HoldFollowed
    MoneyAccounted
PROPERTIES
    StatusForward
