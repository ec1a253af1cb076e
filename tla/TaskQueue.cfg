SPECIFICATION FairSpec
CONSTANTS
    Task = {t1, t2}
    ProvisionTask = {t1}
    Worker = {w1, w2}
    WorkerId = {w1, w2}
    IdOf <- OwnIds
    NoOwner = NoOwner
    NoTask = NoTask
    MaxAttempts = 2
    MaxStalls = 1
    MaxAbandons = 1
    MaxRetries = 1
INVARIANTS
    RowsConsistent
PROPERTIES
    KeepsPromise
    EventuallySettled
CHECK_DEADLOCK FALSE
