SPECIFICATION AccountsSpec
CONSTANTS
    u1 = u1
    u2 = u2
    k1 = k1
    k2 = k2
    c1 = c1
    w1 = w1
    w2 = w2
    i1 = i1
    i2 = i2
    s1 = s1
    s2 = s2
    None = None
    User <- MCUser
    TaskKey <- MCTaskKey
    Code <- MCCode
    Worker <- MCWorker
    Id <- MCId
    Slot <- MCSlot
    UserLimit = 1
    QueueLimit = 1
    MaxSubmits = 2
    MaxRetries = 1
    MaxFaults = 2
    NoId = NoId
    Member <- MCUser
    EmbyId <- MCId
    Handler <- MCSlot
    MaxCredit = 1
    MaxJobs = 3
    Exchange = TRUE
SYMMETRY Symmetry
INVARIANTS WithinLimit TasksAccountedFor RowsMatchServer BalancesAddUp
PROPERTIES ClearedOnlyDeleted
CHECK_DEADLOCK FALSE
