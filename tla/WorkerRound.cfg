SPECIFICATION RoundSpec
CONSTANTS
    Rules = 3
    Matching = {1, 3}
    Worker = {w1, w2}
    NoOwner = NoOwner
    MaxAttempts = 3
    MaxStalls = 1
    MaxAbandons = 1
    Item = {1, 2}
    Chunk = 2
    MaxFaults = 2
INVARIANTS
    EffectsAccounted
    AppliedOnce
PROPERTIES
    StopsAreKept
    BatchSettled
    EventSettled
CHECK_DEADLOCK FALSE
