SPECIFICATION Spec
CONSTANTS
    Rules = 2
    Matching = {1, 2}
    Worker = {w1, w2}
    NoOwner = NoOwner
    MaxAttempts = 3
    MaxStalls = 1
    MaxAbandons = 0
INVARIANT AlwaysAtMostOneSuccess
CHECK_DEADLOCK FALSE
