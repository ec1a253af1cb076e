\* Three transactions, so that two redemptions of a code with two uses meet a third.
SPECIFICATION Spec
CONSTANTS
    Account = {a1, a2}
    Code = {c1}
    Key = {k1, k2}
    Tx = {p1, p2, p3}
    None = None
    MaxUses = 2
    PlanDays = 3
    MaxAssignments = 2
    Worker = {w1, w2}
    NoOwner = NoOwner
    NoTask = NoTask
    MaxFaults = 2
SYMMETRY Interchangeable
INVARIANTS
    CodesAccounted
    RecordIsTruthful
PROPERTIES
    RevokedIsFinal
CHECK_DEADLOCK FALSE
