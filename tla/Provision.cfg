\* One shared Emby server, two accounts, two workers, two faults and one act of Outside.
SPECIFICATION Spec
CONSTANTS
    Account = {a1, a2}
    Instance = {e1}
    Name = {n1, n2}
    Wanted = {n1}
    Worker = {w1, w2}
    None = None
    Outside = Outside
    MaxBindings = 1
    MaxAttempts = 2
    MaxUsers = 2
    MaxFaults = 2
    MaxOutside = 1
SYMMETRY Interchangeable
INVARIANTS
    UserIsSound
CHECK_DEADLOCK FALSE
