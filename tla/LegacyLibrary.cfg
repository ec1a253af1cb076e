SPECIFICATION LibrarySpec
CONSTANTS
    u1 = u1
    u2 = u2
    s1 = s1
    s2 = s2
    User <- MCUser
    Code <- MCCode
    Slot <- MCSlot
    Lib <- MCLib
    Partition <- MCPartition
    LibsOf <- MCLibsOf
    PartOf <- MCPartOf
    Block <- MCBlock
    Extra <- MCExtra
    MaxJobs = 3
    MaxFaults = 1
SYMMETRY Symmetry
INVARIANTS CodesSound AccessMatchesGrants OtherSettingsKept
CHECK_DEADLOCK FALSE
