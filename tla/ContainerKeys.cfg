SPECIFICATION Spec
CONSTANTS
    Owner = {o1, o2}
    Active = {o1}
    Key = {k1, k2, k3, k4}
    Rec = {1, 2, 3, 4}
    Limit = 3
    MaxLease = 2
    MaxFaults = 2
CHECK_DEADLOCK FALSE
INVARIANTS
    TypeOK
    RecordsAreStaged
    HostMatchesPortal
