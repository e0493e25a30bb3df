SPECIFICATION Spec
CONSTANTS
    a1 = a1
    a2 = a2
    r1 = r1
    r2 = r2
    c1 = c1
    c2 = c2
    k1 = k1
    k2 = k2
    None = None
    Account = {a1, a2}
    Request = {r1, r2}
    Owner <- TwoAccounts
    Coord = {c1, c2}
    Caller = {k1}
    MaxPlans = 3
    MaxOrchestrations = 1
    MaxLapses = 1
    MaxCrashes = 0
    MaxFaults = 1
    MaxQueuedTimeouts = 1
CHECK_DEADLOCK FALSE
SYMMETRY CoordSymmetry
INVARIANTS TypeOK AttemptChain EnvironmentsDisjoint HeldOnce
