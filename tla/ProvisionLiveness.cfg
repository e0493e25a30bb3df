SPECIFICATION FairSpec
CONSTANTS
    a1 = a1
    a2 = a2
    r1 = r1
    r2 = r2
    c1 = c1
    c2 = c2
    k1 = k1
    k2 = k2
    None = None
    Account = {a1, a2}
    Request = {r1}
    Owner <- OneAccount
    Coord = {c1}
    Caller = {k1, k2}
    MaxPlans = 2
    MaxOrchestrations = 2
    MaxLapses = 1
    MaxCrashes = 1
    MaxFaults = 2
    MaxQueuedTimeouts = 0
CHECK_DEADLOCK FALSE
INVARIANTS RecordedEnvironment RolledBackIsClean
PROPERTIES OrchestrationEnds HoldsConverge
