SPECIFICATION Spec
CONSTANTS
    l1 = l1
    l2 = l2
    l3 = l3
    r1 = r1
    r2 = r2
    q1 = q1
    q2 = q2
    None = None
    Lease = {l1, l2, l3}
    Renewal = {r1, r2}
    Restore = {q1, q2}
    FirstLease = l1
    FirstExpiry = 1
    Durations = {1}
    RenewalWindow = 2
    MaxAttempts = 3
    RetryDelay <- MCRetryDelay
    Horizon = 3
    MaxDecisionLag = 0
    MaxCrashes = 0
    MaxWorkerFaults = 1
SYMMETRY MCRequests
INVARIANTS TypeOK ReviewedRestoresWaitForAdmin EntitlementsDisjoint EntitledEnvironmentIsUp OneOpenRenewal RecycleBinIsContained IInv
PROPERTIES RecycledLeaseStays RestoredItemStays
