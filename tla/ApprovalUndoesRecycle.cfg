SPECIFICATION Spec
CONSTANTS
    l1 = l1
    l2 = l2
    l3 = l3
    r1 = r1
    r2 = r2
    q1 = q1
    None = None
    Lease = {l1, l2, l3}
    Renewal = {r1, r2}
    Restore = {q1}
    FirstLease = l1
    FirstExpiry = 1
    Durations = {1, 2}
    RenewalWindow = 1
    MaxAttempts = 3
    RetryDelay <- MCRetryDelay
    Horizon = 4
    MaxDecisionLag = 1
    MaxCrashes = 0
    MaxWorkerFaults = 0
PROPERTIES RecycledLeaseStays
