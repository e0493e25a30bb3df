SPECIFICATION FairSpec
CONSTANTS
  Job = {j1}
  SlurmId = {1, 2}
  Request = {r1, r2}
  Refresher = {f1, f2}
  None = None
  GpuRequests = {1, 2}
  MemoryRequests = {1, 2}
  Limits = {1}
  FirstExpiry = 1
  Horizon = 2
  MaxFaults = 1
PROPERTY RowsFollowSlurm
INVARIANT TypeOK
INVARIANT SlurmRunsWhatWasApproved
INVARIANT NoJobOutlivesItsLease
INVARIANT EndedRowsHaveEnded
PROPERTY DecisionsAreFinal
CHECK_DEADLOCK FALSE
