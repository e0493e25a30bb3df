SPECIFICATION Spec
CONSTANTS
  Job = {j1}
  SlurmId = {1, 2}
  Request = {r1}
  Refresher = {f1}
  None = None
  GpuRequests = {2}
  MemoryRequests = {2}
  Limits = {1}
  FirstExpiry = 2
  Horizon = 2
  MaxFaults = 0
INVARIANT BothPassedSubmittedOnce
CHECK_DEADLOCK FALSE
