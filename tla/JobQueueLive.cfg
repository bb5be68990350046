\* One worker, two jobs of different priority: progress.
CONSTANTS
  a = a
  b = b
  u = u
  v = v
  NoOwner = NoOwner
  Jobs = {a, b}
  Workers = {u}
  Handles <- MCHandles
  Priority <- MCPriority
  MaxAttempts <- MCMaxAttempts
  PauseExempt = {b}
  Publishing = {}
  Lease = 1
  Delays = {1}
  Horizon = 1
  MaxRetries = 0
SPECIFICATION FairSpec
PROPERTIES
  EveryClaimEnds
  QueuedJobsStart
