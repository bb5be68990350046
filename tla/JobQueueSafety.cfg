\* Two workers compete for one job: the lease fence and its races.
CONSTANTS
  a = a
  b = b
  u = u
  v = v
  NoOwner = NoOwner
  Jobs = {a}
  Workers = {u, v}
  Handles <- MCHandles
  Priority <- MCPriority
  MaxAttempts <- MCMaxAttempts
  PauseExempt = {}
  Publishing = {a}
  Lease = 1
  Delays = {1}
  Horizon = 2
  MaxRetries = 1
SPECIFICATION Spec
SYMMETRY MCWorkerSymmetry
INVARIANTS
  TypeOK
  ClaimFence
PROPERTIES
  LiveLeaseKept
  CheckpointsMoveForward
  PauseHolds
  LifecycleSpec
