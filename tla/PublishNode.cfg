\* One manual run of a reviewed workflow that ends in a Telegram publication.
CONSTANTS
  u = u
  v = v
  Nobody = Nobody
  NoJob = NoJob
  Jobs <- MCJobs
  Workers = {u, v}
  MaxAttempts = 2
  MaxRetries = 0
  Stages <- MCStages
  MaxRuns = 1
  Request <- MCRequest
  DryRuns = {FALSE}
  Disturbances = {}
SPECIFICATION Spec
INVARIANTS
  PublishNodeIsPublished
CHECK_DEADLOCK FALSE
