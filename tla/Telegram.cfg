\* Two dispatches of a story and two workers, with pauses, cancelled jobs,
\* zombies and failing calls; three dispatches of which one is retried after
\* later ones have written; a route with a backlog that takes several jobs;
\* two overlapping checks of a destination that is edited, rotated and deleted.
CONSTANTS
  w1 = w1
  w2 = w2
  w3 = w3
  check1 = check1
  check2 = check2
  Nobody = Nobody
  NoJob = NoJob
  Jobs = {check1, check2}
  DestJobs = {check1, check2}
  ProxyJobs = {}
  Workers = {w1, w2}
  MaxAttempts = 1
  MaxRetries = 0
SPECIFICATION MCSpec
SYMMETRY MCSymmetry
INVARIANTS
  AllTypesOK
  NothingSkipped
  EnabledAfterCheck
  OneLineage
PROPERTIES
  DispatchesKept
CHECK_DEADLOCK FALSE
