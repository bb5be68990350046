\* Two cycles of a subscription with crashes and replays, two subscriptions of
\* one collection with manual runs, and a worker that lost its lease; runs over
\* two sources with error pages, unreadable feeds, failing writes, aborted
\* attempts, and two runs at the same time; schedules of sources and refreshes of
\* their icons with ticks that die.
CONSTANTS
  w1 = w1
  w2 = w2
  w3 = w3
  sub1 = sub1
  sub2 = sub2
  Nobody = Nobody
  NoJob = NoJob
  Subs = {sub1, sub2}
  Workers = {w1, w2}
  MaxAttempts = 1
  MaxCycles = 1
  MaxLost = 0
SPECIFICATION MCSpec
SYMMETRY MCSymmetry
INVARIANTS
  AllTypesOK
  SingleIngest
  IngestAgrees
PROPERTIES
  CyclesKept
CHECK_DEADLOCK FALSE
