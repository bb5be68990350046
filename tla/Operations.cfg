\* Retention of shared files with a zombie and with replays, backups and
\* restores whose commands fail, hang or are killed, and the pruning of
\* archives over eight slots.
CONSTANTS
  w1 = w1
  w2 = w2
  w3 = w3
  row1 = row1
  row2 = row2
  row3 = row3
  api = api
  worker = worker
  item1 = item1
  name1 = name1
  name2 = name2
  p1 = p1
  p2 = p2
  Nobody = Nobody
  NoJob = NoJob
  Jobs = {"retention"}
  Rows = {row1, row2}
  Late = {}
  Kind <- SharedKind
  Unit <- SharedUnit
  MaxChanges = 1
  Workers = {w1, w2}
  MaxAttempts = 2
  MaxRetries = 1
SPECIFICATION MCSpec
SYMMETRY MCSymmetry
INVARIANTS
  AllTypesOK
  ClaimedFilesExist
  NothingHalfDone
PROPERTIES
  NothingElseRemoved
CHECK_DEADLOCK FALSE
