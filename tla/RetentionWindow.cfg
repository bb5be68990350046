\* A download of the same content while the file is being deleted.
CONSTANTS
  u = u
  v = v
  a = a
  b = b
  c = c
  d = d
  Nobody = Nobody
  NoJob = NoJob
  Jobs = {"retention"}
  Workers = {u}
  MaxAttempts = 2
  MaxRetries = 0
  Rows = {a, b}
  Late = {b}
  Kind <- MCKind
  Unit <- MCUnit
  MaxChanges = 0
SPECIFICATION Spec
INVARIANTS
  ClaimedFilesExist
CHECK_DEADLOCK FALSE
