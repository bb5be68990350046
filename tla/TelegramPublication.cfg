\* A plan of two operations, two workers: three claims of receipts or retries of a
\* job in all (two, and the next one in any order).
CONSTANTS
  u = u
  v = v
  Nobody = Nobody
  N = 2
  Workers = {u, v}
  MaxAttempts = 2
  MaxClaims = 2
  MaxRetries = 1
SPECIFICATION Spec
SYMMETRY MCWorkerSymmetry
INVARIANTS
  TypeOK
  NoBlindResend
  PublishedIsDelivered
  SentInOrder
PROPERTIES
  SettledReceiptsKept
CONSTRAINT
  MCFewClaims
