CONSTANTS
  r1 = r1
  r2 = r2
  r3 = r3
  r4 = r4
  Request <- FourRequests
  Concurrency = 2
  NoRequest = NoRequest
  Unknown = Unknown
  MaxLife = 2
SPECIFICATION Spec
INVARIANT TypeOK
INVARIANT NoncesUnique
INVARIANT NoGap
INVARIANT Balanced
PROPERTY Settles
PROPERTY MinedUnlessBlocked
CHECK_DEADLOCK FALSE
