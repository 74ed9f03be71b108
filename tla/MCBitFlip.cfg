CONSTANTS
  r1 = r1
  r2 = r2
  r3 = r3
  Request <- Requests
  BitsPerWord = 3
  Width = 3
  Limit = 2
  RandomIndex = {0}
  MaxIndex = 6
  MaxUsed = 1
  NoRequest = NoRequest
  Unknown = Unknown
SPECIFICATION Spec
INVARIANT TypeOK
INVARIANT BitsUnique
INVARIANT AcceptedInAnyOrder
INVARIANT MemoryIsSafe
INVARIANT BitflipIsOnSets
INVARIANT SearchIsOnSets
PROPERTY Settles
CHECK_DEADLOCK FALSE
