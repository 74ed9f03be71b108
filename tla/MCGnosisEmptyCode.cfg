CONSTANTS
  r1 = r1
  r2 = r2
  r3 = r3
  Request <- TwoRequests
  NoRequest = NoRequest
  Unknown = Unknown
  EmptyCode = "0x0"
  MaxLife = 2
SPECIFICATION Spec
INVARIANT VerifiedDeployed
CHECK_DEADLOCK FALSE
