CONSTANTS
  r1 = r1
  r2 = r2
  r3 = r3
  Request <- ThreeRequests
  NoRequest = NoRequest
  Unknown = Unknown
  EmptyCode = "0x"
  MaxLife = 2
SPECIFICATION Spec
PROPERTY RefinesOneQueue
PROPERTY QueueSettles
PROPERTY QueueMined
CHECK_DEADLOCK FALSE
