CONSTANTS
  To = {"t", "u"}
  Data = {"d"}
  Amount = {1}
  Salt = {"s"}
  Absent = Absent
  MaxBatch = 2
SPECIFICATION Spec
INVARIANT RevertsAsAsked
CHECK_DEADLOCK FALSE
