CONSTANTS
  Session = {"s", "t"}
  Types <- Pairs
  SafeOptions <- Options
  Absent = Absent
  Concurrency = 2
  Index = {0, 1}
  Bit = {0, 1, 2, 3, 4, 5, 6, 7}
  MaxRuns = 2
  MaxStops = 1
SPECIFICATION Spec
INVARIANT TypeOK
INVARIANT SuccessMeansEffect
INVARIANT OneOfEachWins
PROPERTY LastGetsThrough
CHECK_DEADLOCK FALSE
