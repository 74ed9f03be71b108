CONSTANTS
  Admin = {"alice", "bob"}
  MaxStops = 2
SPECIFICATION Spec
INVARIANT TypeOK
INVARIANT ReturnedMeansDeployed
PROPERTY Completes
CHECK_DEADLOCK FALSE
