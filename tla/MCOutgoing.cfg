SPECIFICATION OutFairSpec
CONSTANTS
  Writer = {w1, w2}
  Origin = w1
  OutPath <- Paths
  MaxQueue = 1
  MaxWire = 2
  MaxSize = 1
  MaxSent = 3
INVARIANTS
  CauseKnown
PROPERTIES
  EgressProgress
CHECK_DEADLOCK FALSE
