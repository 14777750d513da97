SPECIFICATION FairSpec
CONSTANTS
  Kinds <- MCKinds
  Capacity = 1
  StreamCapacity = 1
  MaxData = 2
INVARIANTS
  OkMeansExchanged
  NoSpuriousFailure
PROPERTIES
  CallEnds
CHECK_DEADLOCK FALSE
