SPECIFICATION FairSpec
CONSTANTS
  Index = {0, 1}
  Params = {0}
  Depth = 3
  WirePath <- DeepPath
  Capacity = 1
  QueueCapacity = 1
  MaxPending = 1
  MaxFrameChunks = 2
  MaxFrames = 3
INVARIANTS
  OkMeansDecoded
  NoBlame
PROPERTIES
  MuxEnds
CHECK_DEADLOCK FALSE
