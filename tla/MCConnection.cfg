SPECIFICATION ConnSpec
CONSTANTS
  Index = {0}
  Wild = Wild
  Declared <- StreamDeclared
  Handle = {h1, h2}
  First = h1
  Nobody = Nobody
  WirePath <- StreamPath
  AppPath <- StreamApp
  MaxUnclaimed = 1
  MaxChunks = 1
  MaxFrameChunks = 1
  MaxFrames = 2
  Writer = {w1, w2}
  Origin = w1
  OutPath <- StreamPath
  MaxQueue = 1
  MaxWire = 1
  MaxSize = 1
  MaxSent = 2
INVARIANTS
  OkMeansDelivered
  NoBlame
PROPERTIES
  Delivered
CHECK_DEADLOCK FALSE
