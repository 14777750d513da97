SPECIFICATION FairSpec
CONSTANTS
  Index = {0, 1}
  Wild = Wild
  Declared <- StreamDeclared
  Handle = {h1, h2}
  Root = h1
  WirePath <- StreamWire
  AppPath <- StreamApp
  MaxUnclaimed = 1
  Capacity = 1
  MaxFrameChunks = 2
  MaxFrames = 2
INVARIANTS
  OkMeansRead
  NoLostWakeup
PROPERTIES
  EofIsTrue
  ReaderEnds
CHECK_DEADLOCK FALSE
