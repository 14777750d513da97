SPECIFICATION FairSpec
CONSTANTS
  Index = {0, 1}
  Wild = Wild
  Declared <- PairDeclared
  Handle = {h1}
  First = h1
  Nobody = Nobody
  WirePath <- PairWire
  AppPath <- PairApp
  MaxUnclaimed = 1
  MaxChunks = 1
  MaxFrameChunks = 2
  MaxFrames = 2
PROPERTIES
  DrainEnds
CHECK_DEADLOCK FALSE
