SPECIFICATION FairSpec
CONSTANTS
  Index = {0, 1}
  Wild = Wild
  Declared <- NestedDeclared
  Handle = {h1, h2}
  First = h1
  Nobody = Nobody
  WirePath <- NestedWire
  AppPath <- NestedApp
  MaxUnclaimed = 1
  MaxChunks = 1
  MaxFrameChunks = 2
  MaxFrames = 2
INVARIANTS
  TypeOK
  UnclaimedBound
  HandlesCounted
  OkMeansProcessed
  NoLostWakeup
  PermitIffUnclaimed
PROPERTIES
  EofIsTrue
  ReleasedForever
  FailureSurfaces
  DrainEnds
CHECK_DEADLOCK FALSE
