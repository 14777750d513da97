SPECIFICATION WriterSpec
CONSTANTS
  Writer = {w1, w2, w3}
  Root = w1
  Egress = Egress
  MaxQueue = 2
  MaxSent = 3
INVARIANTS
  NoSendOnClosed
  CloseOkMeansWritten
  CleanEndMeansAll
PROPERTIES
  CloseEnds
CHECK_DEADLOCK FALSE
