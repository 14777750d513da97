SPECIFICATION Spec
CONSTANTS
  Cases <- MCCases
  RawInputs <- MCRawInputs
  IdLen = 2
  Shared <- MCShared
  MaxDepth = 2
  MaxSize = 4
  MaxNameLen = 2
INVARIANTS
  Resumable
  RoundTrip
  DecodersAgree
  PathsDeclared
CHECK_DEADLOCK FALSE
