SPECIFICATION Spec
CONSTANTS
  MaxBytes = 2
INVARIANTS
  EndIsTrue
  AbortIffUnfinished
PROPERTIES
  ReaderWoken
CHECK_DEADLOCK FALSE
