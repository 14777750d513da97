SPECIFICATION Spec
CONSTANTS
  Func = {f, g}
  Reg = {r1, r2}
  NoReg = NoReg
  Stopper = {s1, s2}
  Conn = {c1, c2}
INVARIANTS
  QuietAfterStop
  ReaderKept
PROPERTIES
  StopsOwn
  StopEnds
CHECK_DEADLOCK FALSE
