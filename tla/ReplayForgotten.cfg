SPECIFICATION Spec
CONSTANTS
  Pages = {a}
  RingFrames = 3
  RingBytes = 3
  LogBytes = 4
  LiveBytes = 7
  MaxTurns = 2
  Script <- TwoTurns
  MaxSeq = 1
  MaxForgets = 1
  Inputs = {"restart"}
CHECK_DEADLOCK FALSE
INVARIANTS
  RestartIsNoticed
