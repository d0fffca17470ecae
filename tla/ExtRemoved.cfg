SPECIFICATION Spec
CONSTANTS
  Exts = {e1}
  Sweeps = {s1}
  Versions = {v1, v2}
  MaxStarts = 3
  MaxEdits = 1
  MaxFaults = 2
  None = None
CHECK_DEADLOCK FALSE
INVARIANT
  OfferedIsRunning
