SPECIFICATION Spec
CONSTANTS
  MaxConns = 1
  MaxDials = 3
  MaxEdits = 1
  MaxFaults = 1
CHECK_DEADLOCK FALSE
INVARIANTS
  NewestPublishes
