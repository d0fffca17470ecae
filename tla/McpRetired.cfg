SPECIFICATION Spec
CONSTANTS
  MaxConns = 1
  MaxDials = 4
  MaxEdits = 2
  MaxFaults = 0
CHECK_DEADLOCK FALSE
INVARIANTS
  RetiredOffersNothing
