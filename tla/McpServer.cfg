SPECIFICATION FairSpec
CONSTANTS
  MaxConns = 1
  MaxDials = 3
  MaxEdits = 2
  MaxFaults = 2
CHECK_DEADLOCK FALSE
INVARIANTS
  NeverStranded
PROPERTIES
  ComesBack
