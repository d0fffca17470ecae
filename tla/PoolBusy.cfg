SPECIFICATION Spec
CONSTANTS
  Keys = {k1, k2, k3}
  Commands = {c1}
  Operator = op
  Keeper = keep
  Names = {1, 2, 3, 4, 5}
  MaxLive = 2
  Digests = {d1}
  MaxEvents = 1
  None = None
CHECK_DEADLOCK FALSE
PROPERTIES
  BusyIsSpared
