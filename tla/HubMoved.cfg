SPECIFICATION Spec
CONSTANTS
  k1 = k1
  k2 = k2
  c1 = c1
  c2 = c2
  u1 = u1
  m1 = m1
  m2 = m2
  st1 = st1
  p1 = p1
  s1 = s1
  s2 = s2
  None = None
  Keys <- TwoKeys
  Home <- OneKey
  Conns <- OneConn
  Unattended <- NoInput
  Msgs <- OneMsg
  Steers <- NoInput
  Posts <- NoInput
  Slots <- TwoSlots
  MaxQueueDepth = 2
  Inputs <- MovedInputs
INVARIANTS
  MovedRunsOnce
