SPECIFICATION Spec
CONSTANTS
  j1 = j1
  j2 = j2
  Jobs = {j1}
  Made <- JustOff
  Edits <- TurnOn
  Users = {u1}
  Runs = {1, 2}
  Schedules <- TheSchedules
  Concurrency = 1
  MaxTime = 2
  MaxEvents = 2
INVARIANTS
  EditsHold
CHECK_DEADLOCK FALSE
