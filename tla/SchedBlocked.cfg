SPECIFICATION Spec
CONSTANTS
  j1 = j1
  j2 = j2
  Jobs = {j1, j2}
  Made <- Twice
  Edits <- NoEdits
  Users = {}
  Runs = {1, 2, 3}
  Schedules <- TheSchedules
  Concurrency = 2
  MaxTime = 2
  MaxEvents = 0
CHECK_DEADLOCK FALSE
PROPERTIES
  TickFillsItsRoom
