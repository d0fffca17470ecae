SPECIFICATION FairSpec
CONSTANTS
  j1 = j1
  j2 = j2
  Jobs = {j1, j2}
  Made <- BothOn
  Edits <- TheEdits
  Users = {u1, u2}
  Runs = {1, 2, 3}
  Schedules <- TheSchedules
  Concurrency = 1
  MaxTime = 2
  MaxEvents = 2
INVARIANTS
  OneRunPerJob
  PendingHasItsRun
  NextRunFits
  OneShotOnce
  TicksKeepTheLimit
CHECK_DEADLOCK FALSE
PROPERTIES
  DueIsServed
