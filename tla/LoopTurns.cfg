SPECIFICATION FairSpec
CONSTANTS
  Read = Read
  Write = Write
  Delegate = Delegate
  None = None
  Messages = {m1, m2}
  Batches <- MCBatches
  Reads <- MCReads
  Delegates <- MCAgents
  Cap = 5
  Budget = 4
  MaxParallel = 2
  MaxIterations = 2
  MaxFaults = 1
INVARIANTS
  HistoryIsLegal
  RequestIsLegal
  MessagesOnce
  StepsSumToTurn
  SteersAreAnswered
PROPERTIES
  StoppedTurnEnds
CHECK_DEADLOCK FALSE
