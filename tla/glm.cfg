SPECIFICATION FairSpec
CONSTANTS
  ja = ja
  jb = jb
  jc = jc
  Jobs = {ja, jb, jc}
  Asks <- MCAsks
  MinTokens = 4
  MinDelta = 4
  MaxHandoffs = {0, 10}
  DefaultCap = 12
  BigTokens = 8
  MaxStarts = 2
  ChunkStep = 100
  SweepPreempted = FALSE
  None = None
INVARIANTS TypeOK BudgetExact PairNotOverfull OneDoor StoreIsOwn BoundaryIsUsable SplitIsUsed
PROPERTY EveryJobIsFilled
CHECK_DEADLOCK FALSE
