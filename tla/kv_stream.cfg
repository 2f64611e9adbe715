CONSTANTS
  Tags = {a, b}
  Native = {a}
  NBlocks = 2
  Depth = 2
  QMax = 1
  HasTail = TRUE
  Overlap = TRUE
  MaxFaults = 1
  MaxRestarts = 1
SPECIFICATION FairSpec
INVARIANTS TypeOK WholeFiles PoolConserved
PROPERTIES LandsInOrder ForwardReturns CaptureEnds
CHECK_DEADLOCK FALSE
