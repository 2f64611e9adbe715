CONSTANTS
  Tags = {a, b}
  Native = {a, b}
  NBlocks = 2
  Depth = 2
  QMax = 2
  HasTail = FALSE
  Overlap = TRUE
  MaxFaults = 1
  MaxRestarts = 1
SPECIFICATION Spec
INVARIANT DoneIsWhole
CHECK_DEADLOCK FALSE
