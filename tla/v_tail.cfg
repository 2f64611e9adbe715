CONSTANTS
  Tags = {a, b}
  Native = {a, b}
  NBlocks = 2
  Depth = 2
  QMax = 2
  HasTail = TRUE
  Overlap = FALSE
  MaxFaults = 1
  MaxRestarts = 0
SPECIFICATION Spec
PROPERTY TailIsOptional
CHECK_DEADLOCK FALSE
