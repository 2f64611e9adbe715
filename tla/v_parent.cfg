SPECIFICATION RowSpec
CONSTANTS
  NL = 3
  Kind <- Kind3
  Block = 4
  Win = 3
  R4 = 2
  R128 = 4
  TailRaw = 5
  Keep = 3
  Prompts <- AllPrompts
  None = None
  MinT = 3
  KeepCaptures = 2
  GuardEvery = 4
  Streaming = "auto"
  Turns <- Interrupted
  Others <- Strangers
  MaxOthers = 1
  Steps = {3}
  EngineBlock = 2
  MaxFaults = 0
INVARIANT BlocksAreTrue
CHECK_DEADLOCK FALSE
