SPECIFICATION Spec
CONSTANTS
  NL = 2
  Kind <- KindSwaC4
  Requests <- MCRequests
  MinT = 1
  GuardEvery = 3
  MemPressure = TRUE
  MinSeal = 2
  Keep = 2
  IdleOn = TRUE
  MaxFaults = 0
  MaxReq = 2
  MaxChunks = 2
  Direct = TRUE
  Deadline = TRUE
  MidRequestIdle = FALSE
  PromptHook = FALSE
INVARIANTS UsableIsPure StoredIsWhole
