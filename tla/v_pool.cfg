SPECIFICATION Spec
CONSTANTS
  NL = 2
  Kind <- KindSwaC128
  Requests <- MCRequests
  MinT = 1
  GuardEvery = 0
  MemPressure = FALSE
  MinSeal = 2
  Keep = 3
  IdleOn = TRUE
  MaxFaults = 1
  MaxReq = 1
  MaxChunks = 3
  Direct = FALSE
  Deadline = FALSE
  MidRequestIdle = FALSE
  PromptHook = TRUE
INVARIANT StoredIsWhole
