SPECIFICATION Spec
CONSTANTS
  NL = 2
  Kind <- KindSwaC4
  Requests <- MCRequests
  MinT = 1
  GuardEvery = 3
  MemPressure = TRUE
  MinSeal = 2
  Keep = 3
  IdleOn = TRUE
  MaxFaults = 0
  MaxReq = 1
  MaxChunks = 2
  Direct = FALSE
  Deadline = FALSE
  MidRequestIdle = FALSE
  PromptHook = TRUE
INVARIANT SealedPrefixIsWhole
