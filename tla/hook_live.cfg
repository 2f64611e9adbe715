SPECIFICATION FairSpec
CONSTANTS
  NL = 2
  Kind <- KindSwaC4
  Requests <- MCRequests
  MinT = 1
  GuardEvery = 0
  MemPressure = FALSE
  MinSeal = 2
  Keep = 1
  IdleOn = TRUE
  MaxFaults = 0
  MaxReq = 2
  MaxChunks = 2
  Direct = TRUE
  Deadline = FALSE
  MidRequestIdle = FALSE
  PromptHook = TRUE
PROPERTIES OpenIsClosed FrontAnswers
