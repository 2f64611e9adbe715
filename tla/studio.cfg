SPECIFICATION StudioSpec
CONSTANTS
  NL = 3
  Kind <- Kind3
  Block = 4
  Win = 3
  R4 = 2
  R128 = 4
  TailRaw = 5
  Keep = 3
  Prompts <- AllPrompts
  None = None
  MinT = 3
  KeepCaptures = 1
  GuardEvery = 4
  Streaming = "auto"
  Turns <- Talk
  Others <- Strangers
  MaxOthers = 1
  Steps = {5}
  EngineBlock = 2
  MaxFaults = 1
  Asked <- Ask
  BridgeOnly = {1}
  Transports = {"rdma", "rdma2", "rdma4"}
  Page = 3
  MinTokens = 4
  MinTail = 4
  MaxWoes = 1
INVARIANTS RowTypeOK BlocksAreTrue KeptIsWhole NothingIsLost KvTypeOK FilesAreTrue PreparedIsOwn VerdictIsTrue
PROPERTIES TurnIsAnswered ClientsAreAnswered BridgeReturns
CHECK_DEADLOCK FALSE
