SPECIFICATION MCSpec
CONSTANTS
  Scenarios = {"stuck"}
  c1 = c1
  c2 = c2
  Call = {c1, c2}
  MinInterval = 2
  MaxPulls = 1
  Services <- EveryService
  OpsOf <- AnyAndSecond
  Message = {1, 2, 3}
  NoAgent = NoAgent
  CacheSize = 2
  IdleTTL = 0
  Device = {1, 2, 3}
  NoDevice = NoDevice
  Sizes = {2, 3}
  Job = {"j1", "j2"}
  Enabled = {"j1"}
  Absent = Absent
  Slots = {1, 2}
  MaxTime = 2
  MaxChanges = 1
  MaxCalls = 2
  Turns <- AgentTurns
  WindowSize = 10
  RepeatThreshold = 2
  MonologueThreshold = 5
  ContextThreshold = 2
  MaxTurns = 4
  Thread = {t1, t2}
  Nobody = Nobody
  Conversation = {v1}
  Unregistered = Unregistered
  MaxOperations = 3
CHECK_DEADLOCK FALSE
PROPERTIES
  AnalyzeReturns
