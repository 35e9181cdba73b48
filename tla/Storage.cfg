SPECIFICATION MCSpec
CONSTANTS
  Scenarios = {"log", "tasks", "files", "secrets", "hooks"}
  Thread = {t1, t2}
  NoThread = NoThread
  Nothing = Nothing
  MaxEvents = 2
  MaxCrashes = 1
  None = None
  Absent = Absent
  MaxSessions = 2
  MaxSteps = 0
  MaxFaults = 1
  Call = {1, 2}
  OpsOf <- AnyAndWriter
  LoopOf <- OwnLoops
  Backends = {"memory", "local", "s3", "gcs"}
  MaxTries = 1
  MaxDeaths = 1
  Client = {c1, c2}
  Name = {n1}
  FileOf <- OneFile
  EnvKey = FALSE
  MaxSets = 2
  MaxOps = 3
  MaxRestarts = 1
  Hook = {1}
  NoHook = NoHook
  MaxForeign = 1
  Requested = {1, 2, 3}
CHECK_DEADLOCK FALSE
INVARIANTS
  CountAgrees
  FilesKept
  ClearedIsGone
  HooksAgree
PROPERTIES
  LastIsRecent
  ImplementsDurableLog
  EveryoneGoesOn
