\* truncate() of a log that was opened again after a crash; nothing else than EventLog.
SPECIFICATION Spec
CONSTANTS
  Thread = {t1, t2}
  NoThread = NoThread
  Nothing = Nothing
  MaxEvents = 3
  MaxCrashes = 1
CHECK_DEADLOCK FALSE
INVARIANTS
  NewestKept
