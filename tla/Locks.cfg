SPECIFICATION MCSpec
CONSTANTS
  Thread = {t1, t2, t3, t4}
  Timed = {t3, t4}
  NoThread = NoThread
  Task = {a, b, c, d}
  Cancellable = {b, c}
  NoTask = NoTask
  StatusThread = {t1, t2, t3}
  MaxCalls = 1
  c1 = c1
  c2 = c2
  c3 = c3
  c4 = c4
  Call = {c1, c2, c3, c4}
  NoCall = NoCall
  Key = {1, 2}
  Decls <- SelfBlocking
  RetryCount = 2
  e1 = e1
  e2 = e2
  e3 = e3
  k1 = k1
  k2 = k2
  None = None
  Parallel <- ThreeCalls
  ResourceOf <- SharedResource
  Worker = {w1, w2}
  Writing = {e1}
  TimedCall = {e1, e2, e3}
  Sync = {e2}
  MaxConcurrency = 2
  b1 = b1
  b2 = b2
  b3 = b3
  Batches <- TwoBatches
  InTheWay <- FirstInTheWay
  TimedThread = {b1}
  MaxWorkers = 2
INVARIANTS
  NoAbandonedWaiter
  NoLostWakeup
  WaitsAscend
  LocksKept
  BatchAnswered
PROPERTIES
  EverybodyServed
  ImplementsFairLock
  ImplementsSchedule
\* every call settles, and then nothing is left to do
CHECK_DEADLOCK FALSE
