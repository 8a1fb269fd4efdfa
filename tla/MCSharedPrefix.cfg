SPECIFICATION Spec
CONSTANTS
  t1 = t1
  t2 = t2
  w1 = w1
  w2 = w2
  p1 = p1
  p2 = p2
  Tasks = {t2}
  WorkerIDs = {w1}
  Workers = {w1, w2}
  Procs = {p1, p2}
  NoWorker = NoWorker
  NoTask = NoTask
  MaxRetries <- TwoAttempts
  ProcOf <- OneWorkerEach
  WorkerID <- SharedID
  Registered <- AllRegistered
  StaleThreshold = 1
  MaxDelay = 1
  BaseBackoff = 1
  MaxBackoff = 1
  MaxOutages = 0
  MaxManualRetries = 0
INVARIANT
  AttemptsWithinBudget
