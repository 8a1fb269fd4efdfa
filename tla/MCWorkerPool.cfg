SPECIFICATION FairSpec
CONSTANTS
  t1 = t1
  t2 = t2
  w1 = w1
  w2 = w2
  p1 = p1
  p2 = p2
  Tasks = {t1, t2}
  WorkerIDs = {w1, w2}
  Workers = {w1, w2}
  Procs = {p1, p2}
  NoWorker = NoWorker
  NoTask = NoTask
  MaxRetries <- OneAndTwoAttempts
  ProcOf <- OneWorkerEach
  WorkerID <- OwnIDs
  Registered <- T1UnknownToP2
  StaleThreshold = 1
  MaxDelay = 1
  BaseBackoff = 1
  MaxBackoff = 1
  MaxOutages = 1
  MaxManualRetries = 1
INVARIANTS
  TablesAgree
  LogExplainsRow
  AttemptsWithinBudget
  SnapshotCurrent
PROPERTIES
  OnlyOwnerOrReaperEnds
  KeepsLifecycle
  EveryTaskSettles
  NoTaskStuckRunning
