SPECIFICATION ReqFairSpec
CONSTANTS
  t1 = t1
  w1 = w1
  p1 = p1
  r1 = r1
  r2 = r2
  r3 = r3
  Tasks = {t1}
  WorkerIDs = {w1}
  Workers = {w1}
  Procs = {p1}
  NoWorker = NoWorker
  NoTask = NoTask
  MaxRetries <- OneAttempt
  ProcOf <- TheProc
  WorkerID <- OwnID
  Registered <- AllRegistered
  StaleThreshold = 1
  MaxDelay = 0
  BaseBackoff = 1
  MaxBackoff = 1
  MaxOutages = 1
  MaxManualRetries = 3
  Requests = {r1, r2}
  Kind <- Cancels
  Target <- ToT1
  MaxConns = 2
PROPERTY
  EveryRequestAnswered
CHECK_DEADLOCK
  FALSE
