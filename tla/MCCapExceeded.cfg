SPECIFICATION Spec
CONSTANTS
  t1 = t1
  t2 = t2
  t3 = t3
  burst = burst
  create = create
  retry1 = retry1
  Tasks = {t1, t2, t3}
  Requests = {burst, create, retry1}
  Count <- Counts
  Retried <- RetryOfT1
  NoTask = NoTask
  NoRequest = NoRequest
  MaxPending = 2
INVARIANT
  DepthWithinCap
CHECK_DEADLOCK
  FALSE
