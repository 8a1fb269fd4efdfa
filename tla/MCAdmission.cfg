SPECIFICATION AdmissionSpec
CONSTANTS
  Limiters = {"mutation", "session"}
  Keys <- MCKeys
  LimiterOf <- MCLimiterOf
  Cap <- MCCap
  Rate <- MCRate
  Clients = {c1, c2}
  IPs <- MCIPs
  Sessions <- MCSessions
  NoSession = NoSession
  NoRequest = NoRequest
  Unit = 3
  GCWindow = 1
  Second = 1
  MaxTime = 4
INVARIANTS
  MutationsLimited
  WithinBurst
  RetryAfterHonest
PROPERTIES
  ActsAsBucket
SYMMETRY MCSymmetry
CHECK_DEADLOCK FALSE
