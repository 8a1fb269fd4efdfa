SPECIFICATION CrashFairSpec
CONSTANTS
  MaxDemos = 2
  MaxChildren = 3
  MaxMishaps = 1
INVARIANTS
  SingleFlight
  EveryChildTracked
  CompletedMeansRecovered
  WorkerLeft
PROPERTIES
  OnlyLateFailuresOverdraw
  EveryDemoEnds
  ShutdownStaysClean
CHECK_DEADLOCK FALSE
