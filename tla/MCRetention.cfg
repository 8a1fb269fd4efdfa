SPECIFICATION RetFairSpec
CONSTANTS
  t1 = t1
  t2 = t2
  Old <- MCOld
  MaxMoves = 5
  MaxSweeps = 1
INVARIANTS TablesStayJoined LatestLogKept
PROPERTIES OnlyIdleDeleted ActsAtOnce NobodyWaitsForever
CHECK_DEADLOCK FALSE
