SPECIFICATION FairSpec
CONSTANTS
  t1 = t1
  Tasks = {t1}
  NrZones = 2
  ZoneNormal = 1
  Managed <- MCManaged
  MinMark <- MCMin
  LowMark <- MCLow
  HighMark <- MCHigh
  Pinned = {0}
  DefPriority = 1
  ScanRatio = 1
  Cluster = 1
  CompactPages = 1
  Requests <- MCRequests
  MaxOps = 2
CHECK_DEADLOCK FALSE
INVARIANT NoSleepingPair
PROPERTIES Released KswapdRests
