SPECIFICATION FairSpec
CONSTANTS
  task1 = task1
  r1 = r1
  Tasks = {task1}
  Reclaimers = {r1}
  DirtyRatio = 20
  BackgroundRatio = 10
  MinRatio = 0
  MaxRatio = 100
  Avails = {15, 20}
  HZ = 8
  FollowShift = 1
  PollThresh = 2
  RatelimitPages = 3
  ExceededPages = 1
  InitPause = 2
  InitRate = 8
  StatError = 0
  Fractions <- MCFractions
  Periods <- MCPeriods
  Thinks = {0, 20}
  LaptopMode = FALSE
  MaxUpdates = 1
  MaxKills = 1
  MostPages = 2
CHECK_DEADLOCK FALSE
  
PROPERTIES Released
