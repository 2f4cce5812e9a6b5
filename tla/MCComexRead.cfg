SPECIFICATION ReadFairSpec
CONSTANTS
  None = None
  Worker = Worker
  t1 = t1
  t2 = t2
  Threads = {t1, t2}
  nMemNodes = 1
  COMEX_ID = 1
  Seeds = {0}
  total_writeOut = 3
  FLUSH = 1
  CHUNK = 4
  threshold = 1
  refill = 2
  RetryAfter = 1
  EmptyBackOff = 2
  MaxAsked = 1
  Supply <- Again
  Faults = {"oom", "rdma", "drop"}
  total_readIn = 2
  PreF_SIZE = 2
INVARIANTS
  RingShape
  PageGivenOnce
  NoPageLost
  

  
