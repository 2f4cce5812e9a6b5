SPECIFICATION FairSpec
CONSTANTS
  t1 = t1
  t2 = t2
  Threads = {t1, t2}
  Ops <- MixedOps
  VERB_SEND_SLOT = 2
  AckEvery = 2
  Faults = {"post", "cq"}
INVARIANTS
  WriteReturnsDone
  

  
CHECK_DEADLOCK FALSE
