SPECIFICATION NodeFairSpec
CONSTANTS
  MAX_ORDER = 3
  total_pages = 8
  Pow2 <- MCPow2
  Backed <- MCBacked
  firstBacked = 3
  OverFree = 0
  MAX_FREE = 2
  MAX_COUNT = 2
  COMEX_refill = 2
  LeastOrder = 0
  MaxAsked = 1
  CanDrop = TRUE
INVARIANTS
  PagesPlaced
PROPERTIES
  UsesAllocator
  FreedInTheEnd
CHECK_DEADLOCK FALSE
