\* Callers may free a page twice.
SPECIFICATION Spec
CONSTANTS
  MAX_ORDER = 3
  total_pages = 8
  Pow2 <- MCPow2
  Backed <- MCBacked
  firstBacked = 3
  OverFree = 1
INVARIANTS
  DisjointBlocks
  FlagsMatchLists
  CountersAgree
  NoFragmentation
PROPERTIES
  AllocatorSpec
CHECK_DEADLOCK FALSE
