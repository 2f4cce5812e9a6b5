SPECIFICATION FairSpec
CONSTANTS
  Nodes = {1, 2}
  CONF_isServer <- LowerListens
  Faults = {"cm", "setup", "post", "down", "late"}
INVARIANTS
  ReadyHasTable
PROPERTIES
  AllOperate
CHECK_DEADLOCK FALSE
