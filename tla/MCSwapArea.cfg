SPECIFICATION Spec
CONSTANTS
    t1 = t1
    t2 = t2
    m1 = m1
    m2 = m2
    None = None
    NTypes = 2
    NPages = 3
    Bad = {}
    Cluster = 2
    Prios <- MCPrios
    Discardable = TRUE
    Tasks <- MCTasks
    Mms <- MCMms
    MaxCalls = 3
    MaxAllocs = 3
SYMMETRY MCSymmetry
INVARIANTS
    PagesCounted
    FreePagesInReach
    SwapOffComplete
    DiscardSpares
CHECK_DEADLOCK FALSE
