SPECIFICATION Spec
CONSTANTS
    o1 = o1
    o2 = o2
    t1 = t1
    t2 = t2
    Offsets <- MCOffsets
    Threads <- MCThreads
    MapMax = 1
    ContMax = 1
    MaxRefs = 8
INVARIANTS
    CountExact
    NoOverProvision
