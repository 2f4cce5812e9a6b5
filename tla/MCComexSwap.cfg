SPECIFICATION Spec
CONSTANTS
    m1 = m1
    m2 = m2
    f1 = f1
    f2 = f2
    t1 = t1
    t2 = t2
    r1 = r1
    d1 = d1
    None = None
    Mms <- MCMms
    First = m1
    Frames <- MCFrames
    Local = {}
    Remote = {r1}
    Disk = {d1}
    Tasks <- MCTasks
    MaxOps = 2
SYMMETRY MCSymmetry
INVARIANTS   SwapMapExact
CHECK_DEADLOCK FALSE
