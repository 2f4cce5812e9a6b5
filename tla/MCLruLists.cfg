SPECIFICATION Spec
CONSTANTS
  p1 = p1
  p2 = p2
  p3 = p3
  k = k
  d1 = d1
  m1 = m1
  Pages = {p1, p2, p3}
  FilePages = {p1, p2}
  Kswapd = k
  Direct = {d1}
  Lockers = {m1}
  NrToScan = 2
  MaxScans = 2
  MaxLocks = 2
CHECK_DEADLOCK FALSE
INVARIANTS CountersExact OnePlace FlagsFitList NeverStranded
SYMMETRY Symmetry
