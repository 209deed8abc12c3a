CONSTANTS
  k1 = k1
  k2 = k2
  e1 = e1
  v = v
  w = w
  s1 = s1
  s2 = s2
  s3 = s3
  None = None
  Keys = {k1, k2}
  Episodes = {e1}
  Values = {v, w}
  Sessions = {s1, s2}
  Puts <- FewPuts
  MaxCalls = 2
  Faults = {"db", "crash"}
  Layouts <- BothLayouts
  Backends = {"hosted", "local"}
SPECIFICATION FairSpec
INVARIANTS ChainsEnd VersionCountsPuts
PROPERTY MemoryIsAtomic
CHECK_DEADLOCK FALSE
