CONSTANTS
  Ids = {i1, i2}
  Ops = {p1, p2, p3, p4}
  NoArc = NoArc
SPECIFICATION FairSpec
INVARIANTS NoLeakedLock
PROPERTIES ImplementsMutex EveryCallRuns
