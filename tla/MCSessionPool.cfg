CONSTANTS
  Calls = {c1, c2}
  Ids = {s1, s2}
  Cap = 1
  Kinds = {"turn", "resume", "delete", "close"}
  Grace = TRUE
  None = None
SPECIFICATION FairSpec
INVARIANTS NoLeakedEngine StoppedIsReplaced ResumeKeepsHistory WithinCap
PROPERTIES EveryCallEnds
