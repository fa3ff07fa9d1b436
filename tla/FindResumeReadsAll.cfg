CONSTANTS
  Calls = {c1, c2}
  Ids = {s1}
  Cap = 1
  Kinds = {"turn"}
  Grace = FALSE
  None = None
SPECIFICATION Spec
PROPERTIES ResumeReadsAll
