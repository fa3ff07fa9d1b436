CONSTANTS
  Calls = {c1, c2}
  Interrupts = {i1}
  MaxSteps = 2
  None = None
SPECIFICATION Spec
INVARIANT SteerOrTurn
