SPECIFICATION Spec
CONSTANTS
  Callers = {d}
  Tabs = {t}
  Depth = 1
  MaxTurns = 2
  MaxSteps = 1
  MaxPrompts = 1
  MaxFaults = 1
INVARIANTS PromptsCleared
CHECK_DEADLOCK FALSE
