CONSTANTS
  MaxClock = 3
  MaxFaults = 1
  MaxFresh = 1
  TornWrites = TRUE
SPECIFICATION Spec
INVARIANT ContentSurvives
