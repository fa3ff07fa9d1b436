CONSTANTS
  MaxClock = 2
  MaxFaults = 1
  MaxFresh = 1
  TornWrites = TRUE
  MaxLines = 5
SPECIFICATION Spec
PROPERTIES ImplementsStore
