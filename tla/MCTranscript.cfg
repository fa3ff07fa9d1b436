CONSTANTS
  MaxClock = 3
  MaxFaults = 1
  MaxFresh = 1
  TornWrites = FALSE
SPECIFICATION Spec
INVARIANTS Recoverable NeverMisattributed BodiesWritten
