SPECIFICATION InstanceSpec
CONSTANTS
  Daemons = {a, b}
  Pids = {p1, p2}
  Tolerance = 1
  Drift = 1
  Jump = 3
  MaxClock = 4
PROPERTY Listed
