SPECIFICATION MembersSpec
CONSTANTS
  Callers = {p, q}
  Members = {a, b, c}
  Modes = {"accept"}
  Batches = {{}}
  MaxPersistent = 0
  MaxTasks = 3
  MaxMemberFaults = 2
SYMMETRY Interchangeable
INVARIANTS MembersInv TasksAreHeld
PROPERTIES PoolBounded KeepsConversation
CHECK_DEADLOCK FALSE
