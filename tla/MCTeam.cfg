CONSTANTS
  Labels <- MCLabels
  Peers <- MCLabels
  Plans <- MCPlans
  Limits = {0, 2}
  MaxEntries = 5
  MaxFaults = 1
  MaxMail = 2
  MaxMailFaults = 1
  ReadMax = {1}
SPECIFICATION Spec
INVARIANTS TeamInv CheckpointIsThere MailInv
PROPERTIES RunEnds
CHECK_DEADLOCK FALSE
