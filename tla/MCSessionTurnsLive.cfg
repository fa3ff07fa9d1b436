CONSTANTS
  Calls = {c1, c2}
  Interrupts = {}
  MaxSteps = 2
  None = None
SPECIFICATION FairSpec
PROPERTIES AcceptedIsSettled EveryCallAnswered
