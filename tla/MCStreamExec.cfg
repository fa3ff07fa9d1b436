CONSTANTS
  Keys <- MCKeys
  Rules <- MCRules
  RuleOf <- MCRuleOf
  Safe <- MCSafe
  Allowed <- MCAllowed
  Denied = {}
  MaxTools = 4
  Timeout = TRUE
SPECIFICATION FairSpec
INVARIANTS Paired BarrierAlone AbortIsLocal Consent
PROPERTIES EventuallyWritten
