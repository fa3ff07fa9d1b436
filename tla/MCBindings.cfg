CONSTANTS
  Gets = {g1, g2}
  MaxChanges = 2
  None = None
SPECIFICATION BindingsFairSpec
INVARIANTS OneCatalog WatchesAreOwned
PROPERTIES LastEventIsSent
