\* g1 selects from both channels, g2 sends on them and g3 receives from the second.
CONSTANTS
  Gs = {g1, g2, g3}
  None = None
SPECIFICATION MixedSpec
INVARIANT ListsOfWaiters
CHECK_DEADLOCK FALSE
