SPECIFICATION IleappFairSpec
CONSTANTS
  N <- Modules
  Limit <- Ticks
  None = None
INVARIANTS EndIsTrue MovingIsNeverStopped NoneLeftBehind
PROPERTIES EveryRunSettles
CHECK_DEADLOCK FALSE
