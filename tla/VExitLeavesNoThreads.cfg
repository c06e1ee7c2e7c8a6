SPECIFICATION Spec
CONSTANTS
  Devices = {d1}
  None = None
  Sides = {"input"}
  ErrCap = 1
  MaxInFlight = 2
INVARIANT ExitLeavesNoThreads
CHECK_DEADLOCK FALSE
