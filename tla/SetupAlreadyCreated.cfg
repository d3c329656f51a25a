\* A request that fails between the config document and the dashboard.
CONSTANTS
  Collector = {n1, n2}
  PanelsPerNode = 1
  MaxAttempts = 2
  MaxFaults = 1
  MaxRestarts = 0
SPECIFICATION Spec
INVARIANT AlreadyCreated
CHECK_DEADLOCK FALSE
