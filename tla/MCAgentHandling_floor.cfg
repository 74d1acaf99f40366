SPECIFICATION Spec
CONSTANTS
  Runs = {r1, r2}
  Requests <- MCRequests
  MinimumCohortSize = 25
  MaxFaults = 2
CHECK_DEADLOCK FALSE
INVARIANT
  FloorAsConfigured
