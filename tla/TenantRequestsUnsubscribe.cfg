SPECIFICATION Spec
CONSTANTS
  MaxRequests = 3
  MaxConcurrent = 2
  MaxFaults = 2
  MaxLoad = 3
INVARIANT UnsubscribeHolds
CHECK_DEADLOCK FALSE
