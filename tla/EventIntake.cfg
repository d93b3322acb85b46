SPECIFICATION Spec
CONSTANTS
  Attempts = {a1, a2}
  Limit = 2
  Window = 2
  MaxTraffic = 1
  MaxExpiries = 1
  MaxFaults = 2
INVARIANTS
  AcceptedMeansQueued
  DuplicatesBounded
  ClaimsAreResolved
  LimitHolds
PROPERTY
  OperationsEnd
CHECK_DEADLOCK FALSE
