SPECIFICATION PowerFairSpec
CONSTANTS
  MaxLocks = 2
  MaxRequests = 2
INVARIANTS
  PowerTypeOK
  LockedThroughout
  SuspendedPerRequest
PROPERTY
  RequestEnds
CHECK_DEADLOCK FALSE
