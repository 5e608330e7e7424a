SPECIFICATION FairSpec
CONSTANTS
  c1 = c1
  c2 = c2
  c3 = c3
  Clients = {c1, c2, c3}
  ManagerOf <- TwoAndOne
  a1 = a1
  a2 = a2
  Endpoints <- TwoEndpoints
  MaxTuples = 2
  None = None
INVARIANTS
  TypeOK
  OwnService
  NothingLeftOver
PROPERTIES
  Progress
CHECK_DEADLOCK FALSE
