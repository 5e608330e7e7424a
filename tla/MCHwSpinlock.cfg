SPECIFICATION FairSpec
CONSTANTS
  t1 = t1
  t2 = t2
  t3 = t3
  Tasks = {t1, t2, t3}
  CoreOf <- TwoAndOne
  Locks = {1, 2}
  None = None
  MaxEnters = 1
  MaxCreated = 1
INVARIANTS
  TypeOK
  HoldersKnown
PROPERTY
  CallsEnd
CHECK_DEADLOCK FALSE
