SPECIFICATION FairSpec
CONSTANTS
  t1 = t1
  t2 = t2
  h1 = h1
  None = None
  Tasks = {t1, t2}
  ResHandles = {h1}
  RingSize = 3
  MaxConnects = 2
  MaxTimeouts = 1
INVARIANTS
  TypeOK
  OwnAnswer
  HostAgrees
PROPERTY
  CallsEnd
CHECK_DEADLOCK FALSE
