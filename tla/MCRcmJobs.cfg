SPECIFICATION FairSpec
CONSTANTS
  w1 = w1
  w2 = w2
  Workers = {w1, w2}
  PoolMaps <- BothWays
  PoolOrder <- TwoPools
  MaxMessages = 4
  MaxJobs = 1
  QuietDelete = TRUE
INVARIANTS
  TypeOK
  JobsInSequence
  NoneStranded
PROPERTIES
  Progress
CHECK_DEADLOCK FALSE
