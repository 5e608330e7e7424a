\* Two buffers, indices that wrap twice around the rings, two tasks.
CONSTANTS
  Num = 2
  IdxMod = 4
  FifoSize = 1
  Messages = {x}
  Senders = {s1, s2}
  NULL = NULL
SPECIFICATION FairSpec
INVARIANTS TypeOK DescriptorsOwnedOnce
PROPERTIES RefinesChannel BlockedSendersWoken
\* Every task may be idle, with the host holding nothing.
CHECK_DEADLOCK FALSE
