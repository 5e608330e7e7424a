\* Two buffers, indices that wrap twice around the rings, two messages.
CONSTANTS
  Num = 2
  IdxMod = 4
  FifoSize = 1
  Messages = {x, y}
  NULL = NULL
SPECIFICATION ArrivalsFairSpec
INVARIANTS ArrivalsTypeOK ArrivalsOwnedOnce
PROPERTIES ArrivalsRefineChannel NeitherSideWaits
\* Nothing happens before the first receive.
CHECK_DEADLOCK FALSE
