CONSTANTS
  FifoSize = 2
  Core0Messages = {k}
  Core1Messages = {x, y}
  INVALIDPAYLOAD = INVALIDPAYLOAD
SPECIFICATION FairSpec
INVARIANTS TypeOK NoMessageWithoutInterrupt
PROPERTIES RefinesChannel MessagesTaken
\* Nobody is obliged to send.
CHECK_DEADLOCK FALSE
