SPECIFICATION FairSpec
CONSTANTS
  Threads = {t1, t2, t3}
  MaxMsgId = 3
  MaxUnawaited = 1
  None = None
INVARIANTS
  TypeOK
  MailmanFollows
PROPERTIES
  ImplementsReplyBox
CHECK_DEADLOCK FALSE
