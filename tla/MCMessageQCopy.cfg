\* Two objects, one after the other at one endpoint number, two senders with two
\* payloads, a manager that unblocks and deletes.
CONSTANTS
  r1 = r1
  m1 = m1
  task = task
  swi = swi
  o1 = o1
  o2 = o2
  b1 = b1
  b2 = b2
  x = x
  y = y
  Readers = {r1}
  Senders = {task, swi}
  LastSender = swi
  Managers = {m1}
  MaxReserved = 0
  MaxEndpoint = 0
  Objects = {o1, o2}
  Blocks = {b1, b2}
  Payloads = {x, y}
  AssignAny = AssignAny
  NULL = NULL
SPECIFICATION FairSpec
ACTION_CONSTRAINT OneSenderAtLast
INVARIANTS TypeOK NoBlockShared NoBlockLost TokensMatchMessages
PROPERTIES RefinesMailbox NobodyLeftWaiting
\* A reader waits for ever when nobody sends to it.
CHECK_DEADLOCK FALSE
