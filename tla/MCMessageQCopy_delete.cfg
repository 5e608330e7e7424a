\* One endpoint that is deleted while the Swi delivers to it.
CONSTANTS
  Readers = {r1}
  Senders = {task, swi}
  Managers = {m1}
  MaxReserved = 0
  MaxEndpoint = 0
  Objects = {o1}
  Blocks = {b1, b2}
  Payloads = {x}
  AssignAny = AssignAny
  NULL = NULL
SPECIFICATION Spec
INVARIANT ProtectedFromDelete
\* The run ends at the violation.
CHECK_DEADLOCK FALSE
