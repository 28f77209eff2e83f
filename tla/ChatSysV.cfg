SPECIFICATION Spec
CONSTANTS
  Clients = {a, b, c}
  QARRAY_SIZE = 2
  QueueMax = 2
  NoQueue = NoQueue
  BadQueue = BadQueue
  MaxLines = 2
  MaxAccidents = 0
SYMMETRY Symmetry
INVARIANTS TypeOK TableRight SenderRight OrderKept
CHECK_DEADLOCK FALSE
