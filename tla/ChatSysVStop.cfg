SPECIFICATION Spec
CONSTANTS
  Clients = {a, b}
  QARRAY_SIZE = 2
  QueueMax = 2
  NoQueue = NoQueue
  BadQueue = BadQueue
  MaxLines = 0
  MaxAccidents = 1
INVARIANTS StopIsKnown
CHECK_DEADLOCK FALSE
