SPECIFICATION Spec
CONSTANTS
  Clients = {a, b, c}
  QARRAY_SIZE = 2
  QueueMax = 2
  NoQueue = NoQueue
  MaxLines = 1
  MaxAccidents = 1
SYMMETRY Symmetry
INVARIANTS TypeOK SendersRight StopWaits
CHECK_DEADLOCK FALSE
