SPECIFICATION Spec
CONSTANTS
  Clients = {a, b}
  QARRAY_SIZE = 2
  QueueMax = 2
  NoQueue = NoQueue
  MaxLines = 1
  MaxAccidents = 0
INVARIANTS AnswersRight
CHECK_DEADLOCK FALSE
