SPECIFICATION FairSpec
CONSTANTS
  Clients = {a, b}
  QARRAY_SIZE = 2
  QueueMax = 3
  NoQueue = NoQueue
  BadQueue = BadQueue
  MaxLines = 2
  MaxAccidents = 1
INVARIANTS LeaversAnnounced
PROPERTIES ListComes StopReachesAll
CHECK_DEADLOCK FALSE
