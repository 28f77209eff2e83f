SPECIFICATION FairSpec
CONSTANTS
  Producers = {p1, p2}
  Rows = {1, 2}
  Chunks = 2
  FifoSize = 4
  MaxSignals = 3
  cook_number = 2
  deliverer_number = 2
  Tries <- Images
  MaxPixel = 2
INVARIANTS CountsRight LinesRight BlocksNegated
PROPERTIES SenderEnds LineEnds AllStored NegatedOnce StartsFresh WorkersEnd
CHECK_DEADLOCK FALSE
