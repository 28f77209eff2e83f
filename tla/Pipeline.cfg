SPECIFICATION FairSpec
CONSTANTS
  Lines <- FourCommands
  Units = 0
  PipeSize = 1
PROPERTIES LineEnds
CHECK_DEADLOCK FALSE
