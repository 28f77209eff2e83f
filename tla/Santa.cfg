SPECIFICATION FairSpec
CONSTANTS
  Reindeer = {r1, r2}
  Elves = {e1, e2, e3}
  ELVES_REQUIRED = 2
  SANTA_DELIVERIES = 2
  santa = santa
  NoElf = NoElf
INVARIANTS TypeOK AllReindeerPull HelpedElvesStay SantaNotMissed
PROPERTIES SantaEnds
CHECK_DEADLOCK FALSE
