SPECIFICATION Spec
CONSTANTS
  Reindeer = {r1, r2}
  Elves = {e1, e2, e3, e4}
  ELVES_REQUIRED = 2
  SANTA_DELIVERIES = 2
  santa = santa
  NoElf = NoElf
INVARIANTS ElvesGoOn
CHECK_DEADLOCK FALSE
