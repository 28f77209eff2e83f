SPECIFICATION FairSpec
CONSTANTS
  Cooks = {c1, c2}
  Deliverers = {d1, d2}
  OvenSize = 1
  TableSize = 2
  Pizzas = {hawaii}
  NoPizza = NoPizza
  MaxHangUps = 1
INVARIANTS TypeOK CountersAgree
PROPERTIES LineSpec KeepsDelivering
CHECK_DEADLOCK FALSE
