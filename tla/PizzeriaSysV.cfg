SPECIFICATION FairSpec
CONSTANTS
  Cooks = {c1, c2, c3}
  Deliverers = {d1, d2}
  OvenSize = 2
  TableSize = 2
  Pizzas = {hawaii}
  NoPizza = NoPizza
  MaxHangUps = 1
INVARIANTS TypeOK Exclusive SpotFound CountersAgree
PROPERTIES LineSpec KeepsDelivering
CHECK_DEADLOCK FALSE
