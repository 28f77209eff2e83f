SPECIFICATION Spec
CONSTANTS
  a = a
  b = b
  c = c
  n1 = n1
  n2 = n2
  n3 = n3
  Clients = {a, b, c}
  Names = {n1, n2, n3}
  MAX_PLAYERS = 2
  Cells = {1, 2}
  Lines <- MCLines
  Nobody = Nobody
  MaxPings = 1
  MaxSigints = 1
  MaxEofs = 1
SYMMETRY Symmetry
INVARIANTS TypeOK PairsAgree NobodyWaits NobodyLeftAlone OneTurn BoardsThere
CHECK_DEADLOCK FALSE
