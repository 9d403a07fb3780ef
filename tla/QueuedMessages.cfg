CONSTANTS
  Ids = {m1, m2, m3, m4}
  Clients = {c1, c2, c3}
  Contents = {t1, t2}
  PositionsBelow = 3
  MaxOrder = 2
  Orders <- MCOrders
  Positions <- MCPositions
SPECIFICATION Spec
SYMMETRY MCSymmetry
INVARIANTS
  TypeOK
PROPERTIES
  ImplementsQueue
CHECK_DEADLOCK FALSE
