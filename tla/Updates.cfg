CONSTANTS
  Tags = {t1, t2}
  FirstVersion = t0
  None = None
  MaxOps = 3
  Launchers = {l1, l2}
  MaxLaunches = 1
  MaxDeaths = 1
SPECIFICATION Spec
CONSTRAINT InTime
SYMMETRY Symmetry
INVARIANTS
  TypeOK
  GateIsOwned
  ReadyHasMarker
  UnprovenHasHelper
CHECK_DEADLOCK FALSE
