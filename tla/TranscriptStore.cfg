\* Turns, truncations and tasks without the lock on one session.
CONSTANTS
  Threads = {t1, t2, t3}
  Bodies = {a, b}
  Cuts = {1, 2}
  MaxTurns = 2
  MaxEdits = 1
  MaxVisits = 1
  MaxCuts = 1
  MaxFaults = 1
  MaxCrashes = 1
  MaxEvents = 3
  None = None
SPECIFICATION Spec
SYMMETRY MCSymmetry
CONSTRAINT FewEvents
INVARIANTS
  TypeOK
  CacheTellsTheRows
  HistoryKept
  RunningIsOwned
CHECK_DEADLOCK FALSE
