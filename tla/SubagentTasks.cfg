\* Two tasks of one session, and any two disturbances.
CONSTANTS
  Tasks = {t1, t2}
  Sessions = {s1}
  Tool = tool
  Web = {w1}
  MaxRetries = 1
  Disturbances = {"failure", "timeout", "detach", "stop", "resume", "cancel", "crash"}
  MaxDisturbances = 2
  MaxTurns = 2
  None = None
SPECIFICATION Spec
SYMMETRY MCSymmetry
INVARIANTS
  TypeOK
  EndedRunsSaySo
  ToldOnce
  MarkedWasTold
PROPERTIES
  OutcomesStay
CHECK_DEADLOCK FALSE
