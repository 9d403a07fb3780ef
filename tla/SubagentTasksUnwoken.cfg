\* One foreground task whose wait times out.
CONSTANTS
  Tasks = {t1}
  Sessions = {s1}
  Tool = tool
  Web = {}
  MaxRetries = 1
  Disturbances = {"timeout"}
  MaxDisturbances = 1
  MaxTurns = 1
  None = None
SPECIFICATION Spec
INVARIANTS
  EndsWakeTheParent
CHECK_DEADLOCK FALSE
