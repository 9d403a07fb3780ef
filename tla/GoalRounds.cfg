\* One request of the web page at a time, next to the run and its tools.
CONSTANTS
  Requests = {w1}
  Run = run
  Budgets = {1}
  BlockedAfter = 1
  MaxGoals = 2
  MaxRuns = 3
  MaxMessages = 1
  MaxRequests = 2
  MaxCalls = 2
  MaxFaults = 1
  None = None
SPECIFICATION Spec
INVARIANTS
  TypeOK
  FreshConsent
  BudgetKept
  QuietAfterStop
  DriverNeverForgets
PROPERTIES
  ClosedPhases
CHECK_DEADLOCK FALSE
