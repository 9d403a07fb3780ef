\* A background task and a goal round next to any three of: messages, a stop, a send-now, a
\* removal, a scheduled run, its timeout, a failing operation, a crash.
CONSTANTS
  Threads = {t1, t2, t3}
  Messages = {m1, m2}
  Rounds = {r1}
  Tasks = {k1}
  MaxWakeTurns = 1
  MaxStops = 1
  MaxSendNow = 1
  MaxRemovals = 1
  MaxDirect = 1
  MaxTimeouts = 1
  MaxFaults = 1
  MaxCrashes = 1
  MaxEvents = 3
  None = None
SPECIFICATION Spec
SYMMETRY MCSymmetry
CONSTRAINT FewEvents
INVARIANTS
  TypeOK
  GuardHeld
  StopHolds
  NoMessageLost
  RepeatsNeedFailures
  ResultsExactlyOnce
CHECK_DEADLOCK FALSE
